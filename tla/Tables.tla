------------------------------- MODULE Tables -------------------------------
(***************************************************************************)
(* The tables connections and dns_rules as store.py changes them: one      *)
(* operator per function, from the table to the table its transaction      *)
(* commits.  The table connections is a function from the names it holds;  *)
(* names are numbers, so that ORDER BY name has its meaning.  The rules    *)
(* are a set of records.                                                   *)
(***************************************************************************)
EXTENDS Integers, Sequences, FiniteSets, FiniteSetsExt

CONSTANT None

-----------------------------------------------------------------------------
(* The connections.                                                        *)

Defaults(rows) == {n \in DOMAIN rows : rows[n].is_default}

\* UPDATE is_default = 0, and = 1 on one name, which need not be in the table.
Marked(rows, name) == [n \in DOMAIN rows |-> [rows[n] EXCEPT !.is_default = n = name]]

\* save_connection(): update or insert; the first connection is the default.
SaveConnection(rows, name, profile, ignore, key, make_default) ==
  LET row(was)  == [profile |-> profile, ignore |-> ignore, key |-> key, is_default |-> was]
      written   == [n \in DOMAIN rows \union {name} |->
                      IF n # name THEN rows[n]
                      ELSE row(name \in DOMAIN rows /\ rows[name].is_default)]
  IN  IF make_default \/ DOMAIN written = {name} THEN Marked(written, name) ELSE written

\* The flag of toggle_ignore_pushed_dns(), on a name that may have gone.
SetIgnore(rows, name, enabled) ==
  [n \in DOMAIN rows |-> IF n = name THEN [rows[n] EXCEPT !.ignore = enabled] ELSE rows[n]]

\* Deliberate fault: nobody is promoted.
DeletedOnly(rows, name) == [n \in DOMAIN rows \ {name} |-> rows[n]]

\* delete_connection(): a survivor is promoted when the default goes.
DeleteConnection(rows, name) ==
  LET left == [n \in DOMAIN rows \ {name} |-> rows[n]]
  IN  IF Defaults(left) = {} /\ DOMAIN left # {} THEN Marked(left, Min(DOMAIN left)) ELSE left

-----------------------------------------------------------------------------
(* The DNS rules.                                                          *)

Rule(id, kind, domain, address, position) ==
  [id |-> id, kind |-> kind, domain |-> domain, address |-> address, position |-> position]

OfKind(rules, kind) == {r \in rules : r.kind = kind}
WithId(rules, id)   == {r \in rules : r.id = id}

\* The row that add_dns_rule() updates: the domain it is asked for.
Existing(rules, kind, domain) == {r \in OfKind(rules, "domain") : kind = "domain" /\ r.domain = domain}

\* It refuses the address of a fallback that it has already.
Refused(rules, kind, address) ==
  kind # "domain" /\ \E r \in OfKind(rules, "fallback") : r.address = address

NextPosition(rules) ==
  Max({r.position : r \in OfKind(rules, "fallback")} \union {-1}) + 1

\* add_dns_rule(): upsert by domain, or append to the fallbacks.  id is the
\* row the insertion would get.
AddRule(rules, id, kind, domain, address) ==
  LET same == Existing(rules, kind, domain)
  IN  IF same # {} THEN (rules \ same) \union {[r EXCEPT !.address = address] : r \in same}
      ELSE rules \union {IF kind = "domain"
                         THEN Rule(id, "domain", domain, address, None)
                         ELSE Rule(id, "fallback", None, address, NextPosition(rules))}

\* The row it reads back.
AddedId(rules, id, kind, domain) ==
  LET same == Existing(rules, kind, domain)
  IN  IF same # {} THEN (CHOOSE r \in same : TRUE).id ELSE id

DeleteRule(rules, id) == rules \ WithId(rules, id)

\* move_fallback_rule(): the neighbour, and nothing at the ends.
Neighbours(rules, row, direction) ==
  LET side == {r \in OfKind(rules, "fallback") :
                 IF direction = "up" THEN r.position < row.position
                                     ELSE r.position > row.position}
      near(r) == IF direction = "up" THEN row.position - r.position
                                     ELSE r.position - row.position
  IN  {r \in side : \A s \in side : near(r) =< near(s)}

\* Deliberate fault: the neighbour keeps its position.
MovedOver(rules, row, direction) ==
  LET near == Neighbours(rules, row, direction)
  IN  IF near = {} THEN rules
      ELSE LET other == CHOOSE r \in near : TRUE
           IN  (rules \ {row}) \union {[row EXCEPT !.position = other.position]}

MoveFallback(rules, row, direction) ==
  LET near == Neighbours(rules, row, direction)
  IN  IF near = {} THEN rules
      ELSE LET other == CHOOSE r \in near : TRUE
           IN  (rules \ {row, other}) \union {[row EXCEPT !.position = other.position],
                                              [other EXCEPT !.position = row.position]}
=============================================================================
