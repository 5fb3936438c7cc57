---------------------------- MODULE RootedProofs ----------------------------
(***************************************************************************)
(* Proofs about Rooted: the inbound filter, for any number of threads,     *)
(* requests, restarts and interferences, and whatever the DNS rules do in  *)
(* between; the table of DNS rules; and the rules on their way from there  *)
(* to the running dnsmasq, whoever is cut off where.                       *)
(***************************************************************************)
EXTENDS Rooted, NumberLemmas

\* What a thread is doing is well founded.  Whoever stores a setting that is not the
\* operator's switch stores "on", and has read it: the operator's answer is "on", or
\* has been undone, or the switch was set to off since.  A tunnel that is about to
\* start was let through by the guard: the setting is off, or the filter is there,
\* or that has changed since.
Founded(d) ==
  /\ d.at # "rest" => d.op # ""
  /\ d.at \in {"probe", "store", "act"} /\ d.op # "switch" => d.on
  /\ d.at \in {"probe", "store"} /\ d.op # "switch" => d.intended
  /\ d.at \in {"status", "probe", "store"} /\ d.op # "switch" /\ d.intended =>
       answer \/ undone \/ d.overtaken
  /\ d.at = "start" => d.op = "connect" /\ (setting /\ copies = 0 => d.disturbed)

AllFounded == \A w \in Workers : Founded(duty[w])

FilterInv ==
  Filter!FirewallTypeOK /\ AllFounded /\ Filter!AnswerKept /\ Filter!NeverExposed

\* What the proofs need of the type invariant.
LEMMA CopiesAreCounted ==
  ASSUME FilterInv
  PROVE  copies \in 0 .. MaxCopies /\ copies \in Nat /\ MaxCopies \in Nat /\ 0 \in 0 .. MaxCopies
<1>1. copies \in 0 .. MaxCopies /\ MaxCopies \in Nat
  BY RootedAssumption DEF FilterInv, Filter!FirewallTypeOK
<1> QED  BY ONLY <1>1

Duty == [at : {"rest", "recheck", "status", "probe", "store", "act", "report", "start"},
         op : {"", "switch", "look", "connect"}, on : BOOLEAN,
         intended : BOOLEAN, disturbed : BOOLEAN, overtaken : BOOLEAN]

LEMMA DutyRecords ==
  ASSUME FilterInv, NEW w \in Workers
  PROVE  /\ duty \in [Workers -> Duty] /\ duty[w] \in Duty /\ Founded(duty[w])
         /\ setting \in BOOLEAN /\ answer \in BOOLEAN /\ undone \in BOOLEAN
         /\ copies \in 0 .. MaxCopies /\ MaxCopies \in Nat \ {0}
         /\ copies \in Nat /\ exposed = FALSE
         /\ answer => setting
         /\ setting => answer \/ undone
<1>1. exposed \in BOOLEAN /\ ~exposed
  BY DEF FilterInv, Filter!FirewallTypeOK, Filter!NeverExposed
<1>2. copies \in 0 .. MaxCopies /\ MaxCopies \in Nat \ {0}
  BY RootedAssumption DEF FilterInv, Filter!FirewallTypeOK
<1>3. copies \in Nat
  BY CopiesAreCounted
<1>4. duty \in [Workers -> Duty] /\ setting \in BOOLEAN /\ answer \in BOOLEAN /\ undone \in BOOLEAN
  BY DEF FilterInv, Filter!FirewallTypeOK, Duty
<1>5. Founded(duty[w]) /\ (answer => setting) /\ (setting => answer \/ undone)
  BY DEF FilterInv, AllFounded, Filter!AnswerKept
<1> QED  BY <1>1, <1>2, <1>3, <1>4, <1>5

\* A thread at rest.
LEMMA Resting ==
  /\ Filter!Rest \in Duty /\ Filter!Rest.at = "rest" /\ Founded(Filter!Rest)
<1>1. Filter!Rest \in Duty /\ Filter!Rest.at = "rest"
  BY DEF Filter!Rest, Duty
<1> QED  BY <1>1 DEF Founded

\* A thread that takes its own step, and leaves the setting and the filter alone.
LEMMA TurnPreserves ==
  ASSUME FilterInv, NEW w \in Workers, NEW record \in Duty, Founded(record),
         duty' = [duty EXCEPT ![w] = record],
         UNCHANGED <<setting, copies, answer, undone>>, exposed' = FALSE
  PROVE  FilterInv'
<1>1. duty \in [Workers -> Duty]
  BY DutyRecords
<1>2. /\ duty'[w] = record
      /\ \A v \in Workers : v # w => duty'[v] = duty[v]
  BY <1>1
<1>3. Filter!FirewallTypeOK'
  BY <1>1 DEF FilterInv, Filter!FirewallTypeOK, Duty
<1>4. AllFounded'
  <2> SUFFICES ASSUME NEW v \in Workers PROVE Founded(duty[v])'
    BY DEF AllFounded
  <2>1. Founded(duty'[v])
    BY <1>2 DEF FilterInv, AllFounded
  <2> QED  BY <2>1 DEF Founded
<1>5. Filter!AnswerKept' /\ Filter!NeverExposed'
  BY DEF FilterInv, Filter!AnswerKept, Filter!NeverExposed
<1> QED  BY <1>3, <1>4, <1>5 DEF FilterInv

\* A request begins, and the guard lets a tunnel start only while the setting is off.
LEMMA RequestPreserves ==
  ASSUME FilterInv, NEW w \in Workers, Filter!FirewallRequest(w)
  PROVE  FilterInv'
<1>1. setting \in BOOLEAN /\ exposed = FALSE /\ (setting => answer \/ undone)
  BY DutyRecords
<1>2. CASE Filter!Switch(w)
  <2>1. PICK on \in BOOLEAN :
          duty' = [duty EXCEPT ![w] =
                     [Filter!Rest EXCEPT !.at = IF on THEN "probe" ELSE "store", !.op = "switch", !.on = on]]
    BY <1>2 DEF Filter!Switch, Filter!Turn
  <2> DEFINE record == [Filter!Rest EXCEPT !.at = IF on THEN "probe" ELSE "store",
                                           !.op = "switch", !.on = on]
  <2>2. record \in Duty /\ record.op = "switch" /\ record.at # "start"
    BY DEF Filter!Rest, Duty
  <2>3. UNCHANGED <<setting, copies, exposed, answer, undone>>
    BY <1>2 DEF Filter!Switch
  <2>4. duty' = [duty EXCEPT ![w] = record]
    BY <2>1
  <2> HIDE DEF record
  <2>5. Founded(record)
    BY <2>2 DEF Founded
  <2> QED  BY <1>1, <2>2, <2>3, <2>4, <2>5, TurnPreserves
<1>3. CASE Filter!Look(w)
  <2> DEFINE record == [Filter!Rest EXCEPT !.at = "status", !.op = "look", !.intended = setting]
  <2>1. record \in Duty /\ record.at = "status" /\ record.op = "look" /\ record.intended = setting
    BY <1>1 DEF Filter!Rest, Duty
  <2>2. duty' = [duty EXCEPT ![w] = record] /\ UNCHANGED <<setting, copies, exposed, answer, undone>>
    BY <1>3 DEF Filter!Look, Filter!Turn
  <2> HIDE DEF record
  <2>3. Founded(record)
    BY <1>1, <2>1 DEF Founded
  <2> QED  BY <1>1, <2>1, <2>2, <2>3, TurnPreserves
<1>4. CASE Filter!Guard(w)
  <2> DEFINE record == [Filter!Rest EXCEPT !.at = IF setting THEN "recheck" ELSE "start", !.op = "connect"]
  <2>1. /\ record \in Duty /\ record.op = "connect" /\ record.at \in {"recheck", "start"}
        /\ record.at = "start" => ~setting
    BY <1>1 DEF Filter!Rest, Duty
  <2>2. duty' = [duty EXCEPT ![w] = record] /\ UNCHANGED <<setting, copies, exposed, answer, undone>>
    BY <1>4 DEF Filter!Guard, Filter!Turn
  <2> HIDE DEF record
  <2>3. Founded(record)
    BY <2>1 DEF Founded
  <2> QED  BY <1>1, <2>1, <2>2, <2>3, TurnPreserves
<1> QED  BY <1>2, <1>3, <1>4 DEF Filter!FirewallRequest

\* The state of the filter is known: only a connect that found it armed goes on.
LEMMA ConcludedIsGuarded ==
  ASSUME FilterInv, NEW w \in Workers, NEW state \in Filter!Answers
  PROVE  Filter!Concluded(w, state) \in Duty /\ Founded(Filter!Concluded(w, state))
<1>1. duty[w] \in Duty /\ copies \in Nat
  BY DutyRecords
<1>2. state = "armed" => copies > 0
  BY DEF Filter!Answers
<1>3. CASE duty[w].op = "connect" /\ state = "armed"
  <2> DEFINE record == [duty[w] EXCEPT !.at = "start"]
  <2>1. record \in Duty /\ record.at = "start" /\ record.op = "connect"
    BY <1>1, <1>3 DEF Duty
  <2>2. Filter!Concluded(w, state) = record
    BY <1>3 DEF Filter!Concluded
  <2> HIDE DEF record
  <2>3. copies # 0
    BY <1>1, <1>2, <1>3
  <2>4. Founded(record)
    BY <2>1, <2>3 DEF Founded
  <2> QED  BY <2>1, <2>2, <2>4
<1>4. CASE ~(duty[w].op = "connect" /\ state = "armed")
  BY <1>4, Resting DEF Filter!Concluded
<1> QED  BY <1>3, <1>4

LEMMA LettingThrough ==
  ASSUME FilterInv, NEW w \in Workers, NEW state \in Filter!Answers,
         duty' = [duty EXCEPT ![w] = Filter!Concluded(w, state)],
         UNCHANGED <<setting, copies, exposed, answer, undone>>
  PROVE  FilterInv'
BY ConcludedIsGuarded, DutyRecords, TurnPreserves

\* The steps that ask, and those that end a request.
LEMMA AskingPreserves ==
  ASSUME FilterInv, NEW w \in Workers,
         \/ Filter!Recheck(w) \/ Filter!Reconcile(w) \/ Filter!Probe(w)
         \/ Filter!StoreRefused(w) \/ Filter!Report(w)
  PROVE  FilterInv'
<1>1. /\ setting \in BOOLEAN /\ exposed = FALSE /\ duty[w] \in Duty /\ Founded(duty[w])
      /\ (setting => answer \/ undone)
  BY DutyRecords
<1>2. UNCHANGED <<setting, copies, exposed, answer, undone>>
  BY DEF Filter!Recheck, Filter!Reconcile, Filter!Probe, Filter!StoreRefused, Filter!Report
<1>3. CASE Filter!Recheck(w)
  <2> DEFINE record == [duty[w] EXCEPT !.at = "status", !.intended = setting, !.overtaken = FALSE]
  <2>1. /\ record \in Duty /\ record.at = "status" /\ record.op = duty[w].op
        /\ record.intended = setting /\ record.on = duty[w].on
    BY <1>1 DEF Duty
  <2>2. duty' = [duty EXCEPT ![w] = record] /\ duty[w].at = "recheck"
    BY <1>3 DEF Filter!Recheck, Filter!Turn, Filter!Doing
  <2> HIDE DEF record
  <2>3. Founded(record)
    BY <1>1, <2>1, <2>2 DEF Founded
  <2> QED  BY <1>1, <1>2, <2>1, <2>2, <2>3, TurnPreserves
<1>4. CASE Filter!Reconcile(w)
  <2>1. PICK state \in Filter!Answers :
          duty' = [duty EXCEPT ![w] =
                     IF duty[w].intended /\ state = "disarmed"
                     THEN [duty[w] EXCEPT !.at = "probe", !.on = TRUE]
                     ELSE Filter!Concluded(w, state)]
    BY <1>4 DEF Filter!Reconcile, Filter!Turn
  <2>2. CASE duty[w].intended /\ state = "disarmed"
    <3> DEFINE record == [duty[w] EXCEPT !.at = "probe", !.on = TRUE]
    <3>1. /\ record \in Duty /\ record.at = "probe" /\ record.on /\ record.op = duty[w].op
          /\ record.intended /\ record.overtaken = duty[w].overtaken
      BY <1>1, <2>2 DEF Duty
    <3>2. duty' = [duty EXCEPT ![w] = record] /\ duty[w].at = "status"
      BY <1>4, <2>1, <2>2 DEF Filter!Reconcile, Filter!Doing
    <3> HIDE DEF record
    <3>3. Founded(record)
      BY <1>1, <2>2, <3>1, <3>2 DEF Founded
    <3> QED  BY <1>1, <1>2, <3>1, <3>2, <3>3, TurnPreserves
  <2>3. CASE ~(duty[w].intended /\ state = "disarmed")
    <3>1. duty' = [duty EXCEPT ![w] = Filter!Concluded(w, state)]
      BY <2>1, <2>3
    <3> QED  BY <1>2, <3>1, LettingThrough
  <2> QED  BY <2>2, <2>3
<1>5. CASE Filter!Probe(w)
  <2> DEFINE record == [duty[w] EXCEPT !.at = "store"]
  <2>1. /\ record \in Duty /\ record.at = "store" /\ record.op = duty[w].op /\ record.on = duty[w].on
        /\ record.intended = duty[w].intended /\ record.overtaken = duty[w].overtaken
    BY <1>1 DEF Duty
  <2>2. /\ duty' = [duty EXCEPT ![w] = Filter!Rest] \/ duty' = [duty EXCEPT ![w] = record]
        /\ duty[w].at = "probe"
    BY <1>5 DEF Filter!Probe, Filter!Turn, Filter!Doing
  <2> HIDE DEF record
  <2>3. Founded(record)
    BY <1>1, <2>1, <2>2 DEF Founded
  <2> QED  BY <1>1, <1>2, <2>1, <2>2, <2>3, Resting, TurnPreserves
<1>6. CASE Filter!StoreRefused(w)
  <2>1. duty' = [duty EXCEPT ![w] = Filter!Rest]
    BY <1>6 DEF Filter!StoreRefused, Filter!Leave, Filter!Turn
  <2> QED  BY <1>1, <1>2, <2>1, Resting, TurnPreserves
<1>7. CASE Filter!Report(w)
  <2>1. PICK state \in Filter!Answers : duty' = [duty EXCEPT ![w] = Filter!Concluded(w, state)]
    BY <1>7 DEF Filter!Report, Filter!Turn
  <2> QED  BY <1>2, <2>1, LettingThrough
<1> QED  BY <1>3, <1>4, <1>5, <1>6, <1>7

\* The tunnel is started: nothing of it is exposed, since it was let through.
LEMMA StartPreserves ==
  ASSUME FilterInv, NEW w \in Workers, Filter!Start(w)
  PROVE  FilterInv'
<1>1. /\ duty' = [duty EXCEPT ![w] = Filter!Rest]
      /\ exposed' = (setting /\ copies = 0 /\ ~duty[w].disturbed)
      /\ duty[w].at = "start" /\ UNCHANGED <<setting, copies, answer, undone>>
  BY DEF Filter!Start, Filter!Leave, Filter!Turn, Filter!Doing
<1>2. exposed' = FALSE
  BY <1>1, DutyRecords DEF Founded
<1> QED  BY <1>1, <1>2, Resting, TurnPreserves

-----------------------------------------------------------------------------
(* The steps that change the setting or the filter.                        *)

\* What a thread is told of another's step.
LEMMA ToldRecord ==
  ASSUME NEW d \in Duty, NEW happened \in BOOLEAN, NEW off \in BOOLEAN
  PROVE  LET told == Filter!Told(d, happened, off)
         IN  /\ told \in Duty /\ told.at = d.at /\ told.op = d.op /\ told.on = d.on
             /\ told.intended = d.intended
             /\ told.disturbed <=> (d.disturbed \/ (happened /\ d.op = "connect"))
             /\ told.overtaken <=> (d.overtaken \/ (off /\ d.op \in {"look", "connect"}))
BY ZenonT(60) DEF Filter!Told, Duty

\* A store of the switch is what the operator answered; any other stores "on".
\* Where it turns the setting on, it disturbs every connect under way; where it turns
\* it off, it overtakes every repair.
LEMMA StorePreserves ==
  ASSUME FilterInv, NEW w \in Workers, Filter!Store(w)
  PROVE  FilterInv'
<1> DEFINE record   == [duty[w] EXCEPT !.at = "act"]
           happened == duty[w].on /\ ~setting
           off      == ~duty[w].on
<1>1. /\ duty[w].at = "store" /\ setting' = duty[w].on /\ UNCHANGED <<copies, exposed>>
      /\ IF duty[w].op = "switch" THEN answer' = duty[w].on /\ undone' = FALSE
                                  ELSE undone' = (undone \/ duty[w].overtaken) /\ UNCHANGED answer
      /\ duty' = [v \in Workers |-> IF v = w THEN record ELSE Filter!Told(duty[v], happened, off)]
  BY DEF Filter!Store, Filter!Doing, Filter!TurnTelling
<1>2. duty[w] \in Duty /\ Founded(duty[w]) /\ \A v \in Workers : duty[v] \in Duty /\ Founded(duty[v])
  BY DutyRecords
<1>3. record \in Duty /\ record.at = "act" /\ record.op = duty[w].op /\ record.on = duty[w].on
  BY <1>2 DEF Duty
<1>4. happened \in BOOLEAN /\ off \in BOOLEAN
  OBVIOUS
<1>5. off <=> ~duty[w].on
  OBVIOUS
<1>6. happened <=> duty[w].on /\ ~setting
  OBVIOUS
<1>7. duty[w].on \in BOOLEAN /\ duty[w].overtaken \in BOOLEAN
  BY <1>2 DEF Duty
<1> HIDE DEF record, happened, off
<1>8. /\ duty'[w] = record
      /\ \A v \in Workers : v # w =>
           /\ duty'[v] \in Duty /\ duty'[v].at = duty[v].at /\ duty'[v].op = duty[v].op
           /\ duty'[v].on = duty[v].on /\ duty'[v].intended = duty[v].intended
           /\ duty'[v].disturbed <=> (duty[v].disturbed \/ (happened /\ duty[v].op = "connect"))
           /\ duty'[v].overtaken <=> (duty[v].overtaken \/ (off /\ duty[v].op \in {"look", "connect"}))
  <2>1. duty'[w] = record /\ \A v \in Workers : v # w => duty'[v] = Filter!Told(duty[v], happened, off)
    BY <1>1
  <2>2. ASSUME NEW v \in Workers, v # w
        PROVE  /\ duty'[v] \in Duty /\ duty'[v].at = duty[v].at /\ duty'[v].op = duty[v].op
               /\ duty'[v].on = duty[v].on /\ duty'[v].intended = duty[v].intended
               /\ duty'[v].disturbed <=> (duty[v].disturbed \/ (happened /\ duty[v].op = "connect"))
               /\ duty'[v].overtaken <=> (duty[v].overtaken \/ (off /\ duty[v].op \in {"look", "connect"}))
    <3>1. duty'[v] = Filter!Told(duty[v], happened, off) /\ duty[v] \in Duty
      BY <1>2, <2>1, <2>2
    <3> QED  BY <1>4, <3>1, ToldRecord
  <2> QED  BY <2>1, <2>2
<1>9. Filter!FirewallTypeOK'
  <2>1. duty' \in [Workers -> Duty]
    BY <1>1, <1>3, <1>8
  <2>2. setting' \in BOOLEAN /\ answer' \in BOOLEAN /\ undone' \in BOOLEAN
    BY <1>1, <1>7, DutyRecords
  <2>3. copies' \in 0 .. MaxCopies /\ exposed' \in BOOLEAN
    BY <1>1, DutyRecords
  <2> QED  BY <2>1, <2>2, <2>3 DEF Filter!FirewallTypeOK, Duty
<1>10. /\ duty[w].op # "" /\ (duty[w].op # "switch" => duty[w].on /\ duty[w].intended)
       /\ duty[w].op # "switch" => answer \/ undone \/ duty[w].overtaken
  BY <1>1, <1>2 DEF Founded
<1>11. AllFounded'
  <2> SUFFICES ASSUME NEW v \in Workers PROVE Founded(duty[v])'
    BY DEF AllFounded
  <2>1. CASE v = w
    BY <1>3, <1>8, <1>10, <2>1 DEF Founded
  <2>2. CASE v # w
    <3>1. duty[v].op \in {"", "switch", "look", "connect"} /\ duty[v].at # "rest" => duty[v].op # ""
      BY <1>2 DEF Founded, Duty
    <3>2. /\ duty'[v].at # "rest" => duty'[v].op # ""
          /\ duty'[v].at \in {"probe", "store", "act"} /\ duty'[v].op # "switch" => duty'[v].on
          /\ duty'[v].at \in {"probe", "store"} /\ duty'[v].op # "switch" => duty'[v].intended
      BY <1>2, <1>8, <2>2 DEF Founded
    <3>3. ASSUME duty'[v].at \in {"status", "probe", "store"}, duty'[v].op # "switch", duty'[v].intended
          PROVE  answer' \/ undone' \/ duty'[v].overtaken
      <4>1. answer \/ undone \/ duty[v].overtaken
        BY <1>2, <1>8, <2>2, <3>3 DEF Founded
      <4>2. duty[v].op \in {"look", "connect"}
        BY <1>2, <1>8, <2>2, <3>3 DEF Founded, Duty
      <4>3. CASE duty[w].op = "switch" /\ duty[w].on
        BY <1>1, <4>3
      <4>4. CASE duty[w].op = "switch" /\ ~duty[w].on
        BY <1>5, <1>8, <2>2, <4>2, <4>4
      <4>5. CASE duty[w].op # "switch"
        BY <1>1, <1>8, <2>2, <4>1, <4>5
      <4> QED  BY <4>3, <4>4, <4>5
    <3>4. ASSUME duty'[v].at = "start"
          PROVE  duty'[v].op = "connect" /\ (setting' /\ copies' = 0 => duty'[v].disturbed)
      <4>1. duty[v].op = "connect" /\ (setting /\ copies = 0 => duty[v].disturbed)
        BY <1>2, <1>8, <2>2, <3>4 DEF Founded
      <4> QED  BY <1>1, <1>6, <1>8, <2>2, <4>1
    <3> QED  BY <3>2, <3>3, <3>4 DEF Founded
  <2> QED  BY <2>1, <2>2
<1>12. Filter!AnswerKept'
  <2>1. (answer => setting) /\ answer \in BOOLEAN /\ undone \in BOOLEAN
    BY DutyRecords
  <2> QED  BY <1>1, <1>7, <1>10, <2>1 DEF Filter!AnswerKept
<1>13. Filter!NeverExposed'
  BY <1>1 DEF FilterInv, Filter!NeverExposed
<1> QED  BY <1>9, <1>11, <1>12, <1>13 DEF FilterInv

\* Being told that the filter goes leaves a thread well founded when it is gone.
LEMMA ToldFounded ==
  ASSUME NEW d \in Duty, NEW happened \in BOOLEAN, Founded(d),
         UNCHANGED <<setting, answer, undone>>, copies' = 0 /\ copies # 0 => happened,
         NEW told, told = Filter!Told(d, happened, FALSE)
  PROVE  /\ told.at # "rest" => told.op # ""
         /\ told.at \in {"probe", "store", "act"} /\ told.op # "switch" => told.on
         /\ told.at \in {"probe", "store"} /\ told.op # "switch" => told.intended
         /\ told.at \in {"status", "probe", "store"} /\ told.op # "switch" /\ told.intended =>
              answer' \/ undone' \/ told.overtaken
         /\ told.at = "start" => told.op = "connect" /\ (setting' /\ copies' = 0 => told.disturbed)
<1>1. PICK off \in BOOLEAN : off = FALSE
  OBVIOUS
<1>2. /\ told.at = d.at /\ told.op = d.op /\ told.on = d.on /\ told.intended = d.intended
      /\ told.disturbed <=> (d.disturbed \/ (happened /\ d.op = "connect"))
      /\ told.overtaken <=> (d.overtaken \/ (off /\ d.op \in {"look", "connect"}))
  BY <1>1, ToldRecord
<1>3. told.overtaken <=> d.overtaken
  BY <1>1, <1>2
<1>4. setting' = setting /\ answer' = answer /\ undone' = undone
  OBVIOUS
<1>5. /\ told.at # "rest" => told.op # ""
      /\ told.at \in {"probe", "store", "act"} /\ told.op # "switch" => told.on
      /\ told.at \in {"probe", "store"} /\ told.op # "switch" => told.intended
  BY <1>2 DEF Founded
<1>6. ASSUME told.at \in {"status", "probe", "store"}, told.op # "switch", told.intended
      PROVE  answer' \/ undone' \/ told.overtaken
  <2>1. d.at \in {"status", "probe", "store"} /\ d.op # "switch" /\ d.intended
    BY <1>2, <1>6
  <2>2. answer \/ undone \/ d.overtaken
    BY <2>1 DEF Founded
  <2>3. CASE answer
    BY <1>4, <2>3, Zenon
  <2>4. CASE undone
    BY <1>4, <2>4, Zenon
  <2>5. CASE d.overtaken
    BY <1>3, <2>5, Zenon
  <2> QED  BY <2>2, <2>3, <2>4, <2>5, Zenon
<1>7. ASSUME told.at = "start"
      PROVE  told.op = "connect" /\ (setting' /\ copies' = 0 => told.disturbed)
  <2>1. d.op = "connect" /\ (setting /\ copies = 0 => d.disturbed)
    BY <1>2, <1>7, Zenon DEF Founded
  <2>2. told.op = "connect" /\ (happened => told.disturbed) /\ (d.disturbed => told.disturbed)
    BY <1>2, <2>1, Zenon
  <2>3. ASSUME setting', copies' = 0 PROVE told.disturbed
    <3>1. setting
      BY <1>4, <2>3, Zenon
    <3>2. CASE copies = 0
      BY <2>1, <2>2, <3>1, <3>2, Zenon
    <3>3. CASE copies # 0
      BY <2>2, <2>3, <3>3, Zenon
    <3> QED  BY <3>2, <3>3, Zenon
  <2> QED  BY <2>2, <2>3, Zenon
<1> QED  BY <1>5, <1>6, <1>7, Zenon

\* The filter changes, by a request's helper or otherwise: where it goes, every
\* connect under way is disturbed.
LEMMA FilterChanges ==
  ASSUME FilterInv, UNCHANGED <<setting, answer, undone, exposed>>,
         copies' \in 0 .. MaxCopies, duty' \in [Workers -> Duty], NEW happened \in BOOLEAN,
         copies' = 0 /\ copies # 0 => happened,
         \A v \in Workers :
           \/ duty'[v].at = "rest"
           \/ (duty'[v].at = "report" /\ duty'[v].op # "")
           \/ duty'[v] = Filter!Told(duty[v], happened, FALSE)
  PROVE  FilterInv'
<1>1. Filter!FirewallTypeOK'
  BY DEF FilterInv, Filter!FirewallTypeOK, Duty
<1>2. AllFounded'
  <2> SUFFICES ASSUME NEW v \in Workers PROVE Founded(duty[v])'
    BY DEF AllFounded
  <2>1. CASE duty'[v].at = "rest" \/ (duty'[v].at = "report" /\ duty'[v].op # "")
    BY <2>1 DEF Founded
  <2>2. CASE duty'[v] = Filter!Told(duty[v], happened, FALSE)
    <3>1. duty[v] \in Duty /\ Founded(duty[v])
      BY DutyRecords
    <3> DEFINE told == duty'[v]
    <3>2. /\ told.at # "rest" => told.op # ""
          /\ told.at \in {"probe", "store", "act"} /\ told.op # "switch" => told.on
          /\ told.at \in {"probe", "store"} /\ told.op # "switch" => told.intended
          /\ told.at \in {"status", "probe", "store"} /\ told.op # "switch" /\ told.intended =>
               answer' \/ undone' \/ told.overtaken
          /\ told.at = "start" => told.op = "connect" /\ (setting' /\ copies' = 0 => told.disturbed)
      BY <2>2, <3>1, ToldFounded
    <3> QED  BY <3>2 DEF Founded
  <2> QED  BY <2>1, <2>2
<1>3. Filter!AnswerKept' /\ Filter!NeverExposed'
  BY DEF FilterInv, Filter!AnswerKept, Filter!NeverExposed
<1> QED  BY <1>1, <1>2, <1>3 DEF FilterInv

LEMMA ActPreserves ==
  ASSUME FilterInv, NEW w \in Workers, Filter!Act(w)
  PROVE  FilterInv'
<1>1. PICK after \in Filter!After(duty[w].on), failed \in BOOLEAN :
        /\ after =< MaxCopies /\ copies' = after
        /\ Filter!TurnTelling(w, IF failed THEN Filter!Rest ELSE [duty[w] EXCEPT !.at = "report"],
                              copies > 0 /\ after = 0, FALSE)
        /\ UNCHANGED <<setting, exposed, answer, undone>>
  BY DEF Filter!Act
<1> DEFINE record   == IF failed THEN Filter!Rest ELSE [duty[w] EXCEPT !.at = "report"]
           happened == copies > 0 /\ after = 0
<1>2. duty' = [v \in Workers |-> IF v = w THEN record ELSE Filter!Told(duty[v], happened, FALSE)]
  BY <1>1 DEF Filter!TurnTelling
<1>3. \A v \in Workers : duty[v] \in Duty
  BY DutyRecords
<1>4. record \in Duty /\ (record.at = "rest" \/ (record.at = "report" /\ record.op # ""))
  <2>1. duty[w].at = "act" /\ duty[w].op # ""
    BY DutyRecords DEF Filter!Act, Filter!Doing, Founded
  <2>2. /\ [duty[w] EXCEPT !.at = "report"] \in Duty
        /\ [duty[w] EXCEPT !.at = "report"].at = "report"
        /\ [duty[w] EXCEPT !.at = "report"].op # ""
    BY <1>3, <2>1 DEF Duty
  <2> QED  BY <2>2, Resting
<1>5. copies' \in 0 .. MaxCopies /\ (copies' = 0 /\ copies # 0 => happened) /\ happened \in BOOLEAN
  <2>1. copies \in Nat /\ MaxCopies \in Nat
    BY DutyRecords
  <2>2. after \in {copies, copies + 1, 0}
    BY <1>1 DEF Filter!After
  <2> QED  BY <1>1, <2>1, <2>2
<1> HIDE DEF record, happened
<1>6. \A v \in Workers : Filter!Told(duty[v], happened, FALSE) \in Duty
  BY <1>3, <1>5, ToldRecord
<1>7. duty' \in [Workers -> Duty]
  BY <1>2, <1>4, <1>6
<1>8. \A v \in Workers : \/ duty'[v].at = "rest"
                         \/ (duty'[v].at = "report" /\ duty'[v].op # "")
                         \/ duty'[v] = Filter!Told(duty[v], happened, FALSE)
  BY <1>2, <1>4
<1> QED  BY <1>1, <1>5, <1>7, <1>8, FilterChanges

LEMMA ByHandPreserves ==
  ASSUME FilterInv, Filter!ByHand
  PROVE  FilterInv'
<1>1. PICK n \in {0, copies + 1} :
        /\ n =< MaxCopies /\ n # copies /\ copies' = n
        /\ duty' = [w \in Workers |-> Filter!Told(duty[w], n = 0, FALSE)]
        /\ UNCHANGED <<setting, exposed, answer, undone>>
  BY DEF Filter!ByHand
<1> DEFINE happened == n = 0
<1>2. copies' \in 0 .. MaxCopies /\ (copies' = 0 /\ copies # 0 => happened) /\ happened \in BOOLEAN
  <2>1. copies \in Nat /\ MaxCopies \in Nat
    BY CopiesAreCounted
  <2> QED  BY <1>1, <2>1
<1>3. duty' = [w \in Workers |-> Filter!Told(duty[w], happened, FALSE)]
  BY <1>1
<1> HIDE DEF happened
<1>4. \A v \in Workers : Filter!Told(duty[v], happened, FALSE) \in Duty
  BY <1>2, DutyRecords, ToldRecord
<1>5. duty' \in [Workers -> Duty]
  BY <1>3, <1>4
<1>6. \A v \in Workers : duty'[v] = Filter!Told(duty[v], happened, FALSE)
  BY <1>3
<1> QED  BY <1>1, <1>2, <1>5, <1>6, FilterChanges

\* A restart ends every request.
LEMMA RestartPreserves ==
  ASSUME FilterInv, UNCHANGED <<setting, answer, undone>>, exposed' = FALSE,
         copies' \in {0, copies}, duty' = [w \in Workers |-> Filter!Rest]
  PROVE  FilterInv'
<1>1. duty' \in [Workers -> Duty] /\ \A v \in Workers : duty'[v].at = "rest"
  BY Resting
<1>2. Filter!FirewallTypeOK'
  <2>1. copies' \in 0 .. MaxCopies
    BY CopiesAreCounted
  <2> QED  BY <1>1, <2>1 DEF FilterInv, Filter!FirewallTypeOK, Duty
<1>3. AllFounded'
  BY <1>1 DEF AllFounded, Founded
<1>4. Filter!AnswerKept' /\ Filter!NeverExposed'
  BY DEF FilterInv, Filter!AnswerKept, Filter!NeverExposed
<1> QED  BY <1>2, <1>3, <1>4 DEF FilterInv

LEMMA NothingPreserves ==
  ASSUME FilterInv, UNCHANGED fwVars
  PROVE  FilterInv'
BY DEF fwVars, FilterInv, Filter!FirewallTypeOK, AllFounded, Founded, Filter!AnswerKept,
       Filter!NeverExposed

-----------------------------------------------------------------------------
(* The specification.                                                      *)

LEMMA FilterBegins == Init => FilterInv
<1> SUFFICES ASSUME Init PROVE FilterInv
  OBVIOUS
<1>1. /\ setting \in BOOLEAN /\ copies = (IF setting THEN 1 ELSE 0)
      /\ duty = [w \in Workers |-> Filter!Rest]
      /\ exposed = FALSE /\ undone = FALSE /\ answer = setting
  BY DEF Init, Filter!FirewallInit
<1>2. duty \in [Workers -> Duty] /\ \A w \in Workers : duty[w] = Filter!Rest
  BY <1>1, Resting
<1>3. copies \in 0 .. MaxCopies
  BY <1>1, RootedAssumption
<1>4. Filter!FirewallTypeOK
  BY <1>1, <1>2, <1>3 DEF Filter!FirewallTypeOK, Duty
<1>5. AllFounded
  BY <1>2, Resting DEF AllFounded
<1>6. Filter!AnswerKept /\ Filter!NeverExposed
  BY <1>1 DEF Filter!AnswerKept, Filter!NeverExposed
<1> QED  BY <1>4, <1>5, <1>6 DEF FilterInv

LEMMA FilterPreserved == FilterInv /\ [Next]_vars => FilterInv'
<1> SUFFICES ASSUME FilterInv, [Next]_vars PROVE FilterInv'
  OBVIOUS
<1>1. ASSUME NEW w \in Workers, AskDns(w) PROVE FilterInv'
  BY <1>1, NothingPreserves DEF AskDns
<1>2. ASSUME NEW w \in Workers, AskFirewall(w) PROVE FilterInv'
  BY <1>2, RequestPreserves DEF AskFirewall
<1>3. ASSUME NEW w \in Workers, Continue(w) PROVE FilterInv'
  <2>1. CASE UNCHANGED fwVars
    BY <2>1, NothingPreserves
  <2>2. CASE Filter!FirewallStep(w)
    BY <2>2, AskingPreserves, StorePreserves, ActPreserves, StartPreserves DEF Filter!FirewallStep
  <2> QED  BY <1>3, <2>1, <2>2 DEF Continue
<1>4. CASE Interference
  BY <1>4, NothingPreserves, ByHandPreserves DEF Interference
<1>5. CASE ServiceRestart
  <2>1. exposed = FALSE
    <3>1. exposed \in BOOLEAN /\ ~exposed
      BY DEF FilterInv, Filter!FirewallTypeOK, Filter!NeverExposed
    <3> QED  BY <3>1
  <2> QED  BY <1>5, <2>1, RestartPreserves DEF ServiceRestart
<1>6. CASE Reboot
  BY <1>6, RestartPreserves DEF Reboot, Filter!FirewallReboot
<1>7. CASE UNCHANGED vars
  BY <1>7, NothingPreserves DEF vars
<1> QED  BY <1>1, <1>2, <1>3, <1>4, <1>5, <1>6, <1>7 DEF Next

\* What the operator stored with the switch stands, for any number of threads and
\* whatever fails, ends or restarts: "on" is never turned off, and "off" is turned on
\* only by a repair that had read the setting before the switch was set to off.
THEOREM SwitchIsKept == Spec => []AnswerKept
<1>1. FilterInv => AnswerKept
  BY DEF FilterInv, AnswerKept
<1> QED  BY <1>1, FilterBegins, FilterPreserved, PTL DEF Spec

\* No tunnel is started with the setting on and the filter missing, unless one of
\* the two changed after the guard had looked.
THEOREM NoTunnelExposed == Spec => []NeverExposed
<1>1. FilterInv => NeverExposed
  BY DEF FilterInv, NeverExposed
<1> QED  BY <1>1, FilterBegins, FilterPreserved, PTL DEF Spec

-----------------------------------------------------------------------------
(* The table of DNS rules.                                                 *)

\* A row of the table: a fallback has a position.
IsRow(r) ==
  /\ r = Rule(r.id, r.kind, r.domain, r.address, r.position)
  /\ r.id \in Nat \ {0} /\ r.kind \in {"domain", "fallback"}
  /\ r.kind = "fallback" => r.position \in Nat

\* No two rows of a table are the same rule.
Apart(table) ==
  \A r, s \in table : r # s =>
    /\ r.id # s.id
    /\ r.kind = s.kind => IF r.kind = "domain" THEN r.domain # s.domain
                          ELSE r.position # s.position /\ r.address # s.address

Good(table) == IsFiniteSet(table) /\ (\A r \in table : IsRow(r)) /\ Apart(table)

\* The id of a new row is of no other row.
LEMMA NextIdIsNew ==
  ASSUME NEW table, Good(table)
  PROVE  NextId(table) \in Nat \ {0} /\ \A r \in table : r.id # NextId(table)
<1> DEFINE ids == {r.id : r \in table}
           id  == [r \in table |-> r.id]
<1>1. id \in Surjection(table, ids)
  BY DEF Surjection
<1>2. IsFiniteSet(table) /\ \A r \in table : r.id \in Nat \ {0}
  BY DEF Good, IsRow
<1>3. ids \subseteq Nat
  BY <1>2
<1>4. IsFiniteSet(ids)
  BY ONLY <1>1, <1>2, FS_Surjection
<1> HIDE DEF ids
<1>5. IsFiniteSet(ids \union {0}) /\ ids \union {0} \in SUBSET Int /\ ids \union {0} # {}
  BY <1>3, <1>4, FS_AddElement
<1>6. Max(ids \union {0}) \in ids \union {0} /\ \A x \in ids \union {0} : Max(ids \union {0}) >= x
  BY ONLY <1>5, MaxIsGreatest
<1>7. Max(ids \union {0}) \in Nat /\ \A x \in ids : Max(ids \union {0}) >= x
  <2> DEFINE top == Max(ids \union {0})
  <2>1. top \in ids \union {0} /\ \A x \in ids \union {0} : top >= x
    BY <1>6
  <2> HIDE DEF top
  <2>2. top \in Nat
    BY ONLY <1>3, <2>1, SMT
  <2>3. \A x \in ids : top >= x
    BY ONLY <2>1
  <2> QED  BY <2>2, <2>3 DEF top
<1>8. NextId(table) = Max(ids \union {0}) + 1
  BY DEF NextId, ids
<1>9. \A r \in table : r.id \in ids
  BY DEF ids
<1> QED  BY <1>3, <1>7, <1>8, <1>9

\* So is the position of a new fallback.
LEMMA NextPositionIsNew ==
  ASSUME NEW table, Good(table)
  PROVE  /\ NextPosition(table) \in Nat
         /\ \A r \in table : r.kind = "fallback" => r.position # NextPosition(table)
<1> DEFINE rows      == OfKind(table, "fallback")
           positions == {r.position : r \in rows}
           position  == [r \in rows |-> r.position]
<1>1. position \in Surjection(rows, positions)
  BY DEF Surjection
<1>2. IsFiniteSet(rows)
  <2>1. rows \in SUBSET table /\ IsFiniteSet(table)
    BY DEF OfKind, Good
  <2> QED  BY ONLY <2>1, FS_Subset
<1>3. positions \subseteq Nat
  BY DEF Good, IsRow, OfKind
<1>4. IsFiniteSet(positions)
  BY ONLY <1>1, <1>2, FS_Surjection
<1>5. NextPosition(table) = Max(positions \union {-1}) + 1
  BY DEF NextPosition
<1>6. \A r \in table : r.kind = "fallback" => r.position \in positions
  BY DEF OfKind
<1> HIDE DEF positions
<1>7. /\ IsFiniteSet(positions \union {-1}) /\ positions \union {-1} \in SUBSET Int
      /\ positions \union {-1} # {}
  BY <1>3, <1>4, FS_AddElement
<1>8. /\ Max(positions \union {-1}) \in positions \union {-1}
      /\ \A x \in positions \union {-1} : Max(positions \union {-1}) >= x
  BY ONLY <1>7, MaxIsGreatest
<1>9. /\ Max(positions \union {-1}) \in Nat \union {-1}
      /\ \A x \in positions : Max(positions \union {-1}) >= x
  BY <1>3, <1>8
<1>10. Max(positions \union {-1}) + 1 \in Nat /\ \A x \in positions : x # Max(positions \union {-1}) + 1
  BY <1>3, <1>9
<1> QED  BY <1>5, <1>6, <1>10

\* add_dns_rule(), where it does not refuse.
LEMMA AddedTable ==
  ASSUME NEW table, Good(table), NEW kind, NEW domain, NEW address, ~Refused(table, kind, address)
  PROVE  Good(AddRule(table, NextId(table), kind, domain, address))
<1> DEFINE same == Existing(table, kind, domain)
<1>1. CASE same # {}
  <2>1. PICK old \in same : TRUE
    BY <1>1
  <2>2. old \in table /\ old.kind = "domain" /\ old.domain = domain
    BY <2>1 DEF Existing, OfKind
  <2>3. same = {old}
    BY <2>1, <2>2 DEF Existing, OfKind, Good, Apart
  <2> DEFINE new == [old EXCEPT !.address = address]
  <2>4. AddRule(table, NextId(table), kind, domain, address) = (table \ {old}) \union {new}
    BY <1>1, <2>3 DEF AddRule
  <2>5. IsRow(old)
    BY <2>2 DEF Good
  <2>6. new = Rule(old.id, "domain", domain, address, old.position)
    BY <2>2, <2>5 DEF IsRow, Rule
  <2>7. IsRow(new) /\ new.id = old.id /\ new.kind = "domain" /\ new.domain = domain
    BY <2>5, <2>6 DEF IsRow, Rule
  <2> HIDE DEF new
  <2>8. IsFiniteSet((table \ {old}) \union {new})
    BY FS_RemoveElement, FS_AddElement DEF Good
  <2>9. Apart((table \ {old}) \union {new})
    BY <2>2, <2>7 DEF Good, Apart
  <2> QED  BY <2>4, <2>7, <2>8, <2>9 DEF Good
<1>2. CASE same = {}
  <2> DEFINE new == IF kind = "domain" THEN Rule(NextId(table), "domain", domain, address, None)
                    ELSE Rule(NextId(table), "fallback", None, address, NextPosition(table))
  <2>1. AddRule(table, NextId(table), kind, domain, address) = table \union {new}
    BY <1>2 DEF AddRule
  <2>2. /\ NextId(table) \in Nat \ {0} /\ \A r \in table : r.id # NextId(table)
        /\ NextPosition(table) \in Nat
        /\ \A r \in table : r.kind = "fallback" => r.position # NextPosition(table)
    BY NextIdIsNew, NextPositionIsNew
  <2>3. IsRow(new) /\ new.id = NextId(table)
    BY <2>2 DEF IsRow, Rule
  <2>4. ASSUME NEW r \in table, r.kind = new.kind
        PROVE  IF new.kind = "domain" THEN r.domain # new.domain
               ELSE r.position # new.position /\ r.address # new.address
    <3>1. CASE kind = "domain"
      BY <1>2, <2>4, <3>1 DEF Existing, OfKind, Rule
    <3>2. CASE kind # "domain"
      BY <2>2, <2>4, <3>2 DEF Refused, OfKind, Rule
    <3> QED  BY <3>1, <3>2
  <2> HIDE DEF new
  <2>5. Apart(table \union {new})
    BY <2>2, <2>3, <2>4 DEF Good, Apart
  <2>6. IsFiniteSet(table \union {new})
    BY FS_AddElement DEF Good
  <2> QED  BY <2>1, <2>3, <2>5, <2>6 DEF Good
<1> QED  BY <1>1, <1>2

\* A row deleted leaves the others apart.
LEMMA SmallerTable ==
  ASSUME NEW table, Good(table), NEW id
  PROVE  Good(DeleteRule(table, id))
<1>1. DeleteRule(table, id) \in SUBSET table
  BY DEF DeleteRule
<1>2. IsFiniteSet(DeleteRule(table, id))
  BY <1>1, FS_Subset DEF Good
<1> QED  BY <1>1, <1>2 DEF Good, Apart

\* move_fallback_rule() exchanges two positions.
LEMMA MovedTable ==
  ASSUME NEW table, Good(table), NEW row \in OfKind(table, "fallback"), NEW direction
  PROVE  Good(MoveFallback(table, row, direction))
<1> DEFINE near  == Neighbours(table, row, direction)
           other == CHOOSE r \in near : TRUE
<1>1. CASE near = {}
  BY <1>1 DEF MoveFallback
<1>2. CASE near # {}
  <2>1. other \in near
    BY <1>2
  <2>2. row \in table /\ row.kind = "fallback" /\ other \in table /\ other.kind = "fallback"
    BY <2>1 DEF Neighbours, OfKind
  <2>3. IsRow(row) /\ IsRow(other) /\ row.position # other.position
    <3>1. IsRow(row) /\ IsRow(other)
      BY <2>2 DEF Good
    <3>2. row.position \in Int /\ other.position \in Int
      BY <2>2, <3>1 DEF IsRow
    <3>3. IF direction = "up" THEN other.position < row.position
          ELSE other.position > row.position
      BY <2>1 DEF Neighbours
    <3> HIDE DEF other
    <3>4. row.position # other.position
      BY ONLY <3>2, <3>3
    <3> QED  BY <3>1, <3>4
  <2> DEFINE up   == [row EXCEPT !.position = other.position]
             down == [other EXCEPT !.position = row.position]
  <2>4. MoveFallback(table, row, direction) = (table \ {row, other}) \union {up, down}
    BY <1>2 DEF MoveFallback
  <2> HIDE DEF other
  <2>5. /\ up = Rule(row.id, "fallback", row.domain, row.address, other.position)
        /\ down = Rule(other.id, "fallback", other.domain, other.address, row.position)
    BY <2>2, <2>3 DEF IsRow, Rule
  <2>6. /\ IsRow(up) /\ up.id = row.id /\ up.kind = "fallback" /\ up.address = row.address
        /\ up.position = other.position
        /\ IsRow(down) /\ down.id = other.id /\ down.kind = "fallback"
        /\ down.address = other.address /\ down.position = row.position
    BY <2>2, <2>3, <2>5 DEF IsRow, Rule
  <2> HIDE DEF up, down
  <2>7. IsFiniteSet((table \ {row, other}) \union {up, down})
    <3>1. IsFiniteSet(table \ {row, other})
      BY FS_Difference DEF Good
    <3>2. IsFiniteSet((table \ {row, other}) \union {up})
      BY <3>1, FS_AddElement
    <3>3. (table \ {row, other}) \union {up, down} = ((table \ {row, other}) \union {up}) \union {down}
      OBVIOUS
    <3> QED  BY <3>2, <3>3, FS_AddElement
  <2>8. Apart((table \ {row, other}) \union {up, down})
    <3>1. /\ row.id # other.id /\ row.address # other.address
          /\ \A r \in table \ {row, other} :
               /\ r.id # row.id /\ r.id # other.id
               /\ r.kind = "fallback" =>
                    /\ r.position # row.position /\ r.position # other.position
                    /\ r.address # row.address /\ r.address # other.address
      BY <2>2, <2>3 DEF Good, Apart
    <3>2. \A r, s \in table \ {row, other} : r # s =>
            /\ r.id # s.id
            /\ r.kind = s.kind => IF r.kind = "domain" THEN r.domain # s.domain
                                  ELSE r.position # s.position /\ r.address # s.address
      BY DEF Good, Apart
    <3>3. \A r \in table : r.kind \in {"domain", "fallback"}
      BY DEF Good, IsRow
    <3> QED  BY <2>3, <2>6, <3>1, <3>2, <3>3 DEF Apart
  <2>9. \A r \in (table \ {row, other}) \union {up, down} : IsRow(r)
    BY <2>6 DEF Good
  <2> QED  BY <2>4, <2>7, <2>8, <2>9 DEF Good
<1> QED  BY <1>1, <1>2

\* The table begins well, and every transaction leaves it so.
LEMMA TableBegins == Init => Good(rules)
<1> SUFFICES ASSUME Init PROVE Good(rules)
  OBVIOUS
<1>1. CASE rules = {}
  BY <1>1, FS_EmptySet DEF Good, Apart
<1>2. ASSUME NEW d, NEW a, rules = {Rule(1, "domain", d, a, None), Rule(2, "fallback", None, a, 0)}
      PROVE  Good(rules)
  <2>1. IsFiniteSet({Rule(1, "domain", d, a, None)})
    BY FS_Singleton
  <2>2. rules = {Rule(1, "domain", d, a, None)} \union {Rule(2, "fallback", None, a, 0)}
    BY <1>2
  <2>3. IsFiniteSet(rules)
    BY <2>1, <2>2, FS_AddElement
  <2>4. \A r \in rules : IsRow(r)
    BY <1>2 DEF IsRow, Rule
  <2>5. Apart(rules)
    BY <1>2 DEF Apart, Rule
  <2> QED  BY <2>3, <2>4, <2>5 DEF Good
<1> QED  BY <1>1, <1>2 DEF Init, DnsInit

LEMMA TableKept == Good(rules) /\ [Next]_vars => Good(rules')
<1> SUFFICES ASSUME Good(rules), [Next]_vars PROVE Good(rules')
  OBVIOUS
<1>1. ASSUME NEW w \in Workers, AskDns(w) PROVE Good(rules')
  <2>1. CASE Add(w)
    <3>1. PICK kind \in {"domain", "fallback"}, domain \in Domains, address \in Addresses :
            /\ ~Refused(rules, kind, address)
            /\ rules' = AddRule(rules, NextId(rules), kind, domain, address)
      BY <2>1 DEF Add
    <3> QED  BY <3>1, AddedTable
  <2>2. CASE Delete(w)
    BY <2>2, SmallerTable DEF Delete
  <2>3. CASE MoveRule(w)
    BY <2>3, MovedTable DEF MoveRule
  <2>4. CASE Import(w)
    BY <2>4 DEF Import
  <2> QED  BY <1>1, <2>1, <2>2, <2>3, <2>4 DEF AskDns, DnsRequest
<1>2. ASSUME NEW w \in Workers, DnsStep(w) PROVE Good(rules')
  <2>1. CASE ImportNext(w)
    <3>1. CASE rules' = rules
      BY <3>1
    <3>2. CASE rules' # rules
      <4> DEFINE line == Head(errand[w].lines)
      <4>1. /\ ~Importing(rules, NextId(rules), line).refused
            /\ rules' = Importing(rules, NextId(rules), line).rules
        BY <2>1, <3>2 DEF ImportNext
      <4>2. /\ ~Refused(rules, line.shape, line.address)
            /\ rules' = AddRule(rules, NextId(rules), line.shape, line.domain, line.address)
        BY <4>1 DEF Importing
      <4> QED  BY <4>2, AddedTable
    <3> QED  BY <3>1, <3>2
  <2>2. CASE UNCHANGED rules
    BY <2>2
  <2> QED  BY <1>2, <2>1, <2>2 DEF DnsStep, DnsFails, List, OpenStaging, WriteStaging,
            PublishStaging, StagingFails, RunHelper, GiveUp, Answer, Install, Keep, Swap, Aside,
            Restart, Undo, Revive
<1>3. CASE UNCHANGED rules
  BY <1>3
<1>4. CASE Interference \/ ServiceRestart \/ Reboot
  BY <1>3, <1>4 DEF Interference, ServiceRestart, Reboot, DnsmasqByHand, DnsServiceRestart,
                    DnsReboot, dnsVars
<1>5. ASSUME NEW w \in Workers, AskFirewall(w) \/ Continue(w) PROVE Good(rules')
  BY <1>2, <1>3, <1>5 DEF AskFirewall, Continue, dnsVars
<1> QED  BY <1>1, <1>3, <1>4, <1>5 DEF Next, vars, dnsVars

\* No two rules are the same rule, for any number of rules, requests and imports,
\* in whatever order their transactions come.
THEOREM NoRuleTwice == Spec => []RulesDistinct
<1>1. Good(rules) /\ [Next]_vars => Good(rules)'
  BY TableKept DEF Good, Apart, IsRow
<1>2. Good(rules) => RulesDistinct
  BY DEF Good, Apart, RulesDistinct
<1> QED  BY TableBegins, <1>1, <1>2, PTL DEF Spec

-----------------------------------------------------------------------------
(* The text of the rules.                                                  *)

\* sorted(), where no two keys are the same: as many elements as there are, each
\* of them one of those that were to be sorted.
LEMMA InOrderIsSequence ==
  ASSUME NEW key, IsFiniteSet(DOMAIN key), \A x \in DOMAIN key : key[x] \in Int,
         \A x, y \in DOMAIN key : x # y => key[x] # key[y]
  PROVE  /\ Cardinality(DOMAIN key) \in Nat
         /\ InOrder(key) \in [1 .. Cardinality(DOMAIN key) -> DOMAIN key]
<1> DEFINE D        == DOMAIN key
           n        == Cardinality(D)
           below(x) == {y \in D : key[y] < key[x]}
           rank     == [x \in D |-> Cardinality(below(x))]
<1>1. n \in Nat
  BY FS_CardinalityType
<1>2. \A x \in D : /\ IsFiniteSet(below(x)) /\ below(x) \in SUBSET D /\ x \notin below(x)
                   /\ rank[x] = Cardinality(below(x))
  <2> TAKE x \in D
  <2>1. below(x) \in SUBSET D /\ ~(key[x] < key[x])
    OBVIOUS
  <2>2. IsFiniteSet(below(x))
    BY <2>1, FS_Subset
  <2> QED  BY <2>1, <2>2
<1>3. rank \in [D -> 0 .. (n - 1)]
  <2> SUFFICES ASSUME NEW x \in D PROVE Cardinality(below(x)) \in 0 .. (n - 1)
    OBVIOUS
  <2>1. below(x) \in SUBSET D /\ below(x) # D /\ IsFiniteSet(D)
    BY <1>2
  <2>2. Cardinality(below(x)) \in Nat /\ Cardinality(below(x)) < n
    <3> HIDE DEF below, D
    <3>1. /\ IsFiniteSet(below(x)) /\ Cardinality(below(x)) =< Cardinality(D)
          /\ Cardinality(below(x)) # Cardinality(D)
      BY ONLY <2>1, FS_Subset
    <3>2. Cardinality(below(x)) \in Nat /\ Cardinality(D) \in Nat
      BY ONLY <2>1, <3>1, FS_CardinalityType
    <3> QED  BY ONLY <3>1, <3>2 DEF n
  <2> HIDE DEF below, n
  <2> QED  BY <1>1, <2>2
<1>4. ASSUME NEW x \in D, NEW y \in D, key[x] < key[y] PROVE rank[x] # rank[y]
  <2>1. below(x) \in SUBSET below(y) /\ x \in below(y)
    BY <1>4
  <2>2. IsFiniteSet(below(y)) /\ below(x) # below(y)
    BY <1>2, <2>1
  <2>3. Cardinality(below(x)) < Cardinality(below(y)) /\ Cardinality(below(x)) \in Nat
        /\ Cardinality(below(y)) \in Nat
    <3> HIDE DEF below
    <3>1. /\ IsFiniteSet(below(x)) /\ Cardinality(below(x)) =< Cardinality(below(y))
          /\ Cardinality(below(x)) # Cardinality(below(y))
      BY ONLY <2>1, <2>2, FS_Subset
    <3>2. Cardinality(below(x)) \in Nat /\ Cardinality(below(y)) \in Nat
      BY ONLY <2>2, <3>1, FS_CardinalityType
    <3> QED  BY ONLY <3>1, <3>2
  <2> HIDE DEF below
  <2> QED  BY <2>3
<1>5. rank \in Injection(D, 0 .. (n - 1))
  <2>1. \A x, y \in D : x # y => rank[x] # rank[y]
    <3> TAKE x, y \in D
    <3> HAVE x # y
    <3>1. key[x] < key[y] \/ key[y] < key[x]
      OBVIOUS
    <3> HIDE DEF rank
    <3> QED  BY <1>4, <3>1
  <2> HIDE DEF rank
  <2> QED  BY <1>3, <2>1 DEF Injection, IsInjective
<1>6. IsFiniteSet(0 .. (n - 1)) /\ Cardinality(0 .. (n - 1)) = n
  <2> HIDE DEF n
  <2>1. 0 \in Int /\ n - 1 \in Int
    BY <1>1
  <2>2. IsFiniteSet(0 .. (n - 1))
        /\ Cardinality(0 .. (n - 1)) = IF 0 > n - 1 THEN 0 ELSE (n - 1) - 0 + 1
    BY ONLY <2>1, FS_Interval
  <2> QED  BY <1>1, <2>2
<1>7. rank \in Surjection(D, 0 .. (n - 1))
  <2> HIDE DEF rank
  <2> QED  BY <1>5, <1>6, FS_Injection
<1>8. \A i \in 1 .. n : \E x \in D : Cardinality(below(x)) = i - 1
  <2> TAKE i \in 1 .. n
  <2>1. i - 1 \in 0 .. (n - 1)
    BY <1>1
  <2>2. PICK x \in D : rank[x] = i - 1
    <3> HIDE DEF rank, n
    <3> QED  BY <1>7, <2>1 DEF Surjection
  <2> QED  BY <2>2
<1> HIDE DEF n
<1> QED  BY <1>1, <1>8 DEF InOrder, n

\* The text of a table of rules whose addresses are all from A: lines, and none with
\* another address.
LEMMA RenderedText ==
  ASSUME NEW table, Good(table), NEW A, A \subseteq Addresses,
         \A r \in table : r.address \in A /\ (r.kind = "domain" => r.domain \in Domains)
  PROVE  Render(table) \in Seq({line \in Line : line.address \in A \union {None}})
<1> DEFINE L          == {line \in Line : line.address \in A \union {None}}
           domains    == OfKind(table, "domain")
           fallbacks  == OfKind(table, "fallback")
           byDomain   == InOrder([r \in domains |-> r.domain])
           byPosition == InOrder([r \in fallbacks |-> r.position])
           first      == [i \in DOMAIN byDomain |-> DomainLine(byDomain[i].domain, byDomain[i].address)]
           second     == [i \in DOMAIN byPosition |-> FallbackLine(byPosition[i].address)]
<1>1. IsFiniteSet(domains) /\ IsFiniteSet(fallbacks)
  <2>1. domains \in SUBSET table /\ fallbacks \in SUBSET table /\ IsFiniteSet(table)
    BY DEF OfKind, Good
  <2> QED  BY ONLY <2>1, FS_Subset
<1>2. first \in Seq(L)
  <2> DEFINE key == [r \in domains |-> r.domain]
  <2>1. /\ DOMAIN key = domains /\ \A x \in domains : key[x] \in Int
        /\ \A x, y \in domains : x # y => key[x] # key[y]
    <3>1. \A r \in domains : r \in table /\ r.kind = "domain" /\ r.domain \in Int
      <4>1. \A x \in Domains : x \in Int
        BY DnsAssumption
      <4>2. \A r \in domains : r \in table /\ r.kind = "domain"
        BY DEF OfKind
      <4> HIDE DEF domains
      <4> QED  BY <4>1, <4>2
    <3>2. \A r, s \in domains : r # s => r.domain # s.domain
      BY <3>1 DEF Good, Apart
    <3> HIDE DEF domains
    <3> QED  BY ONLY <3>1, <3>2
  <2>2. Cardinality(domains) \in Nat /\ InOrder(key) \in [1 .. Cardinality(domains) -> domains]
    <3> HIDE DEF key, domains
    <3> QED  BY <1>1, <2>1, InOrderIsSequence
  <2>3. \A r \in domains : DomainLine(r.domain, r.address) \in L
    BY DEF OfKind, DomainLine, Line
  <2> HIDE DEF key, domains, L
  <2>4. first \in [1 .. Cardinality(domains) -> L]
    BY <2>2, <2>3 DEF key
  <2> HIDE DEF first
  <2> QED  BY <2>2, <2>4
<1>3. second \in Seq(L)
  <2> DEFINE key == [r \in fallbacks |-> r.position]
  <2>1. /\ DOMAIN key = fallbacks /\ \A x \in fallbacks : key[x] \in Int
        /\ \A x, y \in fallbacks : x # y => key[x] # key[y]
    BY DEF OfKind, Good, Apart, IsRow
  <2>2. Cardinality(fallbacks) \in Nat /\ InOrder(key) \in [1 .. Cardinality(fallbacks) -> fallbacks]
    <3> HIDE DEF key, fallbacks
    <3> QED  BY <1>1, <2>1, InOrderIsSequence
  <2>3. \A r \in fallbacks : FallbackLine(r.address) \in L
    BY DEF OfKind, FallbackLine, Line
  <2> HIDE DEF key, fallbacks, L
  <2>4. second \in [1 .. Cardinality(fallbacks) -> L]
    BY <2>2, <2>3 DEF key
  <2> HIDE DEF second
  <2> QED  BY <2>2, <2>4
<1>4. Comment \in L
  BY DEF Comment, Line
<1>5. Render(table) = <<Comment>> \o first \o second
  BY DEF Render
<1> HIDE DEF first, second, L
<1>6. Render(table) \in Seq(L)
  BY <1>2, <1>3, <1>4, <1>5
<1> QED  BY <1>6 DEF L

LEMMA RenderedLines ==
  ASSUME NEW table, Good(table),
         \A r \in table : r.address \in Addresses /\ (r.kind = "domain" => r.domain \in Domains)
  PROVE  Render(table) \in Seq(Line) /\ Render(table) \notin {Absent, Empty, Torn}
<1>1. Render(table) \in Seq({line \in Line : line.address \in Addresses \union {None}})
  BY RenderedText
<1>2. {line \in Line : line.address \in Addresses \union {None}} = Line
  BY DEF Line
<1> QED  BY <1>1, <1>2, DnsAssumption

\* What a legacy file says, line after line.
LEMMA ParsedLines ==
  ASSUME NEW lines \in Seq(Line)
  PROVE  /\ Parse(lines).rules \in Seq(Line)
         /\ \A i \in DOMAIN Parse(lines).rules : Understood(Parse(lines).rules[i])
<1> DEFINE places == {i \in DOMAIN lines : Understood(lines[i])}
           key    == [i \in places |-> i]
           order  == InOrder(key)
<1>1. Parse(lines).rules = [k \in DOMAIN order |-> lines[order[k]]]
  BY DEF Parse, Picked
<1>2. IsFiniteSet(places) /\ places \subseteq Int
  <2>1. Len(lines) \in Nat /\ DOMAIN lines = 1 .. Len(lines)
    OBVIOUS
  <2>2. IsFiniteSet(1 .. Len(lines))
    BY <2>1, FS_Interval
  <2>3. places \in SUBSET (1 .. Len(lines))
    BY <2>1
  <2> HIDE DEF places
  <2>4. IsFiniteSet(places)
    BY ONLY <2>2, <2>3, FS_Subset
  <2> QED  BY <2>1, <2>3, <2>4
<1>3. \A i \in places : lines[i] \in Line /\ Understood(lines[i])
  OBVIOUS
<1> HIDE DEF places
<1>4. /\ DOMAIN key = places /\ \A x \in places : key[x] \in Int
      /\ \A x, y \in places : x # y => key[x] # key[y]
  BY <1>2
<1> HIDE DEF key
<1>5. Cardinality(places) \in Nat /\ order \in [1 .. Cardinality(places) -> places]
  BY <1>2, <1>4, InOrderIsSequence
<1> HIDE DEF order
<1>6. Parse(lines).rules \in [1 .. Cardinality(places) -> Line]
  BY <1>1, <1>3, <1>5
<1>7. Parse(lines).rules \in Seq(Line)
  BY <1>5, <1>6
<1> QED  BY <1>1, <1>3, <1>5, <1>7

-----------------------------------------------------------------------------
(* The invariant of the DNS rules.                                         *)

\* What a file of dnsmasq's may hold.
Text == Seq(Line) \union {Absent, Empty, Torn}

Errand == [at : {"rest", "import", "list", "open", "write", "publish", "run", "await", "applied",
                 "refused"},
           op : {"", "add", "delete", "move", "import"}, id : Nat \union {None}, lines : Seq(Line),
           text : Text, mixed : BOOLEAN, ran : [conf : Text, legacy : Text] \union {None}]

Helper == [at : {"none", "install", "keep", "swap", "aside", "restart", "undo", "revive"},
           had : BOOLEAN]

Staged == [temp : Text, final : Text, at : [Workers -> {"closed", "temp", "final", "lost"}]]

DnsTyped ==
  /\ staging \in Staged /\ errand \in [Workers -> Errand] /\ root \in [Workers -> Helper]
  /\ etc \in [conf : Text, tmp : Text, previous : Text, legacy : Text]
  /\ etc.legacy \in Legacies \union {Absent}
  /\ crowded \in BOOLEAN

\* The rules say what a line can say.
Spoken(table) ==
  \A r \in table : r.address \in Addresses /\ (r.kind = "domain" => r.domain \in Domains)

\* Until two were under way at once, no two are; and a request that was never
\* interfered with is alone.
CrowdInv == ~crowded => \A v, w \in Workers : Underway(v) /\ Underway(w) => v = w

AloneInv ==
  \A w \in Workers : errand[w].at # "rest" /\ ~errand[w].mixed => \A v \in Others(w) : ~Underway(v)

\* A helper is under way only for a request that waits for it or gave it up, and a
\* descriptor is open only between the opening and the writing of the staged file.
\* What is left to import is understood.
Helped(w) ==
  /\ errand[w].at = "await" => root[w].at # "none"
  /\ root[w].at # "none" => errand[w].at \in {"await", "rest"}
  /\ staging.at[w] # "closed" => errand[w].at = "write"
  /\ errand[w].at = "import" => \A i \in DOMAIN errand[w].lines : Understood(errand[w].lines[i])

\* The text of a request that is alone, on its way from the table to the file.
Alone(w) == errand[w].at # "rest" /\ ~(errand[w].mixed /\ crowded)

Carried(w) ==
  LET e == errand[w]
      r == root[w]
  IN  /\ e.at \in {"open", "write", "publish", "run", "await"} => e.text = Render(rules)
      /\ e.at = "write" => staging.at[w] = "temp" /\ staging.temp = Empty
      /\ e.at = "publish" => staging.temp = e.text
      /\ e.at \in {"run", "await"} => staging.final = e.text
      /\ r.at \in {"keep", "swap"} => etc.tmp = e.text
      /\ r.at \in {"aside", "restart"} => etc.conf = e.text
      /\ r.at \in {"restart", "undo", "revive"} => etc.legacy = Absent
      /\ e.at = "applied" => etc.conf = Render(rules) /\ etc.legacy = Absent

\* What becomes of a running dnsmasq at the hands of a request that nobody has
\* interfered with: it runs on the rules from before until it is restarted, and what
\* was there is kept for the undoing.
Served(w) ==
  LET e == errand[w]
      r == root[w]
  IN  /\ e.at = "applied" /\ Running => served = Loaded
      /\ e.ran # None =>
           /\ e.ran.conf # Torn /\ TRUE \in Takes(e.ran.conf)
           /\ r.at \in {"none", "install", "keep", "swap"} /\ e.at \notin {"applied", "refused"} =>
                Running /\ served = Loaded /\ served = e.ran
           /\ r.at \in {"aside", "restart"} => Running /\ served = e.ran
           /\ r.at \in {"swap", "aside", "restart", "undo"} =>
                /\ r.had <=> e.ran.conf # Absent
                /\ r.had => etc.previous = e.ran.conf
           /\ r.at = "revive" => etc.conf = e.ran.conf
           /\ e.at \in {"applied", "refused"} => served = Loaded
           /\ e.at = "refused" /\ e.ran.legacy = Absent => served = e.ran

Own(w) ==
  /\ Helped(w)
  /\ Alone(w) => Carried(w)
  /\ errand[w].at # "rest" /\ ~errand[w].mixed => Served(w)

\* What dnsmasq runs on it has taken.
LoadedInv == Running => TRUE \in Takes(served.conf)

WholeInv ==
  ~crowded => \A file \in {staging.final, etc.conf, etc.tmp, etc.previous} : file \notin {Empty, Torn}

DnsInv ==
  /\ DnsTyped /\ Good(rules) /\ Spoken(rules) /\ CrowdInv /\ AloneInv
  /\ \A w \in Workers : Own(w)
  /\ LoadedInv /\ WholeInv

\* One worker takes a step, and the others are where they were.
Steps(w) ==
  /\ Underway(w) /\ crowded' = crowded
  /\ errand'[w].at # "rest" => errand[w].at # "rest" /\ errand'[w].mixed = errand[w].mixed
  /\ \A v \in Others(w) : /\ errand'[v] = errand[v] /\ root'[v] = root[v]
                          /\ staging.at[v] = "closed" => staging'.at[v] = "closed"

\* Then the invariant depends on that worker: no other is alone.
LEMMA StepPreserves ==
  ASSUME DnsInv, NEW w \in Workers, Steps(w), DnsTyped', Good(rules'), Spoken(rules'),
         Own(w)', LoadedInv', WholeInv'
  PROVE  DnsInv'
<1>1. CrowdInv'
  BY DEF DnsInv, CrowdInv, Steps, Underway, Others
<1>2. AloneInv'
  <2> SUFFICES ASSUME NEW v \in Workers, errand'[v].at # "rest", ~errand'[v].mixed,
                      NEW u \in Others(v)
               PROVE  ~Underway(u)'
    BY DEF AloneInv, Others
  <2>1. v = w
    BY DEF DnsInv, AloneInv, Steps, Others
  <2>2. u \in Others(w) /\ ~Underway(u)
    BY <2>1 DEF DnsInv, AloneInv, Steps
  <2> QED  BY <2>2 DEF Steps, Underway
<1>3. ASSUME NEW v \in Workers PROVE Own(v)'
  <2>1. CASE v = w
    BY <2>1
  <2>2. CASE v # w
    <3>1. v \in Others(w) /\ w \in Others(v)
      BY <2>2 DEF Others
    <3>2. errand'[v] = errand[v] /\ root'[v] = root[v] /\ crowded' = crowded /\ Underway(w)
          /\ (staging.at[v] = "closed" => staging'.at[v] = "closed")
      BY <3>1 DEF Steps
    <3>3. Helped(v)'
      BY <3>2 DEF DnsInv, Own, Helped
    <3>4. errand[v].at = "rest" \/ (errand[v].mixed /\ crowded)
      <4>1. errand[v].at # "rest" => errand[v].mixed
        BY <3>1, <3>2 DEF DnsInv, AloneInv
      <4>2. errand[v].at # "rest" => crowded
        BY <2>2, <3>2 DEF DnsInv, CrowdInv, Underway
      <4> QED  BY <4>1, <4>2
    <3> QED  BY <3>2, <3>3, <3>4 DEF Own, Alone
  <2> QED  BY <2>1, <2>2
<1>4. Good(rules)' /\ Spoken(rules)'
  BY DEF Good, Spoken, IsRow, Apart
<1> QED  BY <1>1, <1>2, <1>3, <1>4 DEF DnsInv

LEMMA Came ==
  ASSUME DnsTyped, NEW w \in Workers, NEW step \in {"list", "open", "write", "publish", "run", "await",
                                                   "applied", "refused"}, Come(w, step)
  PROVE  /\ errand' \in [Workers -> Errand] /\ errand'[w].at = step
         /\ errand'[w].text = errand[w].text /\ errand'[w].mixed = errand[w].mixed
         /\ errand'[w].ran = errand[w].ran /\ errand'[w].lines = errand[w].lines
         /\ \A v \in Others(w) : errand'[v] = errand[v]
<1> DEFINE record == [errand[w] EXCEPT !.at = step]
<1>1. /\ record \in Errand /\ record.at = step /\ record.text = errand[w].text
      /\ record.mixed = errand[w].mixed /\ record.ran = errand[w].ran /\ record.lines = errand[w].lines
  BY ZenonT(60) DEF DnsTyped, Errand
<1>2. errand' = [errand EXCEPT ![w] = record]
  BY DEF Come, Move
<1> HIDE DEF record
<1> QED  BY <1>1, <1>2 DEF DnsTyped, Others

LEMMA Rests == NoErrand \in Errand /\ NoErrand.at = "rest" /\ NoHelper \in Helper
               /\ NoHelper.at = "none"
<1>1. Absent \in Text
  BY DEF Text
<1>2. NoErrand \in Errand /\ NoErrand.at = "rest"
  BY <1>1 DEF NoErrand, Errand
<1> QED  BY <1>2 DEF NoHelper, Helper

LEMMA Left ==
  ASSUME DnsTyped, NEW w \in Workers, Move(w, NoErrand)
  PROVE  /\ errand' \in [Workers -> Errand] /\ errand'[w].at = "rest"
         /\ \A v \in Others(w) : errand'[v] = errand[v]
BY Rests DEF DnsTyped, Move, Others

LEMMA Proceeds ==
  ASSUME DnsTyped, NEW w \in Workers, NEW step \in {"install", "keep", "swap", "aside", "restart", "undo",
                                                   "revive"},
         root' = [root EXCEPT ![w].at = step]
  PROVE  /\ root' \in [Workers -> Helper] /\ root'[w].at = step /\ root'[w].had = root[w].had
         /\ \A v \in Others(w) : root'[v] = root[v]
<1>1. root[w] \in Helper
  BY DEF DnsTyped
<1> DEFINE record == [root[w] EXCEPT !.at = step]
<1>2. record \in Helper /\ record.at = step /\ record.had = root[w].had
  BY <1>1 DEF Helper
<1>3. root' = [root EXCEPT ![w] = record]
  OBVIOUS
<1> HIDE DEF record
<1> QED  BY <1>2, <1>3 DEF DnsTyped, Others

LEMMA Exits ==
  ASSUME DnsTyped, NEW w \in Workers, NEW outcome \in {"applied", "refused"}, Exit(w, outcome)
  PROVE  /\ root' \in [Workers -> Helper] /\ root'[w].at = "none"
         /\ \A v \in Others(w) : root'[v] = root[v]
         /\ errand' \in [Workers -> Errand]
         /\ \A v \in Others(w) : errand'[v] = errand[v]
         /\ errand'[w].at = IF errand[w].at = "await" THEN outcome ELSE errand[w].at
         /\ errand'[w].text = errand[w].text /\ errand'[w].mixed = errand[w].mixed
         /\ errand'[w].ran = errand[w].ran /\ errand'[w].lines = errand[w].lines
<1>1. root' = [root EXCEPT ![w] = NoHelper]
  BY DEF Exit
<1>2. /\ root' \in [Workers -> Helper] /\ root'[w].at = "none"
      /\ \A v \in Others(w) : root'[v] = root[v]
  BY <1>1, Rests DEF DnsTyped, Others
<1>3. CASE errand[w].at = "await"
  <2>1. Come(w, outcome)
    BY <1>3 DEF Exit, OnErrand
  <2> QED  BY <1>2, <1>3, <2>1, Came
<1>4. CASE errand[w].at # "await"
  BY <1>2, <1>4 DEF Exit, OnErrand, DnsTyped
<1> QED  BY <1>3, <1>4

\* A file that dnsmasq has taken and that is whole it takes again.
LEMMA TakenAgain ==
  ASSUME NEW file, file # Torn, TRUE \in Takes(file)
  PROVE  Takes(file) = {TRUE}
<1>1. CASE file \in {Absent, Empty}
  BY <1>1 DEF Takes
<1>2. CASE file \notin {Absent, Empty}
  <2> DEFINE liked == \A i \in DOMAIN file : file[i].address \notin Disliked
  <2>1. Takes(file) = {liked}
    BY <1>2 DEF Takes
  <2> HIDE DEF liked
  <2> QED  BY <2>1
<1> QED  BY <1>1, <1>2

LEMMA WhatStarts ==
  ASSUME NEW s \in Starts
  PROVE  s = Failed \/ (s = Loaded /\ TRUE \in Takes(etc.conf))
<1>1. PICK c \in Takes(etc.conf), l \in Takes(etc.legacy) : s = IF {c, l} = {TRUE} THEN Loaded ELSE Failed
  <2> DEFINE C  == Takes(etc.conf)
             L  == Takes(etc.legacy)
             CL == {{c, l} : c \in C, l \in L}
  <2>1. Starts = {IF both = {TRUE} THEN Loaded ELSE Failed : both \in CL}
    BY DEF Starts
  <2> HIDE DEF C, L, CL
  <2>2. PICK both \in CL : s = IF both = {TRUE} THEN Loaded ELSE Failed
    BY <2>1
  <2>3. PICK c \in C, l \in L : both = {c, l}
    BY <2>2 DEF CL
  <2> QED  BY <2>2, <2>3 DEF C, L
<1>2. {c, l} = {TRUE} => c = TRUE
  OBVIOUS
<1> QED  BY <1>1, <1>2

LEMMA StartsAgain ==
  ASSUME NEW s \in Starts, etc.conf # Torn, TRUE \in Takes(etc.conf), etc.legacy = Absent
  PROVE  s = Loaded
<1>1. Takes(etc.conf) = {TRUE}
  BY TakenAgain
<1>2. Takes(etc.legacy) = {TRUE}
  BY DnsAssumption DEF Takes
<1>3. PICK c \in Takes(etc.conf), l \in Takes(etc.legacy) : s = IF {c, l} = {TRUE} THEN Loaded ELSE Failed
  <2> DEFINE C  == Takes(etc.conf)
             L  == Takes(etc.legacy)
             CL == {{c, l} : c \in C, l \in L}
  <2>1. Starts = {IF both = {TRUE} THEN Loaded ELSE Failed : both \in CL}
    BY DEF Starts
  <2> HIDE DEF C, L, CL
  <2>2. PICK both \in CL : s = IF both = {TRUE} THEN Loaded ELSE Failed
    BY <2>1
  <2>3. PICK c \in C, l \in L : both = {c, l}
    BY <2>2 DEF CL
  <2> QED  BY <2>2, <2>3 DEF C, L
<1> QED  BY <1>1, <1>2, <1>3

-----------------------------------------------------------------------------
(* The steps of a request.                                                 *)

\* A request ends, its descriptor closed: nobody can say it lied.
LEMMA LeavingPreserves ==
  ASSUME DnsInv, NEW w \in Workers, Underway(w), errand[w].at # "rest", Move(w, NoErrand),
         staging' \in Staged, staging'.final = staging.final, staging'.at[w] = "closed",
         \A v \in Others(w) : staging.at[v] = "closed" => staging'.at[v] = "closed",
         UNCHANGED <<rules, etc, served, root, crowded>>
  PROVE  DnsInv'
<1>1. /\ errand' \in [Workers -> Errand] /\ errand'[w].at = "rest"
      /\ \A v \in Others(w) : errand'[v] = errand[v]
  BY Left DEF DnsInv
<1>2. Steps(w)
  BY <1>1 DEF Steps
<1>3. DnsTyped'
  BY <1>1 DEF DnsInv, DnsTyped
<1>4. Own(w)'
  BY <1>1 DEF Own, Alone, Helped
<1>5. Good(rules') /\ Spoken(rules') /\ LoadedInv' /\ WholeInv'
  BY DEF DnsInv, LoadedInv, WholeInv, Running, Takes
<1> QED  BY <1>2, <1>3, <1>4, <1>5, StepPreserves

\* The steps that only end it.
LEMMA EndingPreserves ==
  ASSUME DnsInv, NEW w \in Workers, DnsFails(w) \/ GiveUp(w) \/ Answer(w)
  PROVE  DnsInv'
<1>1. /\ errand[w].at \notin {"rest", "write"} /\ Move(w, NoErrand)
      /\ UNCHANGED <<rules, staging, etc, served, root, crowded>>
  BY DEF DnsFails, GiveUp, Answer, OnErrand
<1>2. staging.at[w] = "closed" /\ Underway(w) /\ staging \in Staged
  BY <1>1 DEF DnsInv, Own, Helped, Underway, DnsTyped
<1> QED  BY <1>1, <1>2, LeavingPreserves

\* What the lemmas below use of a worker that has something to do.
LEMMA WorkerFacts ==
  ASSUME DnsInv, NEW w \in Workers
  PROVE  /\ DnsTyped /\ Good(rules) /\ Spoken(rules) /\ Own(w) /\ Helped(w)
         /\ errand[w] \in Errand /\ root[w] \in Helper /\ staging \in Staged
         /\ LoadedInv /\ WholeInv
         /\ Render(rules) \in Seq(Line) /\ Render(rules) \notin {Absent, Empty, Torn}
         /\ Render(rules) \in Text
<1>1. Render(rules) \in Seq(Line) /\ Render(rules) \notin {Absent, Empty, Torn}
  BY RenderedLines DEF DnsInv, Spoken
<1> QED  BY <1>1 DEF DnsInv, DnsTyped, Own, Text

LEMMA ListPreserves ==
  ASSUME DnsInv, NEW w \in Workers, List(w)
  PROVE  DnsInv'
<1> DEFINE record == [errand[w] EXCEPT !.at = "open", !.text = Render(rules)]
<1>1. /\ errand[w].at = "list" /\ errand' = [errand EXCEPT ![w] = record]
      /\ UNCHANGED <<rules, staging, etc, served, root, crowded>>
  BY DEF List, OnErrand, Move
<1>2. /\ errand[w] \in Errand /\ Render(rules) \in Text /\ Helped(w) /\ Own(w)
  BY WorkerFacts
<1>3. /\ record \in Errand /\ record.at = "open" /\ record.text = Render(rules)
      /\ record.mixed = errand[w].mixed /\ record.ran = errand[w].ran
  BY <1>2 DEF Errand
<1> HIDE DEF record
<1>4. errand' \in [Workers -> Errand] /\ errand'[w] = record
      /\ \A v \in Others(w) : errand'[v] = errand[v]
  BY <1>1, <1>3 DEF DnsInv, DnsTyped, Others
<1>5. Steps(w)
  BY <1>1, <1>3, <1>4 DEF Steps, Underway
<1>6. DnsTyped'
  BY <1>1, <1>4 DEF DnsInv, DnsTyped
<1>7. root'[w].at = "none" /\ Helped(w)'
  BY <1>1, <1>2, <1>3, <1>4 DEF Helped, DnsInv, DnsTyped, Helper
<1>8. Carried(w)'
  BY <1>1, <1>3, <1>4, <1>7 DEF Carried
<1>9. ~errand'[w].mixed => Served(w)'
  <2> SUFFICES ASSUME ~errand'[w].mixed PROVE Served(w)'
    OBVIOUS
  <2>1. Served(w)
    BY <1>1, <1>2, <1>3, <1>4 DEF Own
  <2> QED  BY <1>1, <1>3, <1>4, <1>7, <2>1 DEF Served, Running, Loaded, Takes
<1>10. Good(rules') /\ Spoken(rules') /\ LoadedInv' /\ WholeInv'
  BY <1>1 DEF DnsInv, LoadedInv, WholeInv, Running, Takes
<1> QED  BY <1>5, <1>6, <1>7, <1>8, <1>9, <1>10, StepPreserves DEF Own

\* The steps of the staging.
LEMMA OpenedStaging ==
  ASSUME NEW f \in Staged, NEW w \in Workers
  PROVE  /\ Disk!Opened(f, w) \in Staged
         /\ Disk!Opened(f, w).temp = Empty /\ Disk!Opened(f, w).final = f.final
         /\ Disk!Opened(f, w).at[w] = "temp"
         /\ \A v \in Others(w) : Disk!Opened(f, w).at[v] = f.at[v]
BY DEF Staged, Text, Disk!Opened, Others

LEMMA WrittenStaging ==
  ASSUME NEW f \in Staged, NEW w \in Workers, NEW content \in Text, NEW g \in Disk!Written(f, w, content)
  PROVE  /\ g \in Staged
         /\ g.at[w] = "closed" /\ \A v \in Others(w) : g.at[v] = f.at[v]
         /\ f.at[w] = "temp" => g.final = f.final /\ (f.temp = Empty => g.temp = content)
<1> DEFINE closed == [f EXCEPT !.at[w] = "closed"]
<1>1. /\ closed \in Staged /\ closed.temp = f.temp /\ closed.final = f.final
      /\ closed.at[w] = "closed" /\ \A v \in Others(w) : closed.at[v] = f.at[v]
  BY DEF Staged, Others
<1>2. \A there : \A c \in Disk!Outcomes(there, content) : c \in Text /\ (there = Empty => c = content)
  BY DnsAssumption DEF Disk!Outcomes, Text
<1> HIDE DEF closed
<1>3. CASE f.at[w] = "temp"
  <2>1. PICK c \in Disk!Outcomes(f.temp, content) : g = [closed EXCEPT !.temp = c]
    BY <1>3 DEF Disk!Written, closed
  <2> QED  BY <1>1, <1>2, <1>3, <2>1 DEF Staged
<1>4. CASE f.at[w] = "final"
  <2>1. PICK c \in Disk!Outcomes(f.final, content) : g = [closed EXCEPT !.final = c]
    BY <1>4 DEF Disk!Written, closed
  <2> QED  BY <1>1, <1>2, <1>4, <2>1 DEF Staged
<1>5. CASE f.at[w] \notin {"temp", "final"}
  <2>1. g = closed
    BY <1>5 DEF Disk!Written, closed
  <2> QED  BY <1>1, <1>5, <2>1
<1> QED  BY <1>3, <1>4, <1>5

LEMMA AbandonedStaging ==
  ASSUME NEW f \in Staged, NEW w \in Workers
  PROVE  /\ Disk!Abandoned(f, w) \in Staged
         /\ Disk!Abandoned(f, w).final = f.final
         /\ Disk!Abandoned(f, w).at[w] = "closed"
         /\ \A v \in Others(w) : f.at[v] = "closed" => Disk!Abandoned(f, w).at[v] = "closed"
<1> DEFINE closed == [f.at EXCEPT ![w] = "closed"]
<1>1. /\ closed \in [Workers -> {"closed", "temp", "final", "lost"}]
      /\ closed[w] = "closed" /\ \A v \in Others(w) : closed[v] = f.at[v]
  BY DEF Staged, Others
<1>2. Disk!Abandoned(f, w) = [f EXCEPT !.temp = Absent, !.at = Disk!Moved(closed, "temp", "lost")]
  BY DEF Disk!Abandoned
<1> HIDE DEF closed
<1>3. /\ Disk!Moved(closed, "temp", "lost") \in [Workers -> {"closed", "temp", "final", "lost"}]
      /\ \A v \in Workers : Disk!Moved(closed, "temp", "lost")[v] =
           IF closed[v] = "temp" THEN "lost" ELSE closed[v]
  BY <1>1 DEF Disk!Moved
<1> QED  BY <1>1, <1>2, <1>3 DEF Staged, Text, Others

LEMMA PublishedStaging ==
  ASSUME NEW f \in Staged, NEW w \in Workers
  PROVE  /\ Disk!Published(f, w) \in Staged
         /\ Disk!Published(f, w).final = f.temp
         /\ \A v \in Workers : f.at[v] = "closed" => Disk!Published(f, w).at[v] = "closed"
<1> DEFINE first == Disk!Moved(f.at, "final", "lost")
<1>1. /\ first \in [Workers -> {"closed", "temp", "final", "lost"}]
      /\ \A v \in Workers : first[v] = IF f.at[v] = "final" THEN "lost" ELSE f.at[v]
  BY DEF Staged, Disk!Moved
<1> HIDE DEF first
<1>2. /\ Disk!Moved(first, "temp", "final") \in [Workers -> {"closed", "temp", "final", "lost"}]
      /\ \A v \in Workers : Disk!Moved(first, "temp", "final")[v] =
           IF first[v] = "temp" THEN "final" ELSE first[v]
  BY <1>1 DEF Disk!Moved
<1>3. Disk!Published(f, w) =
        [temp |-> Absent, final |-> f.temp, at |-> Disk!Moved(first, "temp", "final")]
  BY DEF Disk!Published, first
<1> QED  BY <1>1, <1>2, <1>3 DEF Staged, Text

LEMMA OrphanedStaging ==
  ASSUME NEW f \in Staged
  PROVE  /\ Disk!Orphaned(f) \in Staged /\ Disk!Orphaned(f).final = f.final
         /\ \A v \in Workers : Disk!Orphaned(f).at[v] = "closed"
BY DEF Staged, Disk!Orphaned

LEMMA StagingFailsPreserves ==
  ASSUME DnsInv, NEW w \in Workers, StagingFails(w)
  PROVE  DnsInv'
<1>1. /\ errand[w].at \in {"write", "publish"} /\ Move(w, NoErrand)
      /\ staging' = Disk!Abandoned(staging, w)
      /\ UNCHANGED <<rules, etc, served, root, crowded>>
  BY DEF StagingFails, OnErrand
<1>2. staging \in Staged
  BY WorkerFacts
<1>3. /\ staging' \in Staged /\ staging'.final = staging.final /\ staging'.at[w] = "closed"
      /\ \A v \in Others(w) : staging.at[v] = "closed" => staging'.at[v] = "closed"
  BY <1>1, <1>2, AbandonedStaging
<1>4. Underway(w) /\ errand[w].at # "rest"
  BY <1>1 DEF Underway
<1> QED  BY <1>1, <1>3, <1>4, LeavingPreserves

\* While no helper is at work for it, nothing it does touches dnsmasq.
LEMMA RequestServed ==
  ASSUME DnsInv, NEW w \in Workers, errand[w].at \in {"open", "write", "publish", "run"},
         errand'[w].at \in {"write", "publish", "run", "await"},
         errand'[w].ran = errand[w].ran, errand'[w].mixed = errand[w].mixed,
         root'[w].at \in {"none", "install"}, UNCHANGED <<etc, served>>
  PROVE  ~errand'[w].mixed => Served(w)'
<1> SUFFICES ASSUME ~errand'[w].mixed PROVE Served(w)'
  OBVIOUS
<1>1. Served(w) /\ root[w].at = "none"
  BY WorkerFacts DEF Own, Helped, Helper
<1> QED  BY <1>1 DEF Served, Running, Loaded, Takes

\* A request on its way to the helper: what its step does to the staged file
\* decides.
LEMMA StagingPreserves ==
  ASSUME DnsInv, NEW w \in Workers, NEW from \in {"open", "write", "publish"},
         NEW step \in {"write", "publish", "run"},
         errand[w].at = from, Come(w, step), staging' \in Staged,
         \A v \in Others(w) : staging.at[v] = "closed" => staging'.at[v] = "closed",
         staging'.at[w] # "closed" => step = "write",
         Alone(w) => CASE step = "write"   -> staging'.at[w] = "temp" /\ staging'.temp = Empty
                       [] step = "publish" -> staging'.temp = errand[w].text
                       [] OTHER            -> staging'.final = errand[w].text,
         ~crowded => staging'.final \notin {Empty, Torn},
         UNCHANGED <<rules, etc, served, root, crowded>>
  PROVE  DnsInv'
<1>1. DnsTyped /\ Helped(w) /\ Own(w) /\ WholeInv /\ root[w] \in Helper
  BY WorkerFacts
<1>2. /\ errand' \in [Workers -> Errand] /\ errand'[w].at = step
      /\ errand'[w].text = errand[w].text /\ errand'[w].mixed = errand[w].mixed
      /\ errand'[w].ran = errand[w].ran
      /\ \A v \in Others(w) : errand'[v] = errand[v]
  BY <1>1, Came
<1>3. Steps(w)
  BY <1>2 DEF Steps, Underway
<1>4. DnsTyped'
  BY <1>1, <1>2 DEF DnsTyped
<1>5. root[w].at = "none" /\ Helped(w)'
  BY <1>1, <1>2 DEF Helped, Helper
<1>6. Alone(w)' => Carried(w)'
  <2> SUFFICES ASSUME Alone(w)' PROVE Carried(w)'
    OBVIOUS
  <2>1. Alone(w) /\ Carried(w)
    BY <1>1, <1>2 DEF Alone, Own
  <2>2. errand[w].text = Render(rules)
    BY <2>1 DEF Carried
  <2> QED  BY <1>2, <1>5, <2>1, <2>2 DEF Carried
<1>7. ~errand'[w].mixed => Served(w)'
  BY <1>2, <1>5, RequestServed
<1>8. Good(rules') /\ Spoken(rules') /\ LoadedInv' /\ WholeInv'
  BY <1>1 DEF DnsInv, LoadedInv, WholeInv, Running, Takes
<1> QED  BY <1>3, <1>4, <1>5, <1>6, <1>7, <1>8, StepPreserves DEF Own

LEMMA OpenPreserves ==
  ASSUME DnsInv, NEW w \in Workers, OpenStaging(w)
  PROVE  DnsInv'
<1>1. /\ errand[w].at = "open" /\ Come(w, "write") /\ staging' = Disk!Opened(staging, w)
      /\ UNCHANGED <<rules, etc, served, root, crowded>>
  BY DEF OpenStaging, OnErrand
<1>2. staging \in Staged /\ WholeInv
  BY WorkerFacts
<1>3. /\ staging' \in Staged /\ staging'.temp = Empty /\ staging'.final = staging.final
      /\ staging'.at[w] = "temp" /\ \A v \in Others(w) : staging'.at[v] = staging.at[v]
  BY <1>1, <1>2, OpenedStaging
<1>4. ~crowded => staging'.final \notin {Empty, Torn}
  BY <1>2, <1>3 DEF WholeInv
<1> QED  BY <1>1, <1>3, <1>4, StagingPreserves

LEMMA WritePreserves ==
  ASSUME DnsInv, NEW w \in Workers, WriteStaging(w)
  PROVE  DnsInv'
<1>1. /\ errand[w].at = "write" /\ Come(w, "publish")
      /\ staging' \in Disk!Written(staging, w, errand[w].text)
      /\ UNCHANGED <<rules, etc, served, root, crowded>>
  BY DEF WriteStaging, OnErrand
<1>2. staging \in Staged /\ errand[w].text \in Text /\ Own(w) /\ WholeInv
  BY WorkerFacts DEF Errand
<1>3. /\ staging' \in Staged
      /\ staging'.at[w] = "closed" /\ \A v \in Others(w) : staging'.at[v] = staging.at[v]
      /\ staging.at[w] = "temp" =>
           staging'.final = staging.final /\ (staging.temp = Empty => staging'.temp = errand[w].text)
  BY <1>1, <1>2, WrittenStaging
<1>4. Alone(w) => /\ staging.at[w] = "temp" /\ staging'.temp = errand[w].text
                  /\ staging'.final = staging.final
  BY <1>1, <1>2, <1>3 DEF Own, Carried
<1>5. ~crowded => staging'.final \notin {Empty, Torn}
  BY <1>1, <1>2, <1>4 DEF WholeInv, Alone
<1> QED  BY <1>1, <1>3, <1>4, <1>5, StagingPreserves

LEMMA PublishPreserves ==
  ASSUME DnsInv, NEW w \in Workers, PublishStaging(w)
  PROVE  DnsInv'
<1>1. /\ errand[w].at = "publish" /\ Come(w, "run") /\ staging' = Disk!Published(staging, w)
      /\ UNCHANGED <<rules, etc, served, root, crowded>>
  BY DEF PublishStaging, OnErrand
<1>2. /\ staging \in Staged /\ Own(w) /\ Helped(w) /\ staging.at[w] = "closed"
      /\ Render(rules) \notin {Absent, Empty, Torn}
  BY <1>1, WorkerFacts DEF Helped
<1>3. /\ staging' \in Staged /\ staging'.final = staging.temp
      /\ \A v \in Workers : staging.at[v] = "closed" => staging'.at[v] = "closed"
  BY <1>1, <1>2, PublishedStaging
<1>4. Alone(w) => staging'.final = errand[w].text /\ errand[w].text = Render(rules)
  BY <1>1, <1>2, <1>3 DEF Own, Carried
<1>5. ~crowded => staging'.final \notin {Empty, Torn}
  BY <1>1, <1>2, <1>4 DEF Alone
<1>6. \A v \in Others(w) : staging.at[v] = "closed" => staging'.at[v] = "closed"
  BY <1>3 DEF Others
<1>7. staging'.at[w] = "closed"
  BY <1>2, <1>3
<1> QED  BY <1>1, <1>3, <1>4, <1>5, <1>6, <1>7, StagingPreserves

\* The helper is started, or the request ends.
LEMMA RunPreserves ==
  ASSUME DnsInv, NEW w \in Workers, RunHelper(w)
  PROVE  DnsInv'
<1>1. errand[w].at = "run" /\ UNCHANGED <<rules, staging, etc, served, crowded>>
  BY DEF RunHelper, OnErrand
<1>2. /\ DnsTyped /\ Helped(w) /\ Own(w) /\ root[w] \in Helper /\ staging \in Staged
      /\ staging.at[w] = "closed" /\ Underway(w)
  BY <1>1, WorkerFacts DEF Helped, Underway
<1>3. CASE Move(w, NoErrand) /\ UNCHANGED root
  BY <1>1, <1>2, <1>3, LeavingPreserves
<1>4. CASE Come(w, "await") /\ root' = [root EXCEPT ![w].at = "install"]
  <2>1. /\ errand' \in [Workers -> Errand] /\ errand'[w].at = "await"
        /\ errand'[w].text = errand[w].text /\ errand'[w].mixed = errand[w].mixed
        /\ errand'[w].ran = errand[w].ran
        /\ \A v \in Others(w) : errand'[v] = errand[v]
    BY <1>2, <1>4, Came
  <2>2. /\ root' \in [Workers -> Helper] /\ root'[w].at = "install"
        /\ \A v \in Others(w) : root'[v] = root[v]
    BY <1>2, <1>4, Proceeds
  <2>3. Steps(w)
    BY <1>1, <1>2, <2>1, <2>2 DEF Steps
  <2>4. DnsTyped'
    BY <1>1, <1>2, <2>1, <2>2 DEF DnsTyped
  <2>5. Helped(w)'
    BY <1>1, <1>2, <2>1, <2>2 DEF Helped
  <2>6. Alone(w)' => Carried(w)'
    <3> SUFFICES ASSUME Alone(w)' PROVE Carried(w)'
      OBVIOUS
    <3>1. Alone(w) /\ Carried(w)
      BY <1>1, <1>2, <2>1 DEF Alone, Own
    <3> QED  BY <1>1, <2>1, <2>2, <3>1 DEF Carried
  <2>7. ~errand'[w].mixed => Served(w)'
    BY <1>1, <2>1, <2>2, RequestServed
  <2>8. Good(rules') /\ Spoken(rules') /\ LoadedInv' /\ WholeInv'
    BY <1>1 DEF DnsInv, LoadedInv, WholeInv, Running, Takes
  <2> QED  BY <2>3, <2>4, <2>5, <2>6, <2>7, <2>8, StepPreserves DEF Own
<1> QED  BY <1>3, <1>4 DEF RunHelper

-----------------------------------------------------------------------------
(* The steps of the helper.                                                *)

\* The helper of w takes a step: the request, if it still waits, is told of its end.
HelperSteps(w) ==
  /\ root[w].at # "none"
  /\ root' \in [Workers -> Helper] /\ errand' \in [Workers -> Errand]
  /\ \A v \in Others(w) : root'[v] = root[v] /\ errand'[v] = errand[v]
  /\ errand'[w].text = errand[w].text /\ errand'[w].mixed = errand[w].mixed
  /\ errand'[w].ran = errand[w].ran /\ errand'[w].lines = errand[w].lines
  /\ \/ root'[w].at # "none" /\ errand'[w].at = errand[w].at
     \/ root'[w].at = "none" /\ errand'[w].at = "rest" /\ errand[w].at = "rest"
     \/ root'[w].at = "none" /\ errand'[w].at \in {"applied", "refused"} /\ errand[w].at = "await"
  /\ UNCHANGED <<rules, staging, crowded>>

LEMMA HelperPreserves ==
  ASSUME DnsInv, NEW w \in Workers, HelperSteps(w),
         etc' \in [conf : Text, tmp : Text, previous : Text, legacy : Text],
         etc'.legacy \in {etc.legacy, Absent},
         errand[w].at = "await" /\ Alone(w) /\ Carried(w) => Carried(w)',
         errand[w].at = "await" /\ ~errand[w].mixed /\ Carried(w) /\ Served(w) => Served(w)',
         LoadedInv', ~crowded => \A file \in {etc'.conf, etc'.tmp, etc'.previous} : file \notin {Empty, Torn}
  PROVE  DnsInv'
<1>1. DnsTyped /\ Helped(w) /\ Own(w) /\ WholeInv /\ errand[w].at \in {"await", "rest"}
  BY WorkerFacts DEF HelperSteps, Helped
<1>2. Steps(w)
  BY DEF HelperSteps, Steps, Underway
<1>3. DnsTyped'
  BY <1>1 DEF HelperSteps, DnsTyped
<1>4. Helped(w)'
  BY <1>1 DEF HelperSteps, Helped
<1>5. Alone(w)' => Carried(w)'
  BY <1>1 DEF HelperSteps, Alone, Own
<1>6. errand'[w].at # "rest" /\ ~errand'[w].mixed => Served(w)'
  BY <1>1 DEF HelperSteps, Own, Alone
<1>7. Good(rules') /\ Spoken(rules')
  BY DEF HelperSteps, DnsInv
<1>8. WholeInv'
  BY <1>1 DEF HelperSteps, WholeInv
<1> QED  BY <1>2, <1>3, <1>4, <1>5, <1>6, <1>7, <1>8, StepPreserves DEF Own

\* It goes on, or it ends.
LEMMA GoesOn ==
  ASSUME DnsInv, NEW w \in Workers, root[w].at # "none",
         NEW step \in {"install", "keep", "swap", "aside", "restart", "undo", "revive"}, Proceed(w, step),
         UNCHANGED <<rules, staging, crowded>>
  PROVE  HelperSteps(w) /\ root'[w].at = step /\ root'[w].had = root[w].had /\ errand'[w] = errand[w]
<1>1. DnsTyped
  BY DEF DnsInv
<1>2. /\ root' \in [Workers -> Helper] /\ root'[w].at = step /\ root'[w].had = root[w].had
      /\ \A v \in Others(w) : root'[v] = root[v]
  BY <1>1, Proceeds DEF Proceed
<1> QED  BY <1>1, <1>2 DEF HelperSteps, Proceed, DnsTyped

LEMMA Ends ==
  ASSUME DnsInv, NEW w \in Workers, root[w].at # "none", NEW outcome \in {"applied", "refused"},
         Exit(w, outcome), UNCHANGED <<rules, staging, crowded>>
  PROVE  HelperSteps(w) /\ root'[w].at = "none" /\ (errand[w].at = "await" => errand'[w].at = outcome)
<1>1. DnsTyped /\ errand[w].at \in {"await", "rest"}
  BY WorkerFacts DEF Helped
<1>2. /\ root' \in [Workers -> Helper] /\ root'[w].at = "none"
      /\ \A v \in Others(w) : root'[v] = root[v]
      /\ errand' \in [Workers -> Errand]
      /\ \A v \in Others(w) : errand'[v] = errand[v]
      /\ errand'[w].at = IF errand[w].at = "await" THEN outcome ELSE errand[w].at
      /\ errand'[w].text = errand[w].text /\ errand'[w].mixed = errand[w].mixed
      /\ errand'[w].ran = errand[w].ran /\ errand'[w].lines = errand[w].lines
  BY <1>1, Exits
<1> QED  BY <1>1, <1>2 DEF HelperSteps

\* What the lemmas below use of the files.
LEMMA EtcFacts ==
  ASSUME DnsInv
  PROVE  /\ etc \in [conf : Text, tmp : Text, previous : Text, legacy : Text]
         /\ staging.final \in Text /\ Absent \in Text /\ Absent \notin {Empty, Torn}
         /\ LoadedInv
         /\ ~crowded => \A file \in {staging.final, etc.conf, etc.tmp, etc.previous} : file \notin {Empty, Torn}
BY DnsAssumption DEF DnsInv, DnsTyped, Staged, Text, WholeInv

\* A helper that gives up before it restarts dnsmasq leaves it on the rules from before.
LEMMA GivingUp ==
  ASSUME NEW w \in Workers, root[w].at \in {"install", "swap"}, errand[w].at = "await", Served(w),
         errand'[w].at = "refused", errand'[w].ran = errand[w].ran, root'[w].at = "none",
         UNCHANGED <<etc, served>>
  PROVE  Served(w)'
<1>1. Loaded' = Loaded
  BY DEF Loaded
<1>2. CASE errand[w].ran = None
  BY <1>2 DEF Served
<1>3. CASE errand[w].ran # None
  <2>1. /\ errand[w].ran.conf # Torn /\ TRUE \in Takes(errand[w].ran.conf)
        /\ Running /\ served = Loaded /\ served = errand[w].ran
    BY <1>3 DEF Served
  <2> QED  BY <1>1, <2>1 DEF Served
<1> QED  BY <1>2, <1>3

LEMMA InstallPreserves ==
  ASSUME DnsInv, NEW w \in Workers, Install(w)
  PROVE  DnsInv'
<1>1. root[w].at = "install" /\ UNCHANGED <<rules, staging, served, crowded>>
  BY DEF Install, InRoot
<1>2. LoadedInv'
  BY <1>1, EtcFacts DEF LoadedInv, Running, Takes
<1>3. CASE etc' = [etc EXCEPT !.tmp = staging.final] /\ Proceed(w, "keep")
  <2>1. /\ HelperSteps(w) /\ root'[w].at = "keep" /\ errand'[w] = errand[w]
    BY <1>1, <1>3, GoesOn
  <2>2. /\ etc' \in [conf : Text, tmp : Text, previous : Text, legacy : Text]
        /\ etc'.conf = etc.conf /\ etc'.tmp = staging.final /\ etc'.previous = etc.previous
        /\ etc'.legacy = etc.legacy
    BY <1>3, EtcFacts
  <2>3. errand[w].at = "await" /\ Carried(w) => Carried(w)'
    BY <1>1, <2>1, <2>2 DEF Carried
  <2>4. errand[w].at = "await" /\ Served(w) => Served(w)'
    BY <1>1, <2>1, <2>2 DEF Served, Running, Loaded, Takes
  <2>5. ~crowded => \A file \in {etc'.conf, etc'.tmp, etc'.previous} : file \notin {Empty, Torn}
    BY <2>2, EtcFacts
  <2> QED  BY <1>2, <2>1, <2>2, <2>3, <2>4, <2>5, HelperPreserves
<1>4. CASE Exit(w, "refused") /\ UNCHANGED etc
  <2>1. HelperSteps(w) /\ root'[w].at = "none" /\ (errand[w].at = "await" => errand'[w].at = "refused")
    BY <1>1, <1>4, Ends
  <2>2. errand[w].at = "await" /\ Carried(w) => Carried(w)'
    BY <1>1, <1>4, <2>1 DEF Carried
  <2>3. errand[w].at = "await" /\ Served(w) => Served(w)'
    BY <1>1, <1>4, <2>1, GivingUp DEF HelperSteps
  <2>4. ~crowded => \A file \in {etc'.conf, etc'.tmp, etc'.previous} : file \notin {Empty, Torn}
    BY <1>4, EtcFacts
  <2> QED  BY <1>2, <1>4, <2>1, <2>2, <2>3, <2>4, EtcFacts, HelperPreserves
<1> QED  BY <1>3, <1>4 DEF Install

LEMMA KeepPreserves ==
  ASSUME DnsInv, NEW w \in Workers, Keep(w)
  PROVE  DnsInv'
<1> DEFINE record == [at |-> "swap", had |-> etc.conf # Absent]
<1>1. /\ root[w].at = "keep" /\ UNCHANGED <<rules, staging, served, errand, crowded>>
      /\ IF etc.conf = Absent THEN UNCHANGED etc ELSE etc' = [etc EXCEPT !.previous = etc.conf]
      /\ root' = [root EXCEPT ![w] = record]
  BY DEF Keep, InRoot
<1>2. record \in Helper /\ record.at = "swap" /\ (record.had <=> etc.conf # Absent)
  BY DEF Helper
<1> HIDE DEF record
<1>3. DnsTyped /\ errand[w].at \in {"await", "rest"}
  BY <1>1, WorkerFacts DEF Helped
<1>4. HelperSteps(w) /\ root'[w] = record
  BY <1>1, <1>2, <1>3 DEF HelperSteps, DnsTyped, Others
<1>5. /\ etc' \in [conf : Text, tmp : Text, previous : Text, legacy : Text]
      /\ etc'.conf = etc.conf /\ etc'.tmp = etc.tmp /\ etc'.legacy = etc.legacy
      /\ etc.conf # Absent => etc'.previous = etc.conf
      /\ etc'.previous \in {etc.conf, etc.previous}
  <2>1. CASE etc.conf = Absent
    BY <1>1, <2>1, EtcFacts
  <2>2. CASE etc.conf # Absent
    BY <1>1, <2>2, EtcFacts
  <2> QED  BY <2>1, <2>2
<1>6. LoadedInv'
  BY <1>1, EtcFacts DEF LoadedInv, Running, Takes
<1>7. errand[w].at = "await" /\ Carried(w) => Carried(w)'
  BY <1>1, <1>2, <1>4, <1>5 DEF Carried
<1>8. ASSUME errand[w].at = "await", Served(w) PROVE Served(w)'
  <2>1. CASE errand[w].ran = None
    BY <1>1, <1>4, <1>8, <2>1 DEF Served, HelperSteps
  <2>2. CASE errand[w].ran # None
    <3>1. /\ errand[w].ran.conf # Torn /\ TRUE \in Takes(errand[w].ran.conf)
          /\ Running /\ served = Loaded /\ served = errand[w].ran
      BY <1>1, <1>8, <2>2 DEF Served
    <3>2. etc.conf = errand[w].ran.conf
      BY <3>1 DEF Loaded
    <3>3. Loaded' = Loaded /\ Running'
      BY <1>1, <1>5, <3>1 DEF Loaded, Running
    <3> QED  BY <1>1, <1>2, <1>4, <1>5, <1>8, <3>1, <3>2, <3>3 DEF Served, HelperSteps
  <2> QED  BY <2>1, <2>2
<1>9. ~crowded => \A file \in {etc'.conf, etc'.tmp, etc'.previous} : file \notin {Empty, Torn}
  BY <1>5, EtcFacts
<1> QED  BY <1>4, <1>5, <1>6, <1>7, <1>8, <1>9, HelperPreserves

\* It moves the file in place, or finds that another helper has.
LEMMA SwapPreserves ==
  ASSUME DnsInv, NEW w \in Workers, Swap(w)
  PROVE  DnsInv'
<1>1. root[w].at = "swap" /\ UNCHANGED <<rules, staging, served, crowded>>
  BY DEF Swap, InRoot
<1>2. LoadedInv'
  BY <1>1, EtcFacts DEF LoadedInv, Running, Takes
<1>3. CASE etc' = [etc EXCEPT !.conf = etc.tmp, !.tmp = Absent] /\ Proceed(w, "aside")
  <2>1. /\ HelperSteps(w) /\ root'[w].at = "aside" /\ root'[w].had = root[w].had
        /\ errand'[w] = errand[w]
    BY <1>1, <1>3, GoesOn
  <2>2. /\ etc' \in [conf : Text, tmp : Text, previous : Text, legacy : Text]
        /\ etc'.conf = etc.tmp /\ etc'.tmp = Absent /\ etc'.previous = etc.previous
        /\ etc'.legacy = etc.legacy
    BY <1>3, EtcFacts
  <2>3. errand[w].at = "await" /\ Carried(w) => Carried(w)'
    BY <1>1, <2>1, <2>2 DEF Carried
  <2>4. ASSUME errand[w].at = "await", Served(w) PROVE Served(w)'
    <3>1. CASE errand[w].ran = None
      BY <2>1, <2>4, <3>1 DEF Served
    <3>2. CASE errand[w].ran # None
      <4>1. /\ errand[w].ran.conf # Torn /\ TRUE \in Takes(errand[w].ran.conf)
            /\ Running /\ served = Loaded /\ served = errand[w].ran
            /\ root[w].had <=> errand[w].ran.conf # Absent
            /\ root[w].had => etc.previous = errand[w].ran.conf
        BY <1>1, <2>4, <3>2 DEF Served
      <4>2. served.conf = errand[w].ran.conf
        BY <4>1 DEF Loaded
      <4> QED  BY <1>1, <2>1, <2>2, <2>4, <4>1, <4>2 DEF Served, Running
    <3> QED  BY <3>1, <3>2
  <2>5. ~crowded => \A file \in {etc'.conf, etc'.tmp, etc'.previous} : file \notin {Empty, Torn}
    BY <2>2, EtcFacts
  <2> QED  BY <1>2, <2>1, <2>2, <2>3, <2>4, <2>5, HelperPreserves
<1>4. CASE Exit(w, "refused") /\ UNCHANGED etc
  <2>1. HelperSteps(w) /\ root'[w].at = "none" /\ (errand[w].at = "await" => errand'[w].at = "refused")
    BY <1>1, <1>4, Ends
  <2>2. errand[w].at = "await" /\ Carried(w) => Carried(w)'
    BY <1>1, <1>4, <2>1 DEF Carried
  <2>3. errand[w].at = "await" /\ Served(w) => Served(w)'
    BY <1>1, <1>4, <2>1, GivingUp DEF HelperSteps
  <2>4. ~crowded => \A file \in {etc'.conf, etc'.tmp, etc'.previous} : file \notin {Empty, Torn}
    BY <1>4, EtcFacts
  <2> QED  BY <1>2, <1>4, <2>1, <2>2, <2>3, <2>4, EtcFacts, HelperPreserves
<1> QED  BY <1>3, <1>4 DEF Swap

LEMMA AsidePreserves ==
  ASSUME DnsInv, NEW w \in Workers, Aside(w)
  PROVE  DnsInv'
<1>1. /\ root[w].at = "aside" /\ UNCHANGED <<rules, staging, served, crowded>>
      /\ etc' = [etc EXCEPT !.legacy = Absent] /\ Proceed(w, "restart")
  BY DEF Aside, InRoot
<1>2. LoadedInv'
  BY <1>1, EtcFacts DEF LoadedInv, Running, Takes
<1>3. /\ HelperSteps(w) /\ root'[w].at = "restart" /\ root'[w].had = root[w].had
      /\ errand'[w] = errand[w]
  BY <1>1, GoesOn
<1>4. /\ etc' \in [conf : Text, tmp : Text, previous : Text, legacy : Text]
      /\ etc'.conf = etc.conf /\ etc'.tmp = etc.tmp /\ etc'.previous = etc.previous
      /\ etc'.legacy = Absent
  BY <1>1, EtcFacts
<1>5. errand[w].at = "await" /\ Carried(w) => Carried(w)'
  BY <1>1, <1>3, <1>4 DEF Carried
<1>6. errand[w].at = "await" /\ Served(w) => Served(w)'
  BY <1>1, <1>3, <1>4 DEF Served, Running, Loaded, Takes
<1>7. ~crowded => \A file \in {etc'.conf, etc'.tmp, etc'.previous} : file \notin {Empty, Torn}
  BY <1>4, EtcFacts
<1> QED  BY <1>2, <1>3, <1>4, <1>5, <1>6, <1>7, HelperPreserves

\* The new file is in place and dnsmasq is restarted on it, or was not running.
LEMMA RestartDnsPreserves ==
  ASSUME DnsInv, NEW w \in Workers, Restart(w)
  PROVE  DnsInv'
<1>1. root[w].at = "restart" /\ UNCHANGED <<rules, staging, crowded>>
  BY DEF Restart, InRoot
<1>2. CASE ~Running /\ etc' = [etc EXCEPT !.previous = Absent] /\ Exit(w, "applied") /\ UNCHANGED served
  <2>1. /\ HelperSteps(w) /\ root'[w].at = "none"
        /\ errand[w].at = "await" => errand'[w].at = "applied"
    BY <1>1, <1>2, Ends
  <2>2. /\ etc' \in [conf : Text, tmp : Text, previous : Text, legacy : Text]
        /\ etc'.conf = etc.conf /\ etc'.tmp = etc.tmp /\ etc'.previous = Absent
        /\ etc'.legacy = etc.legacy
    BY <1>2, EtcFacts
  <2>3. LoadedInv'
    BY <1>2 DEF LoadedInv, Running
  <2>4. errand[w].at = "await" /\ Carried(w) => Carried(w)'
    BY <1>1, <2>1, <2>2 DEF Carried
  <2>5. errand[w].at = "await" /\ Served(w) => Served(w)'
    <3>1. Served(w) => errand[w].ran = None
      BY <1>1, <1>2 DEF Served
    <3> QED  BY <1>2, <2>1, <3>1 DEF Served, Running, HelperSteps
  <2>6. ~crowded => \A file \in {etc'.conf, etc'.tmp, etc'.previous} : file \notin {Empty, Torn}
    BY <2>2, EtcFacts
  <2> QED  BY <2>1, <2>2, <2>3, <2>4, <2>5, <2>6, HelperPreserves
<1>3. CASE Running /\ served' \in Starts /\ served' = Failed /\ UNCHANGED etc /\ Proceed(w, "undo")
  <2>1. /\ HelperSteps(w) /\ root'[w].at = "undo" /\ root'[w].had = root[w].had
        /\ errand'[w] = errand[w]
    BY <1>1, <1>3, GoesOn
  <2>2. LoadedInv'
    BY <1>3 DEF LoadedInv, Running
  <2>3. errand[w].at = "await" /\ Carried(w) => Carried(w)'
    BY <1>1, <1>3, <2>1 DEF Carried
  <2>4. errand[w].at = "await" /\ Served(w) => Served(w)'
    BY <1>1, <1>3, <2>1 DEF Served
  <2>5. ~crowded => \A file \in {etc'.conf, etc'.tmp, etc'.previous} : file \notin {Empty, Torn}
    BY <1>3, EtcFacts
  <2> QED  BY <1>3, <2>1, <2>2, <2>3, <2>4, <2>5, EtcFacts, HelperPreserves
<1>4. CASE /\ Running /\ served' \in Starts /\ served' # Failed
           /\ etc' = [etc EXCEPT !.previous = Absent] /\ Exit(w, "applied")
  <2>1. /\ HelperSteps(w) /\ root'[w].at = "none"
        /\ errand[w].at = "await" => errand'[w].at = "applied"
    BY <1>1, <1>4, Ends
  <2>2. /\ etc' \in [conf : Text, tmp : Text, previous : Text, legacy : Text]
        /\ etc'.conf = etc.conf /\ etc'.tmp = etc.tmp /\ etc'.previous = Absent
        /\ etc'.legacy = etc.legacy
    BY <1>4, EtcFacts
  <2>3. served' = Loaded /\ TRUE \in Takes(etc.conf)
    BY <1>4, WhatStarts
  <2>4. LoadedInv'
    BY <2>3 DEF LoadedInv, Loaded
  <2>5. errand[w].at = "await" /\ Carried(w) => Carried(w)'
    BY <1>1, <2>1, <2>2 DEF Carried
  <2>6. errand[w].at = "await" /\ Served(w) => Served(w)'
    <3>1. Loaded' = Loaded
      BY <2>2 DEF Loaded
    <3>2. Served(w) => errand[w].ran = None \/ (errand[w].ran.conf # Torn /\ TRUE \in Takes(errand[w].ran.conf))
      BY DEF Served
    <3> QED  BY <2>1, <2>3, <3>1, <3>2 DEF Served, HelperSteps
  <2>7. ~crowded => \A file \in {etc'.conf, etc'.tmp, etc'.previous} : file \notin {Empty, Torn}
    BY <2>2, EtcFacts
  <2> QED  BY <2>1, <2>2, <2>4, <2>5, <2>6, <2>7, HelperPreserves
<1> QED  BY <1>2, <1>3, <1>4 DEF Restart

LEMMA UndoPreserves ==
  ASSUME DnsInv, NEW w \in Workers, Undo(w)
  PROVE  DnsInv'
<1>1. root[w].at = "undo" /\ UNCHANGED <<rules, staging, served, crowded>>
  BY DEF Undo, InRoot
<1>2. LoadedInv'
  BY <1>1, EtcFacts DEF LoadedInv, Running, Takes
<1>3. ASSUME NEW back \in Text, etc'.conf = back, Proceed(w, "revive"),
             etc' \in [conf : Text, tmp : Text, previous : Text, legacy : Text],
             etc'.tmp = etc.tmp, etc'.legacy = etc.legacy, etc'.previous \in {etc.previous, Absent},
             back \in {Absent, etc.previous}, Served(w) /\ errand[w].ran # None => back = errand[w].ran.conf
      PROVE  DnsInv'
  <2>1. HelperSteps(w) /\ root'[w].at = "revive" /\ errand'[w] = errand[w]
    BY <1>1, <1>3, GoesOn
  <2>2. errand[w].at = "await" /\ Carried(w) => Carried(w)'
    BY <1>1, <1>3, <2>1 DEF Carried
  <2>3. errand[w].at = "await" /\ Served(w) => Served(w)'
    BY <1>1, <1>3, <2>1 DEF Served
  <2>4. ~crowded => \A file \in {etc'.conf, etc'.tmp, etc'.previous} : file \notin {Empty, Torn}
    BY <1>3, EtcFacts
  <2> QED  BY <1>2, <1>3, <2>1, <2>2, <2>3, <2>4, HelperPreserves
<1>4. CASE ~root[w].had /\ etc' = [etc EXCEPT !.conf = Absent] /\ Proceed(w, "revive")
  <2>1. Served(w) /\ errand[w].ran # None => Absent = errand[w].ran.conf
    BY <1>1, <1>4 DEF Served
  <2>2. /\ Absent \in Text /\ etc' \in [conf : Text, tmp : Text, previous : Text, legacy : Text]
        /\ etc'.conf = Absent /\ etc'.tmp = etc.tmp /\ etc'.legacy = etc.legacy
        /\ etc'.previous = etc.previous
    BY <1>4, EtcFacts
  <2> QED  BY <1>3, <1>4, <2>1, <2>2
<1>5. CASE /\ root[w].had /\ etc' = [etc EXCEPT !.conf = etc.previous, !.previous = Absent]
           /\ Proceed(w, "revive")
  <2>1. PICK back \in Text : back = etc.previous
    BY EtcFacts
  <2>2. Served(w) /\ errand[w].ran # None => back = errand[w].ran.conf
    BY <1>1, <1>5, <2>1 DEF Served
  <2>3. /\ Absent \in Text /\ etc' \in [conf : Text, tmp : Text, previous : Text, legacy : Text]
        /\ etc'.conf = back /\ etc'.tmp = etc.tmp /\ etc'.legacy = etc.legacy
        /\ etc'.previous = Absent
    BY <1>5, <2>1, EtcFacts
  <2> QED  BY <1>3, <1>5, <2>1, <2>2, <2>3
<1>6. CASE root[w].had /\ etc.previous = Absent /\ Exit(w, "refused") /\ UNCHANGED etc
  <2>1. HelperSteps(w) /\ root'[w].at = "none" /\ (errand[w].at = "await" => errand'[w].at = "refused")
    BY <1>1, <1>6, Ends
  <2>2. errand[w].at = "await" /\ Carried(w) => Carried(w)'
    BY <1>1, <1>6, <2>1 DEF Carried
  <2>3. errand[w].at = "await" /\ Served(w) => Served(w)'
    <3>1. Served(w) => errand[w].ran = None
      BY <1>1, <1>6 DEF Served
    <3> QED  BY <1>1, <2>1, <3>1 DEF Served, HelperSteps
  <2>4. ~crowded => \A file \in {etc'.conf, etc'.tmp, etc'.previous} : file \notin {Empty, Torn}
    BY <1>6, EtcFacts
  <2> QED  BY <1>2, <1>6, <2>1, <2>2, <2>3, <2>4, EtcFacts, HelperPreserves
<1> QED  BY <1>4, <1>5, <1>6 DEF Undo

\* dnsmasq takes again what it had taken before.
LEMMA RevivePreserves ==
  ASSUME DnsInv, NEW w \in Workers, Revive(w)
  PROVE  DnsInv'
<1>1. /\ root[w].at = "revive" /\ UNCHANGED <<rules, staging, etc, crowded>>
      /\ served' \in Starts /\ Exit(w, "refused")
  BY DEF Revive, InRoot
<1>2. HelperSteps(w) /\ root'[w].at = "none" /\ (errand[w].at = "await" => errand'[w].at = "refused")
  BY <1>1, Ends
<1>3. LoadedInv'
  <2>1. served' = Failed \/ (served' = Loaded /\ TRUE \in Takes(etc.conf))
    BY <1>1, WhatStarts
  <2>2. Loaded.conf = etc.conf
    BY DEF Loaded
  <2>3. Running' => TRUE \in Takes(served'.conf)
    BY <2>1, <2>2 DEF Running
  <2> QED  BY <2>3 DEF LoadedInv
<1>4. errand[w].at = "await" /\ Carried(w) => Carried(w)'
  BY <1>1, <1>2 DEF Carried
<1>5. ASSUME errand[w].at = "await", Carried(w), Served(w) PROVE Served(w)'
  <2>1. CASE errand[w].ran = None
    BY <1>2, <1>5, <2>1 DEF Served, HelperSteps
  <2>2. CASE errand[w].ran # None
    <3>1. /\ errand[w].ran.conf # Torn /\ TRUE \in Takes(errand[w].ran.conf) /\ etc.conf = errand[w].ran.conf
          /\ etc.legacy = Absent
      BY <1>1, <1>5, <2>2 DEF Served, Carried
    <3>2. served' = Loaded
      BY <1>1, <3>1, StartsAgain
    <3>3. Loaded' = Loaded
      BY <1>1 DEF Loaded
    <3>4. errand[w].ran.legacy = Absent => Loaded = errand[w].ran
      <4>1. errand[w].ran \in [conf : Text, legacy : Text]
        BY <2>2 DEF DnsInv, DnsTyped, Errand
      <4> QED  BY <3>1, <4>1 DEF Loaded
    <3> QED  BY <1>2, <1>5, <3>1, <3>2, <3>3, <3>4 DEF Served, HelperSteps
  <2> QED  BY <2>1, <2>2
<1>6. ~crowded => \A file \in {etc'.conf, etc'.tmp, etc'.previous} : file \notin {Empty, Torn}
  BY <1>1, EtcFacts
<1> QED  BY <1>1, <1>2, <1>3, <1>4, <1>5, <1>6, EtcFacts, HelperPreserves

-----------------------------------------------------------------------------
(* The requests.                                                           *)

LEMMA SpokenAdded ==
  ASSUME NEW table, Good(table), Spoken(table), NEW id, NEW kind \in {"domain", "fallback"}, NEW domain,
         NEW address \in Addresses, kind = "domain" => domain \in Domains
  PROVE  Spoken(AddRule(table, id, kind, domain, address))
<1> DEFINE same == Existing(table, kind, domain)
           new  == IF kind = "domain" THEN Rule(id, "domain", domain, address, None)
                   ELSE Rule(id, "fallback", None, address, NextPosition(table))
<1>1. CASE same # {}
  <2>1. AddRule(table, id, kind, domain, address) =
          (table \ same) \union {[r EXCEPT !.address = address] : r \in same}
    BY <1>1 DEF AddRule
  <2>2. ASSUME NEW r \in same
        PROVE  /\ [r EXCEPT !.address = address].address = address
               /\ [r EXCEPT !.address = address].domain = r.domain
               /\ r.domain \in Domains
    <3>1. r \in table /\ r.kind = "domain" /\ r = Rule(r.id, r.kind, r.domain, r.address, r.position)
      BY DEF Existing, OfKind, Good, IsRow
    <3>2. r.domain \in Domains
      BY <3>1 DEF Spoken
    <3> QED  BY <3>1, <3>2 DEF Rule
  <2> HIDE DEF same
  <2> QED  BY <2>1, <2>2 DEF Spoken
<1>2. CASE same = {}
  <2>1. AddRule(table, id, kind, domain, address) = table \union {new}
    BY <1>2 DEF AddRule
  <2>2. new.address \in Addresses /\ (new.kind = "domain" => new.domain \in Domains)
    BY DEF Rule
  <2> HIDE DEF new
  <2> QED  BY <2>1, <2>2 DEF Spoken
<1> QED  BY <1>1, <1>2

LEMMA SpokenMoved ==
  ASSUME NEW table, Good(table), Spoken(table), NEW row \in OfKind(table, "fallback"), NEW direction
  PROVE  Spoken(MoveFallback(table, row, direction))
<1> DEFINE near  == Neighbours(table, row, direction)
           other == CHOOSE r \in near : TRUE
<1>1. CASE near = {}
  BY <1>1 DEF MoveFallback
<1>2. CASE near # {}
  <2>1. other \in near
    BY <1>2
  <2>2. other \in table /\ row \in table /\ row.kind = "fallback" /\ other.kind = "fallback"
    BY <2>1 DEF Neighbours, OfKind
  <2>3. MoveFallback(table, row, direction) =
          (table \ {row, other}) \union {[row EXCEPT !.position = other.position],
                                         [other EXCEPT !.position = row.position]}
    BY <1>2 DEF MoveFallback
  <2> HIDE DEF other
  <2>4. \A r \in {row, other} : /\ r = Rule(r.id, r.kind, r.domain, r.address, r.position)
                                /\ r.kind = "fallback" /\ r.address \in Addresses
    BY <2>2 DEF Good, IsRow, Spoken
  <2>5. \A r \in {row, other} : \A p : /\ [r EXCEPT !.position = p].address \in Addresses
                                       /\ [r EXCEPT !.position = p].kind = "fallback"
    BY <2>4 DEF Rule
  <2> QED  BY <2>3, <2>5 DEF Spoken
<1> QED  BY <1>1, <1>2

\* A request begins: alone, on what dnsmasq runs on, or among others.
LEMMA BeginPreserves ==
  ASSUME DnsInv, NEW w \in Workers, NEW record \in Errand, record.at \in {"list", "import"},
         record.at = "import" => \A i \in DOMAIN record.lines : Understood(record.lines[i]),
         Begin(w, record), Good(rules'), Spoken(rules')
  PROVE  DnsInv'
<1> DEFINE crowd   == \E v \in Others(w) : Underway(v)
           started == [record EXCEPT !.mixed = crowd,
                                     !.ran = IF Running /\ served = Loaded /\ etc.conf # Torn
                                               THEN Loaded ELSE None]
<1>1. /\ ~Underway(w) /\ UNCHANGED <<staging, etc, served, root>> /\ crowded' = (crowded \/ crowd)
      /\ errand' = [IF crowd THEN Interfered(errand) ELSE errand EXCEPT ![w] = started]
  BY DEF Begin
<1>2. /\ DnsTyped /\ LoadedInv /\ root[w].at = "none" /\ staging.at[w] = "closed"
      /\ etc.conf \in Text
  BY <1>1, WorkerFacts, EtcFacts DEF Underway, Helped
<1>3. /\ started \in Errand /\ started.at = record.at /\ started.lines = record.lines
      /\ started.mixed \in BOOLEAN /\ (started.mixed <=> crowd)
      /\ started.ran # None => Running /\ served = Loaded /\ etc.conf # Torn /\ started.ran = Loaded
  <2>1. PICK c \in BOOLEAN : c = crowd
    OBVIOUS
  <2>2. PICK e \in [conf : Text, legacy : Text] \union {None} :
          /\ e = IF Running /\ served = Loaded /\ etc.conf # Torn THEN Loaded ELSE None
    BY <1>2 DEF Loaded, DnsTyped
  <2>3. started = [record EXCEPT !.mixed = c, !.ran = e]
    BY <2>1, <2>2
  <2> HIDE DEF started, crowd
  <2>4. /\ started \in Errand /\ started.at = record.at /\ started.lines = record.lines
        /\ started.mixed = c /\ started.ran = e
    BY <2>3 DEF Errand
  <2> QED  BY <2>1, <2>2, <2>4
<1> HIDE DEF started
<1>4. Interfered(errand) \in [Workers -> Errand]
      /\ \A v \in Workers : /\ Interfered(errand)[v].at = errand[v].at
                            /\ Interfered(errand)[v].lines = errand[v].lines
                            /\ errand[v].at # "rest" => Interfered(errand)[v].mixed
  <2>1. \A v \in Workers : /\ [errand[v] EXCEPT !.mixed = TRUE] \in Errand
                           /\ [errand[v] EXCEPT !.mixed = TRUE].at = errand[v].at
                           /\ [errand[v] EXCEPT !.mixed = TRUE].lines = errand[v].lines
                           /\ [errand[v] EXCEPT !.mixed = TRUE].mixed = TRUE
    BY <1>2 DEF DnsTyped, Errand
  <2> QED  BY <1>2, <2>1 DEF Interfered, DnsTyped
<1>5. /\ errand' \in [Workers -> Errand] /\ errand'[w] = started
      /\ \A v \in Others(w) : errand'[v] = IF crowd THEN Interfered(errand)[v] ELSE errand[v]
  <2>1. CASE crowd
    BY <1>1, <1>3, <1>4, <2>1 DEF Others
  <2>2. CASE ~crowd
    BY <1>1, <1>2, <1>3, <2>2 DEF Others, DnsTyped
  <2> QED  BY <2>1, <2>2
<1>6. \A v \in Others(w) : errand'[v].at = errand[v].at /\ errand'[v].lines = errand[v].lines
  BY <1>4, <1>5 DEF Others
<1>7. crowded \in BOOLEAN /\ crowded' \in BOOLEAN
  BY <1>1, <1>2 DEF DnsTyped
<1>8. DnsTyped'
  BY <1>1, <1>2, <1>5, <1>7 DEF DnsTyped
<1>9. \A v \in Workers : Helped(v)'
  <2>1. Helped(w)'
    BY <1>1, <1>2, <1>3, <1>5 DEF Helped
  <2>2. \A v \in Others(w) : Helped(v)'
    BY <1>1, <1>6 DEF DnsInv, Own, Helped, Others
  <2> QED  BY <2>1, <2>2 DEF Others
<1>10. CASE crowd
  <2>1. crowded' = TRUE
    BY <1>1, <1>10
  <2>2. \A v \in Workers : errand'[v].at # "rest" => errand'[v].mixed
    <3>1. errand'[w].mixed
      BY <1>3, <1>5, <1>10
    <3>2. \A v \in Others(w) : errand'[v].at # "rest" => errand'[v].mixed
      BY <1>4, <1>5, <1>10 DEF Others
    <3> QED  BY <3>1, <3>2 DEF Others
  <2>3. CrowdInv' /\ AloneInv' /\ WholeInv'
    BY <2>1, <2>2 DEF CrowdInv, AloneInv, WholeInv
  <2>4. \A v \in Workers : Own(v)'
    BY <1>9, <2>1, <2>2 DEF Own, Alone
  <2>5. LoadedInv'
    BY <1>1, <1>2 DEF LoadedInv, Running, Takes
  <2> QED  BY <1>8, <2>3, <2>4, <2>5 DEF DnsInv, Good, Apart, IsRow, Spoken
<1>11. CASE ~crowd
  <2>1. crowded' = crowded /\ \A v \in Others(w) : errand'[v] = errand[v]
    BY <1>1, <1>5, <1>7, <1>11
  <2>2. \A v \in Others(w) : ~Underway(v) /\ ~Underway(v)' /\ errand'[v].at = "rest"
    BY <1>1, <1>11, <2>1 DEF Underway
  <2>3. CrowdInv' /\ AloneInv'
    BY <2>2 DEF CrowdInv, AloneInv, Others
  <2>4. Carried(w)'
    BY <1>1, <1>2, <1>3, <1>5 DEF Carried
  <2>5. Served(w)'
    <3>1. started.ran # None => TRUE \in Takes(started.ran.conf) /\ started.ran.conf # Torn
      <4>1. served = Loaded => served.conf = etc.conf
        BY DEF Loaded
      <4> QED  BY <1>2, <1>3, <4>1 DEF LoadedInv
    <3>2. Loaded' = Loaded /\ (Running' <=> Running)
      BY <1>1 DEF Loaded, Running
    <3> QED  BY <1>1, <1>2, <1>3, <1>5, <3>1, <3>2 DEF Served
  <2>6. \A v \in Workers : Own(v)'
    <3>1. Own(w)'
      BY <1>9, <2>4, <2>5 DEF Own
    <3>2. \A v \in Others(w) : Own(v)'
      BY <1>9, <2>2 DEF Own, Alone, Others
    <3> QED  BY <3>1, <3>2 DEF Others
  <2>7. LoadedInv' /\ WholeInv'
    BY <1>1, <2>1 DEF DnsInv, LoadedInv, WholeInv, Running, Takes
  <2> QED  BY <1>8, <2>3, <2>6, <2>7 DEF DnsInv, Good, Apart, IsRow, Spoken
<1> QED  BY <1>10, <1>11

\* The rule that is read back has the id of one that is there, or of the new one.
LEMMA AddedIdIsNat ==
  ASSUME NEW table, Good(table), NEW kind, NEW domain
  PROVE  AddedId(table, NextId(table), kind, domain) \in Nat
<1> DEFINE same == Existing(table, kind, domain)
<1>1. CASE same # {}
  <2>1. (CHOOSE r \in same : TRUE) \in table
    BY <1>1 DEF Existing, OfKind
  <2> QED  BY <1>1, <2>1 DEF AddedId, Good, IsRow
<1>2. CASE same = {}
  BY <1>2, NextIdIsNew DEF AddedId
<1> QED  BY <1>1, <1>2

LEMMA RequestsPreserve ==
  ASSUME DnsInv, NEW w \in Workers, DnsRequest(w), Good(rules')
  PROVE  DnsInv'
<1>1. Good(rules) /\ Spoken(rules)
  BY DEF DnsInv
<1>2. CASE Add(w)
  <2>1. PICK kind \in {"domain", "fallback"}, domain \in Domains, address \in Addresses :
          /\ rules' = AddRule(rules, NextId(rules), kind, domain, address)
          /\ Begin(w, [NoErrand EXCEPT !.at = "list", !.op = "add",
                                       !.id = AddedId(rules, NextId(rules), kind, domain)])
    BY <1>2 DEF Add
  <2> DEFINE id     == AddedId(rules, NextId(rules), kind, domain)
             record == [NoErrand EXCEPT !.at = "list", !.op = "add", !.id = id]
  <2>2. id \in Nat
    BY <1>1, AddedIdIsNat
  <2>3. record \in Errand /\ record.at = "list"
    <3> HIDE DEF id
    <3> QED  BY <2>2, Rests DEF Errand
  <2>4. Spoken(rules')
    BY <1>1, <2>1, SpokenAdded
  <2>5. Begin(w, record)
    BY <2>1
  <2> HIDE DEF record
  <2> QED  BY <2>3, <2>4, <2>5, BeginPreserves
<1>3. CASE Delete(w)
  <2> DEFINE record == [NoErrand EXCEPT !.at = "list", !.op = "delete"]
  <2>1. Spoken(rules') /\ Begin(w, record)
    BY <1>1, <1>3 DEF Delete, DeleteRule, Spoken
  <2>2. record \in Errand /\ record.at = "list"
    BY Rests DEF Errand
  <2> HIDE DEF record
  <2> QED  BY <2>1, <2>2, BeginPreserves
<1>4. CASE MoveRule(w)
  <2> DEFINE record == [NoErrand EXCEPT !.at = "list", !.op = "move"]
  <2>1. Begin(w, record)
    BY <1>4 DEF MoveRule
  <2>2. Spoken(rules')
    <3>1. PICK rule \in OfKind(rules, "fallback"), direction \in {"up", "down"} :
            rules' = MoveFallback(rules, rule, direction)
      BY <1>4 DEF MoveRule
    <3> QED  BY <1>1, <3>1, SpokenMoved
  <2>3. record \in Errand /\ record.at = "list"
    BY Rests DEF Errand
  <2> HIDE DEF record
  <2> QED  BY <2>1, <2>2, <2>3, BeginPreserves
<1>5. CASE Import(w)
  <2> DEFINE lines  == Parse(etc.legacy).rules
             record == [NoErrand EXCEPT !.at = "import", !.op = "import", !.lines = lines]
  <2>1. Begin(w, record) /\ rules' = rules /\ etc.legacy # Absent
    BY <1>5 DEF Import
  <2>2. etc.legacy \in Seq(Line)
    BY <2>1, DnsAssumption DEF DnsInv, DnsTyped
  <2>3. lines \in Seq(Line) /\ \A i \in DOMAIN lines : Understood(lines[i])
    BY <2>2, ParsedLines
  <2>4. record \in Errand /\ record.at = "import" /\ record.lines = lines
    <3> HIDE DEF lines
    <3> QED  BY <2>3, Rests DEF Errand
  <2> HIDE DEF record, lines
  <2> QED  BY <1>1, <2>1, <2>3, <2>4, BeginPreserves
<1> QED  BY <1>2, <1>3, <1>4, <1>5 DEF DnsRequest

\* One rule more of those that are imported.
LEMMA ImportPreserves ==
  ASSUME DnsInv, NEW w \in Workers, ImportNext(w), Good(rules')
  PROVE  DnsInv'
<1> DEFINE lines == errand[w].lines
<1>1. errand[w].at = "import" /\ UNCHANGED <<staging, etc, served, root, crowded>>
  BY DEF ImportNext, OnErrand
<1>2. /\ DnsTyped /\ Good(rules) /\ Spoken(rules) /\ Own(w) /\ Helped(w) /\ errand[w] \in Errand
      /\ root[w].at = "none" /\ staging.at[w] = "closed" /\ staging \in Staged /\ Underway(w)
      /\ LoadedInv /\ WholeInv
  BY <1>1, WorkerFacts DEF Helped, Underway, Helper
<1>3. ASSUME NEW record \in Errand, record.at \in {"list", "import"}, record.ran = errand[w].ran,
             record.mixed = errand[w].mixed,
             record.at = "import" => \A i \in DOMAIN record.lines : Understood(record.lines[i]),
             Move(w, record), Spoken(rules')
      PROVE  DnsInv'
  <2>1. /\ errand' \in [Workers -> Errand] /\ errand'[w] = record
        /\ \A v \in Others(w) : errand'[v] = errand[v]
    BY <1>2, <1>3 DEF Move, DnsTyped, Others
  <2>2. Steps(w) /\ DnsTyped' /\ Helped(w)'
    BY <1>1, <1>2, <1>3, <2>1 DEF Steps, DnsTyped, Helped
  <2>3. Carried(w)'
    BY <1>1, <1>2, <1>3, <2>1 DEF Carried
  <2>4. ~errand'[w].mixed => Served(w)'
    <3> SUFFICES ASSUME ~errand'[w].mixed PROVE Served(w)'
      OBVIOUS
    <3>1. Served(w)
      BY <1>1, <1>2, <1>3, <2>1 DEF Own
    <3>2. Loaded' = Loaded /\ (Running' <=> Running)
      BY <1>1 DEF Loaded, Running
    <3> QED  BY <1>1, <1>2, <1>3, <2>1, <3>1, <3>2 DEF Served
  <2>5. LoadedInv' /\ WholeInv'
    BY <1>1, <1>2 DEF LoadedInv, WholeInv, Running, Takes
  <2> QED  BY <1>3, <2>2, <2>3, <2>4, <2>5, StepPreserves DEF Own
<1>4. CASE lines = <<>>
  <2> DEFINE record == [errand[w] EXCEPT !.at = "list"]
  <2>1. Move(w, record) /\ rules' = rules
    BY <1>4 DEF ImportNext, Come
  <2>2. /\ record \in Errand /\ record.at = "list" /\ record.ran = errand[w].ran
        /\ record.mixed = errand[w].mixed
    BY <1>2 DEF Errand
  <2> HIDE DEF record
  <2> QED  BY <1>2, <1>3, <2>1, <2>2
<1>5. CASE lines # <<>>
  <2> DEFINE import == Importing(rules, NextId(rules), Head(lines))
             record == [errand[w] EXCEPT !.lines = Tail(lines)]
  <2>1. /\ lines \in Seq(Line) /\ Head(lines) \in Line /\ Understood(Head(lines))
        /\ Tail(lines) \in Seq(Line) /\ \A i \in DOMAIN Tail(lines) : Understood(Tail(lines)[i])
    <3>1. lines \in Seq(Line) /\ \A i \in DOMAIN lines : Understood(lines[i])
      BY <1>1, <1>2 DEF Helped, Errand
    <3> HIDE DEF lines
    <3>2. /\ Len(lines) \in Nat /\ DOMAIN lines = 1 .. Len(lines) /\ Len(lines) # 0
          /\ Head(lines) = lines[1] /\ Tail(lines) \in Seq(Line)
      BY <1>5, <3>1
    <3>3. \A i \in DOMAIN Tail(lines) : i + 1 \in DOMAIN lines /\ Tail(lines)[i] = lines[i + 1]
      BY <1>5, <3>1
    <3>4. 1 \in DOMAIN lines
      BY <3>2
    <3> QED  BY <3>1, <3>2, <3>3, <3>4
  <2>2. CASE import.refused
    <3>1. Move(w, NoErrand) /\ rules' = rules
      BY <1>5, <2>2 DEF ImportNext
    <3> QED  BY <1>1, <1>2, <3>1, LeavingPreserves
  <2>3. CASE ~import.refused
    <3>1. Move(w, record) /\ rules' = import.rules
      BY <1>5, <2>3 DEF ImportNext
    <3>2. /\ record \in Errand /\ record.at = "import" /\ record.lines = Tail(lines)
          /\ record.ran = errand[w].ran /\ record.mixed = errand[w].mixed
      <4> HIDE DEF lines
      <4> QED  BY <1>1, <1>2, <2>1 DEF Errand
    <3>3. PICK line \in Line : line = Head(lines)
      BY <2>1
    <3>4. rules' = AddRule(rules, NextId(rules), line.shape, line.domain, line.address)
      BY <3>1, <3>3 DEF Importing
    <3>5. /\ line.shape \in {"domain", "fallback"} /\ line.address \in Addresses
          /\ line.shape = "domain" => line.domain \in Domains
      BY <2>1, <3>3 DEF Understood
    <3>6. PICK id : id = NextId(rules)
      OBVIOUS
    <3>7. Spoken(rules')
      BY <1>2, <3>4, <3>5, <3>6, SpokenAdded
    <3> HIDE DEF record, lines
    <3> QED  BY <1>3, <2>1, <3>1, <3>2, <3>7
  <2> QED  BY <2>2, <2>3
<1> QED  BY <1>4, <1>5

-----------------------------------------------------------------------------
(* What happens around them, and the theorems.                             *)

LEMMA DnsStepPreserves ==
  ASSUME DnsInv, NEW w \in Workers, DnsStep(w), Good(rules')
  PROVE  DnsInv'
BY EndingPreserves, ListPreserves, OpenPreserves, WritePreserves, PublishPreserves, StagingFailsPreserves,
   RunPreserves, InstallPreserves, KeepPreserves, SwapPreserves, AsidePreserves, RestartDnsPreserves,
   UndoPreserves, RevivePreserves, ImportPreserves
   DEF DnsStep

\* The service or the machine is restarted: nobody is under way.
LEMMA EndOfAllPreserves ==
  ASSUME DnsInv, errand' = [w \in Workers |-> NoErrand], root' = [w \in Workers |-> NoHelper],
         staging' = Disk!Orphaned(staging), UNCHANGED <<rules, etc, crowded>>, LoadedInv'
  PROVE  DnsInv'
<1>1. staging \in Staged /\ DnsTyped
  BY DEF DnsInv, DnsTyped
<1>2. /\ staging' \in Staged /\ staging'.final = staging.final
      /\ \A w \in Workers : staging'.at[w] = "closed"
  BY <1>1, OrphanedStaging
<1>3. /\ errand' \in [Workers -> Errand] /\ root' \in [Workers -> Helper]
      /\ \A w \in Workers : errand'[w].at = "rest" /\ root'[w].at = "none"
  BY Rests
<1>4. DnsTyped'
  BY <1>1, <1>2, <1>3 DEF DnsTyped
<1>5. CrowdInv' /\ AloneInv'
  BY <1>3 DEF CrowdInv, AloneInv, Underway
<1>6. \A w \in Workers : Own(w)'
  BY <1>2, <1>3 DEF Own, Alone, Helped
<1>7. WholeInv'
  BY <1>2 DEF DnsInv, WholeInv
<1> QED  BY <1>4, <1>5, <1>6, <1>7 DEF DnsInv, Good, Apart, IsRow, Spoken

\* dnsmasq is started or stopped: what it runs on it has taken.
LEMMA StartedInv ==
  ASSUME served' \in Starts \union {Stopped}, UNCHANGED etc
  PROVE  LoadedInv'
<1>1. served' = Stopped \/ served' = Failed \/ (served' = Loaded /\ TRUE \in Takes(etc.conf))
  BY WhatStarts
<1>2. Loaded.conf = etc.conf
  BY DEF Loaded
<1>3. Running' => TRUE \in Takes(served'.conf)
  BY <1>1, <1>2 DEF Running
<1> QED  BY <1>3 DEF LoadedInv

LEMMA DnsByHandPreserves ==
  ASSUME DnsInv, DnsmasqByHand
  PROVE  DnsInv'
<1>1. /\ errand' = Interfered(errand) /\ UNCHANGED <<rules, staging, etc, root, crowded>>
      /\ served' \in Starts \union {Stopped}
  BY DEF DnsmasqByHand
<1>2. \A w \in Workers : /\ errand[w] \in Errand /\ [errand[w] EXCEPT !.mixed = TRUE] \in Errand
                         /\ [errand[w] EXCEPT !.mixed = TRUE].at = errand[w].at
                         /\ [errand[w] EXCEPT !.mixed = TRUE].lines = errand[w].lines
                         /\ [errand[w] EXCEPT !.mixed = TRUE].text = errand[w].text
                         /\ [errand[w] EXCEPT !.mixed = TRUE].mixed = TRUE
  <2>1. \A w \in Workers : errand[w] \in Errand
    BY DEF DnsInv, DnsTyped
  <2> QED  BY <2>1 DEF Errand
<1>3. /\ errand' \in [Workers -> Errand]
      /\ \A w \in Workers : /\ errand'[w].at = errand[w].at /\ errand'[w].lines = errand[w].lines
                            /\ errand'[w].text = errand[w].text
                            /\ errand[w].at # "rest" => errand'[w].mixed
  BY <1>1, <1>2 DEF Interfered
<1>4. DnsTyped'
  BY <1>1, <1>3 DEF DnsInv, DnsTyped
<1>5. CrowdInv' /\ AloneInv'
  BY <1>1, <1>3 DEF DnsInv, CrowdInv, AloneInv, Underway
<1>6. ASSUME NEW w \in Workers PROVE Own(w)'
  <2>1. Own(w)
    BY DEF DnsInv
  <2>2. Helped(w)'
    BY <1>1, <1>3, <2>1 DEF Own, Helped
  <2>3. Alone(w)' => Carried(w)'
    <3> SUFFICES ASSUME Alone(w)' PROVE Carried(w)'
      OBVIOUS
    <3>1. Alone(w)
      BY <1>1, <1>3 DEF Alone
    <3>2. Carried(w)
      BY <2>1, <3>1 DEF Own
    <3> QED  BY <1>1, <1>3, <3>2 DEF Carried
  <2> QED  BY <1>3, <2>2, <2>3 DEF Own
<1>7. LoadedInv'
  BY <1>1, StartedInv
<1>8. WholeInv'
  BY <1>1 DEF DnsInv, WholeInv
<1> QED  BY <1>1, <1>4, <1>5, <1>6, <1>7, <1>8 DEF DnsInv, Good, Apart, IsRow, Spoken

LEMMA DnsBegins == Init => DnsInv
<1> SUFFICES ASSUME Init PROVE DnsInv
  OBVIOUS
<1>1. /\ crowded = FALSE /\ served = Loaded
      /\ errand = [w \in Workers |-> NoErrand] /\ root = [w \in Workers |-> NoHelper]
  BY DEF Init, DnsInit
<1>2. PICK content \in Text, legacy \in Text :
        /\ staging = Disk!Fresh(Workers, content)
        /\ etc = [conf |-> content, tmp |-> Absent, previous |-> Absent, legacy |-> legacy]
        /\ legacy \in Legacies \union {Absent} /\ content \notin {Empty, Torn}
        /\ TRUE \in Takes(content) /\ Spoken(rules)
  <2>1. CASE /\ rules = {} /\ staging = Disk!Fresh(Workers, Absent)
             /\ \E legacy \in Legacies :
                  etc = [conf |-> Absent, tmp |-> Absent, previous |-> Absent, legacy |-> legacy]
    <3>1. PICK legacy \in Legacies :
            etc = [conf |-> Absent, tmp |-> Absent, previous |-> Absent, legacy |-> legacy]
      BY <2>1
    <3>2. legacy \in Text /\ Absent \in Text /\ Absent \notin {Empty, Torn}
      BY DnsAssumption DEF Text
    <3>3. TRUE \in Takes(Absent)
      BY DnsAssumption DEF Takes
    <3>4. Spoken(rules)
      BY <2>1 DEF Spoken
    <3> QED  BY <2>1, <3>1, <3>2, <3>3, <3>4
  <2>2. ASSUME NEW d \in Domains, NEW a \in Addresses \ Disliked,
               rules = {Rule(1, "domain", d, a, None), Rule(2, "fallback", None, a, 0)},
               staging = Disk!Fresh(Workers, Render(rules)),
               etc = [conf |-> Render(rules), tmp |-> Absent, previous |-> Absent, legacy |-> Absent]
        PROVE  \E content \in Text, legacy \in Text :
                 /\ staging = Disk!Fresh(Workers, content)
                 /\ etc = [conf |-> content, tmp |-> Absent, previous |-> Absent, legacy |-> legacy]
                 /\ legacy \in Legacies \union {Absent} /\ content \notin {Empty, Torn}
                 /\ TRUE \in Takes(content) /\ Spoken(rules)
    <3> DEFINE A == Addresses \ Disliked
    <3>1. \A r \in rules : r.address \in A /\ (r.kind = "domain" => r.domain \in Domains)
      BY <2>2 DEF Rule
    <3>2. Good(rules)
      BY TableBegins
    <3>3. Render(rules) \in Seq({line \in Line : line.address \in A \union {None}})
      BY <3>1, <3>2, RenderedText
    <3>4. Spoken(rules)
      BY <3>1 DEF Spoken
    <3>5. Render(rules) \in Seq(Line) /\ Render(rules) \notin {Absent, Empty, Torn}
      BY <3>2, <3>4, RenderedLines DEF Spoken
    <3>6. \A i \in DOMAIN Render(rules) : Render(rules)[i].address \notin Disliked
      <4>1. \A x \in A \union {None} : x \notin Disliked
        BY DnsAssumption
      <4> HIDE DEF A
      <4> QED  BY <3>3, <4>1
    <3>7. TRUE \in Takes(Render(rules))
      BY <3>5, <3>6 DEF Takes
    <3>8. Render(rules) \in Text /\ Absent \in Text
      BY <3>5 DEF Text
    <3> QED  BY <2>2, <3>4, <3>5, <3>7, <3>8
  <2> QED  BY <2>1, <2>2 DEF Init, DnsInit
<1>3. /\ errand \in [Workers -> Errand] /\ root \in [Workers -> Helper]
      /\ \A w \in Workers : errand[w].at = "rest" /\ root[w].at = "none"
  BY <1>1, Rests
<1>4. staging \in Staged /\ staging.final \notin {Empty, Torn} /\ \A w \in Workers : staging.at[w] = "closed"
  BY <1>2 DEF Disk!Fresh, Staged, Text
<1>5. DnsTyped
  BY <1>1, <1>2, <1>3, <1>4 DEF DnsTyped, Text
<1>6. CrowdInv /\ AloneInv
  BY <1>3 DEF CrowdInv, AloneInv, Underway
<1>7. \A w \in Workers : Own(w)
  BY <1>3, <1>4 DEF Own, Alone, Helped
<1>8. LoadedInv
  BY <1>1, <1>2 DEF LoadedInv, Loaded
<1>9. WholeInv
  BY <1>2, <1>4, DnsAssumption DEF WholeInv
<1> QED  BY <1>2, <1>5, <1>6, <1>7, <1>8, <1>9, TableBegins DEF DnsInv

LEMMA DnsPreserved == DnsInv /\ [Next]_vars => DnsInv'
<1> SUFFICES ASSUME DnsInv, [Next]_vars PROVE DnsInv'
  OBVIOUS
<1>1. Good(rules')
  BY TableKept DEF DnsInv
<1>2. CASE UNCHANGED dnsVars
  <2>1. UNCHANGED <<rules, staging, etc, served, errand, root, crowded>>
    BY <1>2 DEF dnsVars
  <2>2. DnsTyped' /\ Spoken(rules)' /\ WholeInv' /\ LoadedInv'
    BY <2>1 DEF DnsInv, DnsTyped, Spoken, WholeInv, LoadedInv, Running, Takes
  <2>3. CrowdInv' /\ AloneInv'
    BY <2>1 DEF DnsInv, CrowdInv, AloneInv, Underway
  <2>4. \A w \in Workers : Own(w)'
    <3> TAKE w \in Workers
    <3>1. Own(w)
      BY DEF DnsInv
    <3>2. (Helped(w)' <=> Helped(w)) /\ (Alone(w)' <=> Alone(w)) /\ (Carried(w)' <=> Carried(w))
      BY <2>1 DEF Helped, Alone, Carried
    <3>3. Served(w)' <=> Served(w)
      BY <2>1 DEF Served, Running, Loaded, Takes
    <3> QED  BY <2>1, <3>1, <3>2, <3>3 DEF Own
  <2> QED  BY <1>1, <2>2, <2>3, <2>4 DEF DnsInv, Good, Apart, IsRow
<1>3. ASSUME NEW w \in Workers, AskDns(w) \/ AskFirewall(w) \/ Continue(w) PROVE DnsInv'
  <2>1. CASE AskDns(w)
    BY <1>1, <2>1, RequestsPreserve DEF AskDns
  <2>2. CASE AskFirewall(w)
    BY <1>2, <2>2 DEF AskFirewall
  <2>3. CASE Continue(w)
    BY <1>1, <1>2, <2>3, DnsStepPreserves DEF Continue
  <2> QED  BY <1>3, <2>1, <2>2, <2>3
<1>4. CASE Interference
  BY <1>2, <1>4, DnsByHandPreserves DEF Interference
<1>5. CASE ServiceRestart
  <2>1. DnsServiceRestart
    BY <1>5 DEF ServiceRestart
  <2>2. LoadedInv'
    BY <2>1 DEF DnsServiceRestart, DnsInv, LoadedInv, Running, Takes
  <2> QED  BY <2>1, <2>2, EndOfAllPreserves DEF DnsServiceRestart
<1>6. CASE Reboot
  <2>1. DnsReboot
    BY <1>6 DEF Reboot
  <2>2. LoadedInv'
    BY <2>1, StartedInv DEF DnsReboot
  <2> QED  BY <2>1, <2>2, EndOfAllPreserves DEF DnsReboot
<1>7. CASE UNCHANGED vars
  BY <1>2, <1>7 DEF vars
<1> QED  BY <1>3, <1>4, <1>5, <1>6, <1>7 DEF Next

\* The invariant the three theorems below rest on: the text of a request that is
\* alone goes unchanged from the table to the file, what dnsmasq ran on is kept until
\* it has taken the new one, and no file is torn before two have been at work at once.
THEOREM DnsInvariant == Spec => []DnsInv
BY DnsBegins, DnsPreserved, PTL DEF Spec

\* What a request says it has applied is what the table holds, what is installed and
\* what dnsmasq runs on, for any number of threads, rules and requests: unless another
\* one, or somebody's hand on dnsmasq, came in between.
THEOREM AppliedIsWhole == Spec => []AppliedWhole
<1>1. DnsInv => AppliedWhole
  BY DEF DnsInv, AppliedWhole, Own, Alone, Carried, Served, OnErrand
<1> QED  BY <1>1, DnsInvariant, PTL

\* A request that finds dnsmasq running on the installed files leaves it running on the
\* installed files, and one that was refused while no legacy file was there on the very
\* files from before, whatever rules dnsmasq refuses and wherever the helper gives up.
THEOREM ResolverSurvivesRequests == Spec => []ResolverSurvives
<1>1. DnsInv => ResolverSurvives
  BY DEF DnsInv, ResolverSurvives, Own, Served
<1> QED  BY <1>1, DnsInvariant, PTL

\* The installed file is whole wherever a request, the service or the machine is cut
\* off, until for the first time two are under way at once.
THEOREM InstalledFileIsWhole == Spec => []FileWhole
<1>1. DnsInv => FileWhole
  BY DEF DnsInv, WholeInv, FileWhole
<1> QED  BY <1>1, DnsInvariant, PTL
=============================================================================
