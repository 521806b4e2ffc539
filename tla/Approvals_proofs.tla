--------------------------- MODULE Approvals_proofs ---------------------------
(****************************************************************************)
(* Proofs that a permission request is decided at most once, that clients   *)
(* are told the truth of it and that only granted calls are labelled with   *)
(* it, for any number of requests, clients, option menus and tool calls;    *)
(* and that all of it is one decision, the one of DecisionRegister.         *)
(*                                                                          *)
(* DecidedOnce is not inductive: it says nothing of a request that has not  *)
(* been registered yet, and nothing rules out that a registered one is      *)
(* registered again or that an answered one is still being answered.        *)
(* Ledger adds that: a request is queued once, before its timer exists;     *)
(* everything else about it starts with its timer; and a request with an    *)
(* answer has left both the pending map and the "respond" stage.            *)
(****************************************************************************)
EXTENDS Approvals, SequenceTheorems, TLAPS

\* A queued request has been made and has no timer yet ...
QueueFresh == \A i \in DOMAIN queue : timer[queue[i]] = "off" /\ info[queue[i]] # No

\* ... and is queued once.
QueueOnce == \A i, j \in DOMAIN queue : queue[i] = queue[j] => i = j

\* A request that has not been made has no timer.
MadeFirst == \A r \in Requests : info[r] = No => timer[r] = "off"

\* Everything about a request starts with its timer.
TimerFirst ==
  /\ \A r \in pending : timer[r] # "off"
  /\ \A r \in Requests : answers[r] # << >> => timer[r] # "off"
  /\ pump # No => timer[pump] # "off"
  /\ \A c \in Clients : cmd[c].pc # "idle" => timer[cmd[c].r] # "off"
  /\ \A i \in DOMAIN events : timer[events[i].r] # "off"

\* An answered request has left the pending map and the "respond" stage.
AnsweredLeft ==
  \A r \in Requests : answers[r] # << >> =>
    r \notin pending /\ \A c \in Clients : cmd[c].pc = "respond" => cmd[c].r # r

\* A command in progress is about a request and has chosen an option.
Busy == \A c \in Clients : cmd[c].pc # "idle" => cmd[c].r \in Requests /\ cmd[c].id \in Ids

\* Nobody knows of the entry the pump has yet to insert, except its timer.
ArmingFresh == arming # No =>
  /\ pump = No /\ info[arming] # No /\ timer[arming] \in {"armed", "done"}
  /\ arming \notin pending /\ answers[arming] = << >>
  /\ \A c \in Clients : cmd[c].pc # "idle" => cmd[c].r # arming
  /\ \A i \in DOMAIN events : events[i].r # arming

Ledger ==
  /\ QueueFresh /\ QueueOnce /\ MadeFirst /\ TimerFirst /\ AnsweredLeft /\ Busy
  /\ ArmingFresh

Decides(c) == cmd[c].pc \in {"respond", "record", "emit"}

OneAnswer == \A r \in Requests : Len(answers[r]) <= 1

OneEvent ==
  \A i, j \in DOMAIN events :
    events[i].type = "resolved" /\ events[j].type = "resolved" /\ events[i].r = events[j].r
      => i = j

OneDecider ==
  \A c, d \in Clients : Decides(c) /\ Decides(d) /\ cmd[c].r = cmd[d].r => c = d

\* A request is in the hands of the map, of a client, of its timer, or resolved.
OneHolder ==
  /\ \A r \in pending : timer[r] # "emit"
  /\ \A c \in Clients : Decides(c) => cmd[c].r \notin pending /\ timer[cmd[c].r] # "emit"
  /\ \A i \in DOMAIN events : events[i].type = "resolved" =>
        /\ events[i].r \notin pending /\ timer[events[i].r] # "emit"
        /\ \A c \in Clients : Decides(c) => cmd[c].r # events[i].r

Single == OneAnswer /\ OneEvent /\ OneDecider /\ OneHolder

DecisionInv == TypeOK /\ Ledger /\ Single

-------------------------------------------------------------------------------
\* What Append does to the elements of a sequence.
LEMMA AppendElements ==
  ASSUME NEW S, NEW s \in Seq(S), NEW e \in S
  PROVE  /\ Append(s, e) \in Seq(S)
         /\ DOMAIN s = 1..Len(s) /\ Len(s) \in Nat
         /\ DOMAIN Append(s, e) = 1..(Len(s) + 1)
         /\ \A i \in 1..Len(s) : Append(s, e)[i] = s[i]
         /\ Append(s, e)[Len(s) + 1] = e
         /\ Append(s, e) # << >>
  OBVIOUS

\* The indexed form of the invariant is the property.
LEMMA SingleIsDecidedOnce == Single /\ Busy => DecidedOnce
  BY DEF Single, OneAnswer, OneEvent, OneDecider, OneHolder, Decides, DecidedOnce, Busy,
         Resolutions, Deciding

\* The invariant only reads the decision part of the state.
LEMMA DecisionFrame ==
  ASSUME Ledger, Single, UNCHANGED <<queue, info, arming, pump, pending, timer, cmd, answers, events>>
  PROVE  Ledger' /\ Single'
  BY DEF Ledger, QueueFresh, QueueOnce, MadeFirst, TimerFirst, AnsweredLeft, Busy, ArmingFresh,
         Single, OneAnswer, OneEvent, OneDecider, OneHolder, Decides

\* An option resolve_option returns is one of the agent's.
LEMMA ChosenIsId ==
  ASSUME NEW opts \in OptionLists, NEW explicit, NEW intent,
         ResolveOption(opts, explicit, intent) # No
  PROVE  ResolveOption(opts, explicit, intent) \in Ids
<1> DEFINE id == IF explicit # No THEN explicit ELSE PickOptionId(opts, intent)
<1>1. HasId(opts, id) /\ ResolveOption(opts, explicit, intent) = id
  BY DEF ResolveOption
<1>2. PICK i \in DOMAIN opts : opts[i].id = id
  BY <1>1 DEF HasId
<1>3. opts \in Seq(Options)
  BY OptionAssumption
<1>4. opts[i] \in Options
  BY <1>2, <1>3
<1>5. id \in Ids \cup {No} /\ id # No
  BY <1>1, <1>2, <1>4 DEF Options, HasId
<1> QED BY <1>1, <1>5

\* The initial state satisfies the invariant.
LEMMA InitDecision == Init => DecisionInv
<1> SUFFICES ASSUME Init PROVE DecisionInv
  OBVIOUS
<1>1. DecisionTypes
  BY NoAssumption DEF Init, DecisionTypes, Quiet, Commands, Stages, Intents, Events, Info
<1>2. CorrelationTypes
  BY NoAssumption DEF Init, CorrelationTypes, NoLook, Lookups
<1>3. Ledger
  BY NoAssumption DEF Init, Ledger, QueueFresh, QueueOnce, MadeFirst, TimerFirst,
       AnsweredLeft, Busy, ArmingFresh, Quiet
<1>4. Single
  BY NoAssumption DEF Init, Single, OneAnswer, OneEvent, OneDecider, OneHolder, Decides,
       Quiet
<1> QED BY <1>1, <1>2, <1>3, <1>4 DEF DecisionInv, TypeOK

\* Every step preserves it.
LEMMA NextDecision == DecisionInv /\ [Next]_vars => DecisionInv'
<1> SUFFICES ASSUME DecisionInv, [Next]_vars PROVE DecisionInv'
  OBVIOUS
<1> USE NoAssumption
<1>a. DecisionTypes /\ CorrelationTypes /\ Ledger /\ Single
  BY DEF DecisionInv, TypeOK
<1>1. ASSUME NEW r \in Requests, NEW opts \in OptionLists, NEW call \in Calls, AgentAsks(r, opts, call)
      PROVE  DecisionInv'
  <2> DEFINE q == [opts |-> opts, call |-> call, numbered |-> TRUE]
  <2>d. q \in Info /\ q # No
    <3>1. q \in Info
      BY DEF Info
    <3>2. No \notin Info
      BY NoAssumption DEF Info
    <3> QED BY <3>1, <3>2
  <2>c. info' = [info EXCEPT ![r] = q]
    BY <1>1 DEF AgentAsks
  <2> HIDE DEF q
  <2>e. /\ info' \in [Requests -> Info \cup {No}] /\ info'[r] # No
        /\ \A p \in Requests : p # r => info'[p] = info[p]
        /\ queue' \in Seq(Requests) /\ Len(queue) \in Nat
        /\ DOMAIN queue = 1..Len(queue) /\ DOMAIN queue' = 1..(Len(queue) + 1)
        /\ \A i \in 1..Len(queue) : queue'[i] = queue[i]
        /\ queue'[Len(queue) + 1] = r
    <3>1. queue \in Seq(Requests) /\ queue' = Append(queue, r)
      BY <1>a, <1>1 DEF AgentAsks, DecisionTypes
    <3>2. info \in [Requests -> Info \cup {No}]
      BY <1>a DEF DecisionTypes
    <3>3. /\ info' \in [Requests -> Info \cup {No}] /\ info'[r] # No
          /\ \A p \in Requests : p # r => info'[p] = info[p]
      BY <2>c, <2>d, <3>2
    <3> QED BY <3>1, <3>3, AppendElements
  <2>f. timer[r] = "off" /\ \A i \in DOMAIN queue : queue[i] # r
    BY <1>a, <1>1 DEF AgentAsks, Ledger, QueueFresh, MadeFirst
  <2>1. DecisionTypes'
    BY <1>a, <1>1, <2>e, <2>f DEF AgentAsks, DecisionTypes, Commands, Stages, Quiet,
         Intents, Ledger, Busy, decision
  <2>2. CorrelationTypes'
    BY <1>a, <1>1, <2>e, <2>f DEF AgentAsks, CorrelationTypes, cache, lookup
  <2>3. QueueFresh'
    BY <1>a, <1>1, <2>e, <2>f DEF AgentAsks, DecisionTypes, Commands, Quiet, Ledger,
         Single, QueueFresh, QueueOnce, decision
  <2>4. QueueOnce'
    BY <1>a, <1>1, <2>e, <2>f DEF AgentAsks, DecisionTypes, Commands, Quiet, Ledger,
         Single, QueueOnce, decision
  <2>5. MadeFirst'
    BY <1>a, <1>1, <2>e, <2>f DEF AgentAsks, DecisionTypes, Commands, Quiet, Ledger,
         Single, MadeFirst, decision
  <2>6. TimerFirst'
    BY <1>a, <1>1, <2>e, <2>f DEF AgentAsks, DecisionTypes, Commands, Quiet, Ledger,
         Single, TimerFirst, Busy, decision
  <2>7. AnsweredLeft'
    BY <1>a, <1>1, <2>e, <2>f DEF AgentAsks, DecisionTypes, Commands, Quiet, Ledger,
         Single, AnsweredLeft, OneHolder, OneDecider, Decides, Busy, decision
  <2>8. Busy'
    BY <1>a, <1>1, <2>e, <2>f DEF AgentAsks, DecisionTypes, Commands, Quiet, Ledger,
         Single, Busy, decision
  <2>9. OneAnswer'
    BY <1>a, <1>1, <2>e, <2>f DEF AgentAsks, DecisionTypes, Commands, Quiet, Ledger,
         Single, OneAnswer, decision
  <2>10. OneEvent'
    BY <1>a, <1>1, <2>e, <2>f DEF AgentAsks, DecisionTypes, Commands, Quiet, Ledger,
         Single, OneEvent, OneHolder, Decides, decision
  <2>11. OneDecider'
    BY <1>a, <1>1, <2>e, <2>f DEF AgentAsks, DecisionTypes, Commands, Quiet, Ledger,
         Single, OneDecider, OneHolder, Decides, Busy, decision
  <2>12. OneHolder'
    BY <1>a, <1>1, <2>e, <2>f DEF AgentAsks, DecisionTypes, Commands, Quiet, Ledger,
         Single, OneHolder, OneDecider, Decides, Busy, TimerFirst, decision
  <2>13. ArmingFresh'
    BY <1>a, <1>1, <2>e, <2>f DEF AgentAsks, DecisionTypes, Commands, Quiet, Ledger,
         Single, OneHolder, OneDecider, Decides, Busy, TimerFirst, decision,
         ArmingFresh, AnsweredLeft
  <2> QED BY <2>1, <2>2, <2>3, <2>4, <2>5, <2>6, <2>7, <2>8, <2>9, <2>10, <2>11,
       <2>12, <2>13 DEF DecisionInv, TypeOK, Ledger, Single
<1>2. ASSUME AgentExits
      PROVE  DecisionInv'
  <2>1. DecisionTypes'
    BY <1>a, <1>2 DEF AgentExits, DecisionTypes, Commands, Stages, Quiet, Intents, Ledger,
         Busy, decision
  <2>2. CorrelationTypes'
    BY <1>a, <1>2 DEF AgentExits, CorrelationTypes, cache, lookup
  <2>3. Ledger' /\ Single'
    BY <1>a, <1>2, DecisionFrame DEF AgentExits, decision
  <2> QED BY <2>1, <2>2, <2>3 DEF DecisionInv, TypeOK
<1>3. ASSUME SessionClose
      PROVE  DecisionInv'
  <2>1. DecisionTypes'
    BY <1>a, <1>3 DEF SessionClose, DecisionTypes, Commands, Stages, Quiet, Intents,
         Ledger, Busy, decision
  <2>2. CorrelationTypes'
    BY <1>a, <1>3 DEF SessionClose, CorrelationTypes, cache, lookup
  <2>3. Ledger' /\ Single'
    BY <1>a, <1>3, DecisionFrame DEF SessionClose, decision
  <2> QED BY <2>1, <2>2, <2>3 DEF DecisionInv, TypeOK
<1>4. ASSUME PumpArm
      PROVE  DecisionInv'
  <2> DEFINE r == Head(queue)
  <2>e. /\ DOMAIN queue = 1..Len(queue) /\ Len(queue) \in Nat \ {0} /\ r = queue[1]
        /\ r \in Requests /\ queue' \in Seq(Requests)
        /\ DOMAIN queue' = 1..(Len(queue) - 1)
        /\ \A i \in DOMAIN queue' : i + 1 \in DOMAIN queue /\ queue'[i] = queue[i + 1]
    BY <1>a, <1>4 DEF PumpArm, DecisionTypes
  <2>f. timer[r] = "off" /\ info[r] # No
    BY <1>a, <1>4, <2>e DEF Ledger, QueueFresh
  <2>g. \A i \in DOMAIN queue' : queue'[i] # r
    BY <1>a, <1>4, <2>e DEF Ledger, QueueOnce
  <2>1. DecisionTypes'
    BY <1>a, <1>4, <2>e, <2>f, <2>g DEF PumpArm, DecisionTypes, Commands, Stages,
         Quiet, Intents, Ledger, Busy, decision
  <2>2. CorrelationTypes'
    BY <1>a, <1>4, <2>e, <2>f, <2>g DEF PumpArm, CorrelationTypes, cache, lookup
  <2>3. QueueFresh'
    BY <1>a, <1>4, <2>e, <2>f, <2>g DEF PumpArm, DecisionTypes, Commands, Quiet,
         Ledger, Single, QueueFresh, QueueOnce, TimerFirst, MadeFirst, Busy, decision
  <2>4. QueueOnce'
    BY <1>a, <1>4, <2>e, <2>f, <2>g DEF PumpArm, DecisionTypes, Commands, Quiet,
         Ledger, Single, QueueOnce, TimerFirst, MadeFirst, Busy, decision
  <2>5. MadeFirst'
    BY <1>a, <1>4, <2>e, <2>f, <2>g DEF PumpArm, DecisionTypes, Commands, Quiet,
         Ledger, Single, MadeFirst, TimerFirst, Busy, decision
  <2>6. TimerFirst'
    BY <1>a, <1>4, <2>e, <2>f, <2>g DEF PumpArm, DecisionTypes, Commands, Quiet,
         Ledger, Single, TimerFirst, Busy, MadeFirst, decision
  <2>7. AnsweredLeft'
    BY <1>a, <1>4, <2>e, <2>f, <2>g DEF PumpArm, DecisionTypes, Commands, Quiet,
         Ledger, Single, AnsweredLeft, OneHolder, OneDecider, Decides, Busy, TimerFirst,
         MadeFirst, decision
  <2>8. Busy'
    BY <1>a, <1>4, <2>e, <2>f, <2>g DEF PumpArm, DecisionTypes, Commands, Quiet,
         Ledger, Single, Busy, TimerFirst, MadeFirst, decision
  <2>9. OneAnswer'
    BY <1>a, <1>4, <2>e, <2>f, <2>g DEF PumpArm, DecisionTypes, Commands, Quiet,
         Ledger, Single, OneAnswer, TimerFirst, MadeFirst, Busy, decision
  <2>10. OneEvent'
    BY <1>a, <1>4, <2>e, <2>f, <2>g DEF PumpArm, DecisionTypes, Commands, Quiet,
         Ledger, Single, OneEvent, OneHolder, Decides, TimerFirst, MadeFirst, Busy, decision
  <2>11. OneDecider'
    BY <1>a, <1>4, <2>e, <2>f, <2>g DEF PumpArm, DecisionTypes, Commands, Quiet,
         Ledger, Single, OneDecider, OneHolder, Decides, Busy, TimerFirst, MadeFirst,
         decision
  <2>12. OneHolder'
    BY <1>a, <1>4, <2>e, <2>f, <2>g DEF PumpArm, DecisionTypes, Commands, Quiet,
         Ledger, Single, OneHolder, OneDecider, Decides, Busy, TimerFirst, MadeFirst,
         decision
  <2>13. ArmingFresh'
    BY <1>a, <1>4, <2>e, <2>f, <2>g DEF PumpArm, DecisionTypes, Commands, Quiet,
         Ledger, Single, OneHolder, OneDecider, Decides, Busy, TimerFirst, MadeFirst,
         decision,
         ArmingFresh, AnsweredLeft
  <2> QED BY <2>1, <2>2, <2>3, <2>4, <2>5, <2>6, <2>7, <2>8, <2>9, <2>10, <2>11,
       <2>12, <2>13 DEF DecisionInv, TypeOK, Ledger, Single
<1>23. ASSUME PumpRegister
      PROVE  DecisionInv'
  <2>e. /\ arming \in Requests /\ pump' = arming /\ pending' = pending \cup {arming}
        /\ arming' = No /\ timer[arming] \in {"armed", "done"}
    BY <1>a, <1>23 DEF PumpRegister, DecisionTypes, Ledger, ArmingFresh
  <2>1. DecisionTypes'
    BY <1>a, <1>23, <2>e DEF PumpRegister, DecisionTypes, Commands, Stages,
         Quiet, Intents, Ledger, Busy, decision
  <2>2. CorrelationTypes'
    BY <1>a, <1>23, <2>e DEF PumpRegister, CorrelationTypes, cache, lookup
  <2>3. QueueFresh'
    BY <1>a, <1>23, <2>e DEF PumpRegister, DecisionTypes, Commands, Quiet,
         Ledger, Single, QueueFresh, QueueOnce, TimerFirst, ArmingFresh, MadeFirst, Busy, decision
  <2>4. QueueOnce'
    BY <1>a, <1>23, <2>e DEF PumpRegister, DecisionTypes, Commands, Quiet,
         Ledger, Single, QueueOnce, TimerFirst, ArmingFresh, MadeFirst, Busy, decision
  <2>5. MadeFirst'
    BY <1>a, <1>23, <2>e DEF PumpRegister, DecisionTypes, Commands, Quiet,
         Ledger, Single, MadeFirst, TimerFirst, Busy, decision
  <2>6. TimerFirst'
    BY <1>a, <1>23, <2>e DEF PumpRegister, DecisionTypes, Commands, Quiet,
         Ledger, Single, TimerFirst, Busy, MadeFirst, ArmingFresh, decision
  <2>7. AnsweredLeft'
    BY <1>a, <1>23, <2>e DEF PumpRegister, DecisionTypes, Commands, Quiet,
         Ledger, Single, AnsweredLeft, OneHolder, OneDecider, Decides, Busy, TimerFirst,
         MadeFirst, ArmingFresh, decision
  <2>8. Busy'
    BY <1>a, <1>23, <2>e DEF PumpRegister, DecisionTypes, Commands, Quiet,
         Ledger, Single, Busy, TimerFirst, ArmingFresh, MadeFirst, decision
  <2>9. OneAnswer'
    BY <1>a, <1>23, <2>e DEF PumpRegister, DecisionTypes, Commands, Quiet,
         Ledger, Single, OneAnswer, TimerFirst, ArmingFresh, MadeFirst, Busy, decision
  <2>10. OneEvent'
    BY <1>a, <1>23, <2>e DEF PumpRegister, DecisionTypes, Commands, Quiet,
         Ledger, Single, OneEvent, OneHolder, Decides, TimerFirst, ArmingFresh, MadeFirst, Busy, decision
  <2>11. OneDecider'
    BY <1>a, <1>23, <2>e DEF PumpRegister, DecisionTypes, Commands, Quiet,
         Ledger, Single, OneDecider, OneHolder, Decides, Busy, TimerFirst, ArmingFresh, MadeFirst,
         decision
  <2>12. OneHolder'
    BY <1>a, <1>23, <2>e DEF PumpRegister, DecisionTypes, Commands, Quiet,
         Ledger, Single, OneHolder, OneDecider, Decides, Busy, TimerFirst, ArmingFresh, MadeFirst,
         decision
  <2>13. ArmingFresh'
    BY <1>a, <1>23, <2>e DEF PumpRegister, DecisionTypes, Commands, Quiet,
         Ledger, Single, OneHolder, OneDecider, Decides, Busy, TimerFirst, ArmingFresh, MadeFirst,
         decision,
         ArmingFresh, AnsweredLeft
  <2> QED BY <2>1, <2>2, <2>3, <2>4, <2>5, <2>6, <2>7, <2>8, <2>9, <2>10, <2>11,
       <2>12, <2>13 DEF DecisionInv, TypeOK, Ledger, Single
<1>22. ASSUME NEW r \in Requests, NEW opts \in OptionLists, NEW call \in Calls,
              AgentAsksUnnumbered(r, opts, call)
      PROVE  DecisionInv'
  <2>e. [opts |-> opts, call |-> call, numbered |-> FALSE] \in Info
    BY DEF Info
  <2>f. /\ info' = [info EXCEPT ![r] = [opts |-> opts, call |-> call, numbered |-> FALSE]]
        /\ info[r] = No /\ info \in [Requests -> Info \cup {No}]
        /\ \A q \in Requests : info[q] # No => info'[q] # No
    BY <1>a, <1>22, <2>e DEF AgentAsksUnnumbered, DecisionTypes, Info
  <2>1. DecisionTypes'
    BY <1>a, <1>22, <2>e, <2>f DEF AgentAsksUnnumbered, DecisionTypes
  <2>2. CorrelationTypes'
    BY <1>a, <1>22 DEF AgentAsksUnnumbered, CorrelationTypes, cache, lookup
  <2>3. Ledger'
    <3>1. QueueFresh' /\ QueueOnce'
      BY <1>a, <1>22, <2>f DEF AgentAsksUnnumbered, DecisionTypes, Ledger, QueueFresh, QueueOnce
    <3>2. MadeFirst'
      BY <1>a, <1>22, <2>f DEF AgentAsksUnnumbered, Ledger, MadeFirst
    <3>3. TimerFirst' /\ AnsweredLeft' /\ Busy'
      BY <1>a, <1>22 DEF AgentAsksUnnumbered, Ledger, TimerFirst, AnsweredLeft, Busy
    <3>4. ArmingFresh'
      BY <1>a, <1>22, <2>f DEF AgentAsksUnnumbered, DecisionTypes, Ledger, ArmingFresh
    <3> QED BY <3>1, <3>2, <3>3, <3>4 DEF Ledger
  <2>4. Single'
    BY <1>a, <1>22 DEF AgentAsksUnnumbered, Single, OneAnswer, OneEvent, OneDecider, OneHolder,
         Decides
  <2> QED BY <2>1, <2>2, <2>3, <2>4 DEF DecisionInv, TypeOK
<1>5. ASSUME PumpEmit
      PROVE  DecisionInv'
  <2> DEFINE e == [type |-> "pending", r |-> pump, outcome |-> No]
  <2>e. e \in Events /\ events' = Append(events, e)
    BY <1>a, <1>5 DEF PumpEmit, DecisionTypes, Ledger, Busy, Events, Commands, Intents
  <2>f. /\ events' \in Seq(Events)
        /\ DOMAIN events = 1..Len(events) /\ Len(events) \in Nat
        /\ DOMAIN events' = 1..(Len(events) + 1)
        /\ \A i \in 1..Len(events) : events'[i] = events[i]
        /\ events'[Len(events) + 1] = e
        /\ e.r = pump /\ e.type = "pending"
    BY <1>a, <2>e, AppendElements DEF DecisionTypes
  <2> HIDE DEF e
  <2>1. DecisionTypes'
    BY <1>a, <1>5, <2>e, <2>f DEF PumpEmit, DecisionTypes, Commands, Stages, Quiet,
         Intents, Ledger, Busy, decision
  <2>2. CorrelationTypes'
    BY <1>a, <1>5, <2>e, <2>f DEF PumpEmit, CorrelationTypes, cache, lookup
  <2>3. QueueFresh'
    BY <1>a, <1>5, <2>e, <2>f DEF PumpEmit, DecisionTypes, Commands, Quiet, Ledger,
         Single, QueueFresh, QueueOnce, decision
  <2>4. QueueOnce'
    BY <1>a, <1>5, <2>e, <2>f DEF PumpEmit, DecisionTypes, Commands, Quiet, Ledger,
         Single, QueueOnce, decision
  <2>5. MadeFirst'
    BY <1>a, <1>5, <2>e, <2>f DEF PumpEmit, DecisionTypes, Commands, Quiet, Ledger,
         Single, MadeFirst, decision
  <2>t. \A i \in DOMAIN events' : timer[events'[i].r] # "off"
    BY <1>a, <1>5, <2>e, <2>f DEF PumpEmit, Ledger, TimerFirst
  <2>6. TimerFirst'
    BY <1>a, <1>5, <2>e, <2>f, <2>t DEF PumpEmit, Ledger, TimerFirst
  <2>7. AnsweredLeft'
    BY <1>a, <1>5, <2>e, <2>f DEF PumpEmit, DecisionTypes, Commands, Quiet, Ledger,
         Single, AnsweredLeft, OneHolder, OneDecider, Decides, Busy, decision
  <2>8. Busy'
    BY <1>a, <1>5, <2>e, <2>f DEF PumpEmit, DecisionTypes, Commands, Quiet, Ledger,
         Single, Busy, decision
  <2>9. OneAnswer'
    BY <1>a, <1>5, <2>e, <2>f DEF PumpEmit, DecisionTypes, Commands, Quiet, Ledger,
         Single, OneAnswer, decision
  <2>10. OneEvent'
    BY <1>a, <1>5, <2>e, <2>f DEF PumpEmit, DecisionTypes, Commands, Quiet, Ledger,
         Single, OneEvent, OneHolder, Decides, decision
  <2>11. OneDecider'
    BY <1>a, <1>5, <2>e, <2>f DEF PumpEmit, DecisionTypes, Commands, Quiet, Ledger,
         Single, OneDecider, OneHolder, Decides, Busy, decision
  <2>12. OneHolder'
    BY <1>a, <1>5, <2>e, <2>f DEF PumpEmit, DecisionTypes, Commands, Quiet, Ledger,
         Single, OneHolder, OneDecider, Decides, Busy, TimerFirst, decision
  <2>13. ArmingFresh'
    BY <1>a, <1>5, <2>e, <2>f DEF PumpEmit, DecisionTypes, Commands, Quiet, Ledger,
         Single, OneHolder, OneDecider, Decides, Busy, TimerFirst, decision,
         ArmingFresh, AnsweredLeft
  <2> QED BY <2>1, <2>2, <2>3, <2>4, <2>5, <2>6, <2>7, <2>8, <2>9, <2>10, <2>11,
       <2>12, <2>13 DEF DecisionInv, TypeOK, Ledger, Single
<1>6. ASSUME NEW r \in Requests, TimerFire(r)
      PROVE  DecisionInv'
  <2>e. answers[r] = << >> /\ r \in Requests
    BY <1>a, <1>6 DEF TimerFire, DecisionTypes, Ledger, AnsweredLeft, Busy
  <2>f. /\ answers' \in [Requests -> Seq(Ids \cup {Cancelled})]
        /\ Len(answers'[r]) <= 1
        /\ \A q \in Requests : q # r => answers'[q] = answers[q]
    BY <1>a, <1>6, <2>e DEF TimerFire, Respond, Cancelled, DecisionTypes, Ledger, Busy,
         Commands
  <2>1. DecisionTypes'
    BY <1>a, <1>6, <2>e, <2>f DEF TimerFire, Respond, Cancelled, DecisionTypes, Commands,
         Stages, Quiet, Intents, Ledger, Busy, decision
  <2>2. CorrelationTypes'
    BY <1>a, <1>6, <2>e, <2>f DEF TimerFire, Respond, Cancelled, CorrelationTypes, cache,
         lookup
  <2>3. QueueFresh'
    BY <1>a, <1>6, <2>e, <2>f DEF TimerFire, Respond, Cancelled, DecisionTypes, Commands,
         Quiet, Ledger, Single, QueueFresh, QueueOnce, TimerFirst, MadeFirst, Busy, decision
  <2>4. QueueOnce'
    BY <1>a, <1>6, <2>e, <2>f DEF TimerFire, Respond, Cancelled, DecisionTypes, Commands,
         Quiet, Ledger, Single, QueueOnce, TimerFirst, MadeFirst, Busy, decision
  <2>5. MadeFirst'
    BY <1>a, <1>6, <2>e, <2>f DEF TimerFire, Respond, Cancelled, DecisionTypes, Commands,
         Quiet, Ledger, Single, MadeFirst, TimerFirst, Busy, decision
  <2>6. TimerFirst'
    BY <1>a, <1>6, <2>e, <2>f DEF TimerFire, Respond, Cancelled, DecisionTypes, Commands,
         Quiet, Ledger, Single, TimerFirst, Busy, MadeFirst, decision
  <2>7. AnsweredLeft'
    BY <1>a, <1>6, <2>e, <2>f DEF TimerFire, Respond, Cancelled, DecisionTypes, Commands,
         Quiet, Ledger, Single, AnsweredLeft, OneHolder, OneDecider, Decides, Busy,
         TimerFirst, MadeFirst, decision
  <2>8. Busy'
    BY <1>a, <1>6, <2>e, <2>f DEF TimerFire, Respond, Cancelled, DecisionTypes, Commands,
         Quiet, Ledger, Single, Busy, TimerFirst, MadeFirst, decision
  <2>9. OneAnswer'
    BY <1>a, <1>6, <2>e, <2>f DEF TimerFire, Respond, Cancelled, DecisionTypes, Commands,
         Quiet, Ledger, Single, OneAnswer, TimerFirst, MadeFirst, Busy, decision
  <2>10. OneEvent'
    BY <1>a, <1>6, <2>e, <2>f DEF TimerFire, Respond, Cancelled, DecisionTypes, Commands,
         Quiet, Ledger, Single, OneEvent, OneHolder, Decides, TimerFirst, MadeFirst, Busy,
         decision
  <2>11. OneDecider'
    BY <1>a, <1>6, <2>e, <2>f DEF TimerFire, Respond, Cancelled, DecisionTypes, Commands,
         Quiet, Ledger, Single, OneDecider, OneHolder, Decides, Busy, TimerFirst,
         MadeFirst, decision
  <2>12. OneHolder'
    BY <1>a, <1>6, <2>e, <2>f DEF TimerFire, Respond, Cancelled, DecisionTypes, Commands,
         Quiet, Ledger, Single, OneHolder, OneDecider, Decides, Busy, TimerFirst,
         MadeFirst, decision
  <2>13. ArmingFresh'
    BY <1>a, <1>6, <2>e, <2>f DEF TimerFire, Respond, Cancelled, DecisionTypes, Commands,
         Quiet, Ledger, Single, OneHolder, OneDecider, Decides, Busy, TimerFirst,
         MadeFirst, decision,
         ArmingFresh, AnsweredLeft
  <2> QED BY <2>1, <2>2, <2>3, <2>4, <2>5, <2>6, <2>7, <2>8, <2>9, <2>10, <2>11,
       <2>12, <2>13 DEF DecisionInv, TypeOK, Ledger, Single
<1>7. ASSUME NEW r \in Requests, TimerMiss(r)
      PROVE  DecisionInv'
  <2>1. DecisionTypes'
    BY <1>a, <1>7 DEF TimerMiss, DecisionTypes, Commands, Stages, Quiet, Intents, Ledger,
         Busy, decision
  <2>2. CorrelationTypes'
    BY <1>a, <1>7 DEF TimerMiss, CorrelationTypes, cache, lookup
  <2>3. QueueFresh'
    BY <1>a, <1>7 DEF TimerMiss, DecisionTypes, Commands, Quiet, Ledger, Single,
         QueueFresh, QueueOnce, TimerFirst, MadeFirst, Busy, decision
  <2>4. QueueOnce'
    BY <1>a, <1>7 DEF TimerMiss, DecisionTypes, Commands, Quiet, Ledger, Single,
         QueueOnce, TimerFirst, MadeFirst, Busy, decision
  <2>5. MadeFirst'
    BY <1>a, <1>7 DEF TimerMiss, DecisionTypes, Commands, Quiet, Ledger, Single,
         MadeFirst, TimerFirst, Busy, decision
  <2>6. TimerFirst'
    BY <1>a, <1>7 DEF TimerMiss, DecisionTypes, Commands, Quiet, Ledger, Single,
         TimerFirst, Busy, MadeFirst, decision
  <2>7. AnsweredLeft'
    BY <1>a, <1>7 DEF TimerMiss, DecisionTypes, Commands, Quiet, Ledger, Single,
         AnsweredLeft, OneHolder, OneDecider, Decides, Busy, TimerFirst, MadeFirst, decision
  <2>8. Busy'
    BY <1>a, <1>7 DEF TimerMiss, DecisionTypes, Commands, Quiet, Ledger, Single, Busy,
         TimerFirst, MadeFirst, decision
  <2>9. OneAnswer'
    BY <1>a, <1>7 DEF TimerMiss, DecisionTypes, Commands, Quiet, Ledger, Single,
         OneAnswer, TimerFirst, MadeFirst, Busy, decision
  <2>10. OneEvent'
    BY <1>a, <1>7 DEF TimerMiss, DecisionTypes, Commands, Quiet, Ledger, Single, OneEvent,
         OneHolder, Decides, TimerFirst, MadeFirst, Busy, decision
  <2>11. OneDecider'
    BY <1>a, <1>7 DEF TimerMiss, DecisionTypes, Commands, Quiet, Ledger, Single,
         OneDecider, OneHolder, Decides, Busy, TimerFirst, MadeFirst, decision
  <2>12. OneHolder'
    BY <1>a, <1>7 DEF TimerMiss, DecisionTypes, Commands, Quiet, Ledger, Single,
         OneHolder, OneDecider, Decides, Busy, TimerFirst, MadeFirst, decision
  <2>13. ArmingFresh'
    BY <1>a, <1>7 DEF TimerMiss, DecisionTypes, Commands, Quiet, Ledger, Single,
         OneHolder, OneDecider, Decides, Busy, TimerFirst, MadeFirst, decision,
         ArmingFresh, AnsweredLeft
  <2> QED BY <2>1, <2>2, <2>3, <2>4, <2>5, <2>6, <2>7, <2>8, <2>9, <2>10, <2>11,
       <2>12, <2>13 DEF DecisionInv, TypeOK, Ledger, Single
<1>8. ASSUME NEW r \in Requests, TimerEmit(r)
      PROVE  DecisionInv'
  <2> DEFINE e == [type |-> "resolved", r |-> r, outcome |-> "timeout"]
  <2>e. e \in Events /\ events' = Append(events, e)
    BY <1>a, <1>8 DEF TimerEmit, DecisionTypes, Ledger, Busy, Events, Commands, Intents
  <2>f. /\ events' \in Seq(Events)
        /\ DOMAIN events = 1..Len(events) /\ Len(events) \in Nat
        /\ DOMAIN events' = 1..(Len(events) + 1)
        /\ \A i \in 1..Len(events) : events'[i] = events[i]
        /\ events'[Len(events) + 1] = e
        /\ e.r = r /\ e.type = "resolved"
    BY <1>a, <2>e, AppendElements DEF DecisionTypes
  <2> HIDE DEF e
  <2>1. DecisionTypes'
    BY <1>a, <1>8, <2>e, <2>f DEF TimerEmit, DecisionTypes, Commands, Stages, Quiet,
         Intents, Ledger, Busy, decision
  <2>2. CorrelationTypes'
    BY <1>a, <1>8, <2>e, <2>f DEF TimerEmit, CorrelationTypes, cache, lookup
  <2>3. QueueFresh'
    BY <1>a, <1>8, <2>e, <2>f DEF TimerEmit, DecisionTypes, Commands, Quiet, Ledger,
         Single, QueueFresh, QueueOnce, TimerFirst, MadeFirst, Busy, decision
  <2>4. QueueOnce'
    BY <1>a, <1>8, <2>e, <2>f DEF TimerEmit, DecisionTypes, Commands, Quiet, Ledger,
         Single, QueueOnce, TimerFirst, MadeFirst, Busy, decision
  <2>5. MadeFirst'
    BY <1>a, <1>8, <2>e, <2>f DEF TimerEmit, DecisionTypes, Commands, Quiet, Ledger,
         Single, MadeFirst, TimerFirst, Busy, decision
  <2>6. TimerFirst'
    BY <1>a, <1>8, <2>e, <2>f DEF TimerEmit, DecisionTypes, Commands, Quiet, Ledger,
         Single, TimerFirst, Busy, MadeFirst, decision
  <2>7. AnsweredLeft'
    BY <1>a, <1>8, <2>e, <2>f DEF TimerEmit, DecisionTypes, Commands, Quiet, Ledger,
         Single, AnsweredLeft, OneHolder, OneDecider, Decides, Busy, TimerFirst,
         MadeFirst, decision
  <2>8. Busy'
    BY <1>a, <1>8, <2>e, <2>f DEF TimerEmit, DecisionTypes, Commands, Quiet, Ledger,
         Single, Busy, TimerFirst, MadeFirst, decision
  <2>9. OneAnswer'
    BY <1>a, <1>8, <2>e, <2>f DEF TimerEmit, DecisionTypes, Commands, Quiet, Ledger,
         Single, OneAnswer, TimerFirst, MadeFirst, Busy, decision
  <2>10. OneEvent'
    BY <1>a, <1>8, <2>e, <2>f DEF TimerEmit, DecisionTypes, Commands, Quiet, Ledger,
         Single, OneEvent, OneHolder, Decides, TimerFirst, MadeFirst, Busy, decision
  <2>11. OneDecider'
    BY <1>a, <1>8, <2>e, <2>f DEF TimerEmit, DecisionTypes, Commands, Quiet, Ledger,
         Single, OneDecider, OneHolder, Decides, Busy, TimerFirst, MadeFirst, decision
  <2>12. OneHolder'
    BY <1>a, <1>8, <2>e, <2>f DEF TimerEmit, DecisionTypes, Commands, Quiet, Ledger,
         Single, OneHolder, OneDecider, Decides, Busy, TimerFirst, MadeFirst, decision
  <2>13. ArmingFresh'
    BY <1>a, <1>8, <2>e, <2>f DEF TimerEmit, DecisionTypes, Commands, Quiet, Ledger,
         Single, OneHolder, OneDecider, Decides, Busy, TimerFirst, MadeFirst, decision,
         ArmingFresh, AnsweredLeft
  <2> QED BY <2>1, <2>2, <2>3, <2>4, <2>5, <2>6, <2>7, <2>8, <2>9, <2>10, <2>11,
       <2>12, <2>13 DEF DecisionInv, TypeOK, Ledger, Single
<1>9. ASSUME NEW r \in Requests, TtlPasses(r)
      PROVE  DecisionInv'
  <2>1. DecisionTypes'
    BY <1>a, <1>9 DEF TtlPasses, DecisionTypes, Commands, Stages, Quiet, Intents, Ledger,
         Busy, decision
  <2>2. CorrelationTypes'
    BY <1>a, <1>9 DEF TtlPasses, CorrelationTypes, Lookups, CallIds, cache, lookup,
         DecisionTypes, Ledger, Busy
  <2>3. Ledger' /\ Single'
    BY <1>a, <1>9, DecisionFrame DEF TtlPasses, decision
  <2> QED BY <2>1, <2>2, <2>3 DEF DecisionInv, TypeOK
<1>10. ASSUME NEW c \in Clients, NEW r \in Requests, NEW intent \in Intents, NEW explicit \in Ids \cup {No}, ResolveChoose(c, r, intent, explicit)
      PROVE  DecisionInv'
  <2>e. timer[r] # "off" /\ info[r] \in Info
    BY <1>a, <1>10 DEF ResolveChoose, Announced, DecisionTypes, Ledger, TimerFirst,
         MadeFirst
  <2> DEFINE id == ResolveOption(info[r].opts, explicit, intent)
  <2>f. /\ id \in Ids /\ r \in pending /\ cmd[c].pc = "idle"
        /\ cmd' = [cmd EXCEPT ![c] = [pc |-> "take", r |-> r, intent |-> intent, id |-> id]]
        /\ UNCHANGED <<decision, cache, lookup>>
    BY <1>a, <1>10, <2>e, ChosenIsId DEF ResolveChoose, Info
  <2> HIDE DEF id
  <2>1. DecisionTypes'
    BY <1>a, <2>e, <2>f DEF decision, cache, lookup, DecisionTypes, Commands, Stages,
         Quiet, Intents, Ledger, Busy, decision
  <2>2. CorrelationTypes'
    BY <1>a, <2>e, <2>f DEF decision, cache, lookup, CorrelationTypes, cache, lookup
  <2>3. QueueFresh'
    BY <1>a, <2>e, <2>f DEF decision, cache, lookup, DecisionTypes, Commands, Quiet,
         Ledger, Single, QueueFresh, QueueOnce, decision
  <2>4. QueueOnce'
    BY <1>a, <2>e, <2>f DEF decision, cache, lookup, DecisionTypes, Commands, Quiet,
         Ledger, Single, QueueOnce, decision
  <2>5. MadeFirst'
    BY <1>a, <2>e, <2>f DEF decision, cache, lookup, DecisionTypes, Commands, Quiet,
         Ledger, Single, MadeFirst, decision
  <2>6. TimerFirst'
    BY <1>a, <2>e, <2>f DEF decision, cache, lookup, DecisionTypes, Commands, Quiet,
         Ledger, Single, TimerFirst, Busy, decision
  <2>7. AnsweredLeft'
    BY <1>a, <2>e, <2>f DEF decision, cache, lookup, DecisionTypes, Commands, Quiet,
         Ledger, Single, AnsweredLeft, OneHolder, OneDecider, Decides, Busy, decision
  <2>8. Busy'
    BY <1>a, <2>e, <2>f DEF decision, cache, lookup, DecisionTypes, Commands, Quiet,
         Ledger, Single, Busy, decision
  <2>9. OneAnswer'
    BY <1>a, <2>e, <2>f DEF decision, cache, lookup, DecisionTypes, Commands, Quiet,
         Ledger, Single, OneAnswer, decision
  <2>10. OneEvent'
    BY <1>a, <2>e, <2>f DEF decision, cache, lookup, DecisionTypes, Commands, Quiet,
         Ledger, Single, OneEvent, OneHolder, Decides, decision
  <2>11. OneDecider'
    BY <1>a, <2>e, <2>f DEF decision, cache, lookup, DecisionTypes, Commands, Quiet,
         Ledger, Single, OneDecider, OneHolder, Decides, Busy, decision
  <2>12. OneHolder'
    BY <1>a, <2>e, <2>f DEF decision, cache, lookup, DecisionTypes, Commands, Quiet,
         Ledger, Single, OneHolder, OneDecider, Decides, Busy, TimerFirst, decision
  <2>13. ArmingFresh'
    BY <1>a, <2>e, <2>f DEF decision, cache, lookup, DecisionTypes, Commands, Quiet,
         Ledger, Single, OneHolder, OneDecider, Decides, Busy, TimerFirst, decision,
         ArmingFresh, AnsweredLeft
  <2> QED BY <2>1, <2>2, <2>3, <2>4, <2>5, <2>6, <2>7, <2>8, <2>9, <2>10, <2>11,
       <2>12, <2>13 DEF DecisionInv, TypeOK, Ledger, Single
<1>11. ASSUME NEW c \in Clients, ResolveTake(c)
      PROVE  DecisionInv'
  <2>1. DecisionTypes'
    BY <1>a, <1>11 DEF ResolveTake, Advance, DecisionTypes, Commands, Stages, Quiet,
         Intents, Ledger, Busy, decision
  <2>2. CorrelationTypes'
    BY <1>a, <1>11 DEF ResolveTake, Advance, CorrelationTypes, cache, lookup
  <2>3. QueueFresh'
    BY <1>a, <1>11 DEF ResolveTake, Advance, DecisionTypes, Commands, Quiet, Ledger,
         Single, QueueFresh, QueueOnce, decision
  <2>4. QueueOnce'
    BY <1>a, <1>11 DEF ResolveTake, Advance, DecisionTypes, Commands, Quiet, Ledger,
         Single, QueueOnce, decision
  <2>5. MadeFirst'
    BY <1>a, <1>11 DEF ResolveTake, Advance, DecisionTypes, Commands, Quiet, Ledger,
         Single, MadeFirst, decision
  <2>6. TimerFirst'
    BY <1>a, <1>11 DEF ResolveTake, Advance, DecisionTypes, Commands, Quiet, Ledger,
         Single, TimerFirst, Busy, decision
  <2>7. AnsweredLeft'
    BY <1>a, <1>11 DEF ResolveTake, Advance, DecisionTypes, Commands, Quiet, Ledger,
         Single, AnsweredLeft, OneHolder, OneDecider, Decides, Busy, decision
  <2>8. Busy'
    BY <1>a, <1>11 DEF ResolveTake, Advance, DecisionTypes, Commands, Quiet, Ledger,
         Single, Busy, decision
  <2>9. OneAnswer'
    BY <1>a, <1>11 DEF ResolveTake, Advance, DecisionTypes, Commands, Quiet, Ledger,
         Single, OneAnswer, decision
  <2>10. OneEvent'
    BY <1>a, <1>11 DEF ResolveTake, Advance, DecisionTypes, Commands, Quiet, Ledger,
         Single, OneEvent, OneHolder, Decides, decision
  <2>11. OneDecider'
    BY <1>a, <1>11 DEF ResolveTake, Advance, DecisionTypes, Commands, Quiet, Ledger,
         Single, OneDecider, OneHolder, Decides, Busy, decision
  <2>12. OneHolder'
    BY <1>a, <1>11 DEF ResolveTake, Advance, DecisionTypes, Commands, Quiet, Ledger,
         Single, OneHolder, OneDecider, Decides, Busy, TimerFirst, decision
  <2>13. ArmingFresh'
    BY <1>a, <1>11 DEF ResolveTake, Advance, DecisionTypes, Commands, Quiet, Ledger,
         Single, OneHolder, OneDecider, Decides, Busy, TimerFirst, decision,
         ArmingFresh, AnsweredLeft
  <2> QED BY <2>1, <2>2, <2>3, <2>4, <2>5, <2>6, <2>7, <2>8, <2>9, <2>10, <2>11,
       <2>12, <2>13 DEF DecisionInv, TypeOK, Ledger, Single
<1>12. ASSUME NEW c \in Clients, ResolveLost(c)
      PROVE  DecisionInv'
  <2>1. DecisionTypes'
    BY <1>a, <1>12 DEF ResolveLost, DecisionTypes, Commands, Stages, Quiet, Intents,
         Ledger, Busy, decision
  <2>2. CorrelationTypes'
    BY <1>a, <1>12 DEF ResolveLost, CorrelationTypes, cache, lookup
  <2>3. QueueFresh'
    BY <1>a, <1>12 DEF ResolveLost, DecisionTypes, Commands, Quiet, Ledger, Single,
         QueueFresh, QueueOnce, decision
  <2>4. QueueOnce'
    BY <1>a, <1>12 DEF ResolveLost, DecisionTypes, Commands, Quiet, Ledger, Single,
         QueueOnce, decision
  <2>5. MadeFirst'
    BY <1>a, <1>12 DEF ResolveLost, DecisionTypes, Commands, Quiet, Ledger, Single,
         MadeFirst, decision
  <2>6. TimerFirst'
    BY <1>a, <1>12 DEF ResolveLost, DecisionTypes, Commands, Quiet, Ledger, Single,
         TimerFirst, Busy, decision
  <2>7. AnsweredLeft'
    BY <1>a, <1>12 DEF ResolveLost, DecisionTypes, Commands, Quiet, Ledger, Single,
         AnsweredLeft, OneHolder, OneDecider, Decides, Busy, decision
  <2>8. Busy'
    BY <1>a, <1>12 DEF ResolveLost, DecisionTypes, Commands, Quiet, Ledger, Single, Busy,
         decision
  <2>9. OneAnswer'
    BY <1>a, <1>12 DEF ResolveLost, DecisionTypes, Commands, Quiet, Ledger, Single,
         OneAnswer, decision
  <2>10. OneEvent'
    BY <1>a, <1>12 DEF ResolveLost, DecisionTypes, Commands, Quiet, Ledger, Single,
         OneEvent, OneHolder, Decides, decision
  <2>11. OneDecider'
    BY <1>a, <1>12 DEF ResolveLost, DecisionTypes, Commands, Quiet, Ledger, Single,
         OneDecider, OneHolder, Decides, Busy, decision
  <2>12. OneHolder'
    BY <1>a, <1>12 DEF ResolveLost, DecisionTypes, Commands, Quiet, Ledger, Single,
         OneHolder, OneDecider, Decides, Busy, TimerFirst, decision
  <2>13. ArmingFresh'
    BY <1>a, <1>12 DEF ResolveLost, DecisionTypes, Commands, Quiet, Ledger, Single,
         OneHolder, OneDecider, Decides, Busy, TimerFirst, decision,
         ArmingFresh, AnsweredLeft
  <2> QED BY <2>1, <2>2, <2>3, <2>4, <2>5, <2>6, <2>7, <2>8, <2>9, <2>10, <2>11,
       <2>12, <2>13 DEF DecisionInv, TypeOK, Ledger, Single
<1>13. ASSUME NEW c \in Clients, ResolveRespond(c)
      PROVE  DecisionInv'
  <2>e. answers[cmd[c].r] = << >> /\ cmd[c].r \in Requests
    BY <1>a, <1>13 DEF ResolveRespond, DecisionTypes, Ledger, AnsweredLeft, Busy
  <2>f. /\ answers' \in [Requests -> Seq(Ids \cup {Cancelled})]
        /\ Len(answers'[cmd[c].r]) <= 1
        /\ \A q \in Requests : q # cmd[c].r => answers'[q] = answers[q]
    BY <1>a, <1>13, <2>e DEF ResolveRespond, Respond, Advance, DecisionTypes, Ledger,
         Busy, Commands
  <2>1. DecisionTypes'
    BY <1>a, <1>13, <2>e, <2>f DEF ResolveRespond, Respond, Advance, DecisionTypes,
         Commands, Stages, Quiet, Intents, Ledger, Busy, decision
  <2>2. CorrelationTypes'
    BY <1>a, <1>13, <2>e, <2>f DEF ResolveRespond, Respond, Advance, CorrelationTypes,
         cache, lookup
  <2>3. QueueFresh'
    BY <1>a, <1>13, <2>e, <2>f DEF ResolveRespond, Respond, Advance, DecisionTypes,
         Commands, Quiet, Ledger, Single, QueueFresh, QueueOnce, TimerFirst, Busy, decision
  <2>4. QueueOnce'
    BY <1>a, <1>13, <2>e, <2>f DEF ResolveRespond, Respond, Advance, DecisionTypes,
         Commands, Quiet, Ledger, Single, QueueOnce, decision
  <2>5. MadeFirst'
    BY <1>a, <1>13, <2>e, <2>f DEF ResolveRespond, Respond, Advance, DecisionTypes,
         Commands, Quiet, Ledger, Single, MadeFirst, TimerFirst, Busy, decision
  <2>6. TimerFirst'
    BY <1>a, <1>13, <2>e, <2>f DEF ResolveRespond, Respond, Advance, DecisionTypes,
         Commands, Quiet, Ledger, Single, TimerFirst, Busy, decision
  <2>7. AnsweredLeft'
    BY <1>a, <1>13, <2>e, <2>f DEF ResolveRespond, Respond, Advance, DecisionTypes,
         Commands, Quiet, Ledger, Single, AnsweredLeft, OneHolder, OneDecider, Decides,
         Busy, decision
  <2>8. Busy'
    BY <1>a, <1>13, <2>e, <2>f DEF ResolveRespond, Respond, Advance, DecisionTypes,
         Commands, Quiet, Ledger, Single, Busy, decision
  <2>9. OneAnswer'
    BY <1>a, <1>13, <2>e, <2>f DEF ResolveRespond, Respond, Advance, DecisionTypes,
         Commands, Quiet, Ledger, Single, OneAnswer, decision
  <2>10. OneEvent'
    BY <1>a, <1>13, <2>e, <2>f DEF ResolveRespond, Respond, Advance, DecisionTypes,
         Commands, Quiet, Ledger, Single, OneEvent, OneHolder, Decides, decision
  <2>11. OneDecider'
    BY <1>a, <1>13, <2>e, <2>f DEF ResolveRespond, Respond, Advance, DecisionTypes,
         Commands, Quiet, Ledger, Single, OneDecider, OneHolder, Decides, Busy, decision
  <2>12. OneHolder'
    BY <1>a, <1>13, <2>e, <2>f DEF ResolveRespond, Respond, Advance, DecisionTypes,
         Commands, Quiet, Ledger, Single, OneHolder, OneDecider, Decides, Busy,
         TimerFirst, decision
  <2>13. ArmingFresh'
    BY <1>a, <1>13, <2>e, <2>f DEF ResolveRespond, Respond, Advance, DecisionTypes,
         Commands, Quiet, Ledger, Single, OneHolder, OneDecider, Decides, Busy,
         TimerFirst, decision,
         ArmingFresh, AnsweredLeft
  <2> QED BY <2>1, <2>2, <2>3, <2>4, <2>5, <2>6, <2>7, <2>8, <2>9, <2>10, <2>11,
       <2>12, <2>13 DEF DecisionInv, TypeOK, Ledger, Single
<1>14. ASSUME NEW c \in Clients, ResolveUnreachable(c)
      PROVE  DecisionInv'
  <2>j. acks' \subseteq [c : Clients, r : Requests, id : Ids, ok : BOOLEAN]
    <3>1. acks' = acks \cup {[c |-> c, r |-> cmd[c].r, id |-> cmd[c].id, ok |-> FALSE]}
      BY <1>a, <1>14 DEF ResolveUnreachable
    <3>2. cmd[c].r \in Requests /\ cmd[c].id \in Ids
      BY <1>a, <1>14 DEF ResolveUnreachable, Ledger, Busy
    <3>3. [c |-> c, r |-> cmd[c].r, id |-> cmd[c].id, ok |-> FALSE]
            \in [c : Clients, r : Requests, id : Ids, ok : BOOLEAN]
      BY <1>14, <3>2
    <3> QED BY <1>a, <3>1, <3>3, Zenon DEF DecisionTypes
  <2>k. Quiet \in Commands
    BY DEF Quiet, Commands, Stages, Intents
  <2>1. DecisionTypes'
    BY <1>a, <1>14, <2>j, <2>k DEF ResolveUnreachable, DecisionTypes, Ledger, Busy, decision
  <2>2. CorrelationTypes'
    BY <1>a, <1>14 DEF ResolveUnreachable, CorrelationTypes, cache, lookup
  <2>3. QueueFresh'
    BY <1>a, <1>14 DEF ResolveUnreachable, DecisionTypes, Commands, Quiet, Ledger, Single,
         QueueFresh, QueueOnce, TimerFirst, MadeFirst, Busy, decision
  <2>4. QueueOnce'
    BY <1>a, <1>14 DEF ResolveUnreachable, DecisionTypes, Commands, Quiet, Ledger, Single,
         QueueOnce, TimerFirst, MadeFirst, Busy, decision
  <2>5. MadeFirst'
    BY <1>a, <1>14 DEF ResolveUnreachable, DecisionTypes, Commands, Quiet, Ledger, Single,
         MadeFirst, TimerFirst, Busy, decision
  <2>6. TimerFirst'
    BY <1>a, <1>14 DEF ResolveUnreachable, DecisionTypes, Commands, Quiet, Ledger, Single,
         TimerFirst, Busy, MadeFirst, decision
  <2>7. AnsweredLeft'
    BY <1>a, <1>14 DEF ResolveUnreachable, DecisionTypes, Commands, Quiet, Ledger, Single,
         AnsweredLeft, OneHolder, OneDecider, Decides, Busy, TimerFirst, MadeFirst, decision
  <2>8. Busy'
    BY <1>a, <1>14 DEF ResolveUnreachable, DecisionTypes, Commands, Quiet, Ledger, Single,
         Busy, TimerFirst, MadeFirst, decision
  <2>9. OneAnswer'
    BY <1>a, <1>14 DEF ResolveUnreachable, DecisionTypes, Commands, Quiet, Ledger, Single,
         OneAnswer, TimerFirst, MadeFirst, Busy, decision
  <2>10. OneEvent'
    BY <1>a, <1>14 DEF ResolveUnreachable, DecisionTypes, Commands, Quiet, Ledger, Single,
         OneEvent, OneHolder, Decides, TimerFirst, MadeFirst, Busy, decision
  <2>11. OneDecider'
    BY <1>a, <1>14 DEF ResolveUnreachable, DecisionTypes, Commands, Quiet, Ledger, Single,
         OneDecider, OneHolder, Decides, Busy, TimerFirst, MadeFirst, decision
  <2>12. OneHolder'
    BY <1>a, <1>14 DEF ResolveUnreachable, DecisionTypes, Commands, Quiet, Ledger, Single,
         OneHolder, OneDecider, Decides, Busy, TimerFirst, MadeFirst, decision
  <2>13. ArmingFresh'
    BY <1>a, <1>14 DEF ResolveUnreachable, DecisionTypes, Commands, Quiet, Ledger, Single,
         OneHolder, OneDecider, Decides, Busy, TimerFirst, MadeFirst, decision,
         ArmingFresh, AnsweredLeft
  <2> QED BY <2>1, <2>2, <2>3, <2>4, <2>5, <2>6, <2>7, <2>8, <2>9, <2>10, <2>11,
       <2>12, <2>13 DEF DecisionInv, TypeOK, Ledger, Single
<1>15. ASSUME NEW c \in Clients, ResolveRecord(c)
      PROVE  DecisionInv'
  <2>1. DecisionTypes'
    BY <1>a, <1>15 DEF ResolveRecord, Advance, DecisionTypes, Commands, Stages, Quiet,
         Intents, Ledger, Busy, decision
  <2>2. CorrelationTypes'
    BY <1>a, <1>15 DEF ResolveRecord, Advance, CorrelationTypes, Lookups, CallIds, cache,
         lookup, DecisionTypes, Ledger, Busy
  <2>3. QueueFresh'
    BY <1>a, <1>15 DEF ResolveRecord, Advance, DecisionTypes, Commands, Quiet, Ledger,
         Single, QueueFresh, QueueOnce, decision
  <2>4. QueueOnce'
    BY <1>a, <1>15 DEF ResolveRecord, Advance, DecisionTypes, Commands, Quiet, Ledger,
         Single, QueueOnce, decision
  <2>5. MadeFirst'
    BY <1>a, <1>15 DEF ResolveRecord, Advance, DecisionTypes, Commands, Quiet, Ledger,
         Single, MadeFirst, decision
  <2>6. TimerFirst'
    BY <1>a, <1>15 DEF ResolveRecord, Advance, DecisionTypes, Commands, Quiet, Ledger,
         Single, TimerFirst, Busy, decision
  <2>7. AnsweredLeft'
    BY <1>a, <1>15 DEF ResolveRecord, Advance, DecisionTypes, Commands, Quiet, Ledger,
         Single, AnsweredLeft, OneHolder, OneDecider, Decides, Busy, decision
  <2>8. Busy'
    BY <1>a, <1>15 DEF ResolveRecord, Advance, DecisionTypes, Commands, Quiet, Ledger,
         Single, Busy, decision
  <2>9. OneAnswer'
    BY <1>a, <1>15 DEF ResolveRecord, Advance, DecisionTypes, Commands, Quiet, Ledger,
         Single, OneAnswer, decision
  <2>10. OneEvent'
    BY <1>a, <1>15 DEF ResolveRecord, Advance, DecisionTypes, Commands, Quiet, Ledger,
         Single, OneEvent, OneHolder, Decides, decision
  <2>11. OneDecider'
    BY <1>a, <1>15 DEF ResolveRecord, Advance, DecisionTypes, Commands, Quiet, Ledger,
         Single, OneDecider, OneHolder, Decides, Busy, decision
  <2>12. OneHolder'
    BY <1>a, <1>15 DEF ResolveRecord, Advance, DecisionTypes, Commands, Quiet, Ledger,
         Single, OneHolder, OneDecider, Decides, Busy, TimerFirst, decision
  <2>13. ArmingFresh'
    BY <1>a, <1>15 DEF ResolveRecord, Advance, DecisionTypes, Commands, Quiet, Ledger,
         Single, OneHolder, OneDecider, Decides, Busy, TimerFirst, decision,
         ArmingFresh, AnsweredLeft
  <2> QED BY <2>1, <2>2, <2>3, <2>4, <2>5, <2>6, <2>7, <2>8, <2>9, <2>10, <2>11,
       <2>12, <2>13 DEF DecisionInv, TypeOK, Ledger, Single
<1>16. ASSUME NEW c \in Clients, ResolveEmit(c)
      PROVE  DecisionInv'
  <2> DEFINE e == [type |-> "resolved", r |-> cmd[c].r, outcome |-> Label(cmd[c].intent)]
  <2>e. e \in Events /\ events' = Append(events, e)
    BY <1>a, <1>16 DEF ResolveEmit, Label, DecisionTypes, Ledger, Busy, Events, Commands,
         Intents
  <2>f. /\ events' \in Seq(Events)
        /\ DOMAIN events = 1..Len(events) /\ Len(events) \in Nat
        /\ DOMAIN events' = 1..(Len(events) + 1)
        /\ \A i \in 1..Len(events) : events'[i] = events[i]
        /\ events'[Len(events) + 1] = e
        /\ e.r = cmd[c].r /\ e.type = "resolved"
    BY <1>a, <2>e, AppendElements DEF DecisionTypes
  <2> HIDE DEF e
  <2>j. acks' \subseteq [c : Clients, r : Requests, id : Ids, ok : BOOLEAN]
    <3>1. acks' = acks \cup {[c |-> c, r |-> cmd[c].r, id |-> cmd[c].id, ok |-> TRUE]}
      BY <1>a, <1>16, <2>e, <2>f DEF ResolveEmit, Label
    <3>2. cmd[c].r \in Requests /\ cmd[c].id \in Ids
      BY <1>a, <1>16, <2>e, <2>f DEF ResolveEmit, Label, Ledger, Busy
    <3>3. [c |-> c, r |-> cmd[c].r, id |-> cmd[c].id, ok |-> TRUE]
            \in [c : Clients, r : Requests, id : Ids, ok : BOOLEAN]
      BY <1>16, <3>2
    <3> QED BY <1>a, <3>1, <3>3, Zenon DEF DecisionTypes
  <2>k. Quiet \in Commands
    BY DEF Quiet, Commands, Stages, Intents
  <2>1. DecisionTypes'
    BY <1>a, <1>16, <2>e, <2>f, <2>j, <2>k DEF ResolveEmit, Label, DecisionTypes, Ledger,
         Busy, decision
  <2>2. CorrelationTypes'
    BY <1>a, <1>16, <2>e, <2>f DEF ResolveEmit, Label, CorrelationTypes, cache, lookup
  <2>3. QueueFresh'
    BY <1>a, <1>16, <2>e, <2>f DEF ResolveEmit, Label, DecisionTypes, Commands, Quiet,
         Ledger, Single, QueueFresh, QueueOnce, decision
  <2>4. QueueOnce'
    BY <1>a, <1>16, <2>e, <2>f DEF ResolveEmit, Label, DecisionTypes, Commands, Quiet,
         Ledger, Single, QueueOnce, decision
  <2>5. MadeFirst'
    BY <1>a, <1>16, <2>e, <2>f DEF ResolveEmit, Label, DecisionTypes, Commands, Quiet,
         Ledger, Single, MadeFirst, decision
  <2>6. TimerFirst'
    BY <1>a, <1>16, <2>e, <2>f DEF ResolveEmit, Label, DecisionTypes, Commands, Quiet,
         Ledger, Single, TimerFirst, Busy, decision
  <2>7. AnsweredLeft'
    BY <1>a, <1>16, <2>e, <2>f DEF ResolveEmit, Label, DecisionTypes, Commands, Quiet,
         Ledger, Single, AnsweredLeft, OneHolder, OneDecider, Decides, Busy, decision
  <2>8. Busy'
    BY <1>a, <1>16, <2>e, <2>f DEF ResolveEmit, Label, DecisionTypes, Commands, Quiet,
         Ledger, Single, Busy, decision
  <2>9. OneAnswer'
    BY <1>a, <1>16, <2>e, <2>f DEF ResolveEmit, Label, DecisionTypes, Commands, Quiet,
         Ledger, Single, OneAnswer, decision
  <2>10. OneEvent'
    BY <1>a, <1>16, <2>e, <2>f DEF ResolveEmit, Label, DecisionTypes, Commands, Quiet,
         Ledger, Single, OneEvent, OneHolder, Decides, decision
  <2>11. OneDecider'
    BY <1>a, <1>16, <2>e, <2>f DEF ResolveEmit, Label, DecisionTypes, Commands, Quiet,
         Ledger, Single, OneDecider, OneHolder, Decides, Busy, decision
  <2>12. OneHolder'
    <3>1. /\ pending' = pending /\ timer' = timer /\ cmd[c].pc = "emit"
          /\ cmd'[c].pc = "idle" /\ \A d \in Clients : d # c => cmd'[d] = cmd[d]
      BY <1>a, <1>16 DEF ResolveEmit, DecisionTypes, Quiet
    <3>2. \A d \in Clients : Decides(d)' => d # c /\ Decides(d) /\ cmd[d].r # cmd[c].r
      BY <1>a, <3>1 DEF Single, OneDecider, Decides
    <3> QED BY <1>a, <2>e, <2>f, <3>1, <3>2 DEF Single, OneHolder, Decides
  <2>13. ArmingFresh'
    BY <1>a, <1>16, <2>e, <2>f DEF ResolveEmit, Label, DecisionTypes, Commands, Quiet,
         Ledger, Single, OneHolder, OneDecider, Decides, Busy, TimerFirst, decision,
         ArmingFresh, AnsweredLeft
  <2> QED BY <2>1, <2>2, <2>3, <2>4, <2>5, <2>6, <2>7, <2>8, <2>9, <2>10, <2>11,
       <2>12, <2>13 DEF DecisionInv, TypeOK, Ledger, Single
<1>17. ASSUME NEW k \in Activities, LookupByCall(k)
      PROVE  DecisionInv'
  <2>1. DecisionTypes'
    BY <1>a, <1>17 DEF LookupByCall, Labelled, DecisionTypes, Commands, Stages, Quiet,
         Intents, Ledger, Busy, decision
  <2>e. labels' = labels \/ \E q \in Requests \cup {No} : labels' = Append(labels, [call |-> k, r |-> q])
    BY <1>a, <1>17 DEF LookupByCall, Labelled, CorrelationTypes
  <2>f. k \in Activities
    BY <1>a, <1>17 DEF LookupByCall, Labelled, CorrelationTypes
  <2>l. \A q \in Requests \cup {No} :
          [call |-> k, r |-> q] \in [call : Activities, r : Requests \cup {No}]
    BY <2>f
  <2>g. labels' \in Seq([call : Activities, r : Requests \cup {No}])
    <3> DEFINE L == [call : Activities, r : Requests \cup {No}]
    <3>1. labels \in Seq(L)
      BY <1>a DEF CorrelationTypes
    <3>2. \A x \in L : Append(labels, x) \in Seq(L)
      <4> HIDE DEF L
      <4> QED BY <3>1, AppendElements
    <3> QED BY <2>e, <2>l, <3>1, <3>2
  <2>h. look' \in [pc : Lookups, call : Activities \cup {No}, old : SUBSET Requests]
    BY <1>a, <1>17 DEF LookupByCall, Labelled, CorrelationTypes, Lookups
  <2>i. look'.pc # "idle" => look'.call \in Activities
    BY <1>a, <1>17 DEF LookupByCall, Labelled, CorrelationTypes, Lookups
  <2>2. CorrelationTypes'
    BY <1>a, <1>17, <2>g, <2>h, <2>i DEF LookupByCall, Labelled, CorrelationTypes, cache
  <2>3. Ledger' /\ Single'
    BY <1>a, <1>17, DecisionFrame DEF LookupByCall, Labelled, decision
  <2> QED BY <2>1, <2>2, <2>3 DEF DecisionInv, TypeOK
<1>18. ASSUME SweepByCall
      PROVE  DecisionInv'
  <2>1. DecisionTypes'
    BY <1>a, <1>18 DEF SweepByCall, DecisionTypes, Commands, Stages, Quiet, Intents,
         Ledger, Busy, decision
  <2>2. CorrelationTypes'
    BY <1>a, <1>18 DEF SweepByCall, CorrelationTypes, Lookups, CallIds, cache, lookup,
         DecisionTypes, Ledger, Busy
  <2>3. Ledger' /\ Single'
    BY <1>a, <1>18, DecisionFrame DEF SweepByCall, decision
  <2> QED BY <2>1, <2>2, <2>3 DEF DecisionInv, TypeOK
<1>19. ASSUME LookupByHash
      PROVE  DecisionInv'
  <2>1. DecisionTypes'
    BY <1>a, <1>19 DEF LookupByHash, Labelled, NoLook, DecisionTypes, Commands, Stages,
         Quiet, Intents, Ledger, Busy, decision
  <2>e. labels' = labels \/ \E q \in Requests \cup {No} : labels' = Append(labels, [call |-> look.call, r |-> q])
    BY <1>a, <1>19 DEF LookupByHash, Labelled, NoLook, CorrelationTypes
  <2>f. look.call \in Activities
    BY <1>a, <1>19 DEF LookupByHash, Labelled, NoLook, CorrelationTypes
  <2>l. \A q \in Requests \cup {No} :
          [call |-> look.call, r |-> q] \in [call : Activities, r : Requests \cup {No}]
    BY <2>f
  <2>g. labels' \in Seq([call : Activities, r : Requests \cup {No}])
    <3> DEFINE L == [call : Activities, r : Requests \cup {No}]
    <3>1. labels \in Seq(L)
      BY <1>a DEF CorrelationTypes
    <3>2. \A x \in L : Append(labels, x) \in Seq(L)
      <4> HIDE DEF L
      <4> QED BY <3>1, AppendElements
    <3> QED BY <2>e, <2>l, <3>1, <3>2
  <2>h. look' \in [pc : Lookups, call : Activities \cup {No}, old : SUBSET Requests]
    BY <1>a, <1>19 DEF LookupByHash, Labelled, NoLook, CorrelationTypes, Lookups
  <2>i. look'.pc # "idle" => look'.call \in Activities
    BY <1>a, <1>19 DEF LookupByHash, Labelled, NoLook, CorrelationTypes, Lookups
  <2>2. CorrelationTypes'
    BY <1>a, <1>19, <2>g, <2>h, <2>i DEF LookupByHash, Labelled, NoLook, CorrelationTypes,
         cache
  <2>3. Ledger' /\ Single'
    BY <1>a, <1>19, DecisionFrame DEF LookupByHash, Labelled, NoLook, decision
  <2> QED BY <2>1, <2>2, <2>3 DEF DecisionInv, TypeOK
<1>20. ASSUME SweepByHash
      PROVE  DecisionInv'
  <2>1. DecisionTypes'
    BY <1>a, <1>20 DEF SweepByHash, Labelled, NoLook, DecisionTypes, Commands, Stages,
         Quiet, Intents, Ledger, Busy, decision
  <2>e. labels' = labels \/ \E q \in Requests \cup {No} : labels' = Append(labels, [call |-> look.call, r |-> q])
    BY <1>a, <1>20 DEF SweepByHash, Labelled, NoLook, CorrelationTypes
  <2>f. look.call \in Activities
    BY <1>a, <1>20 DEF SweepByHash, Labelled, NoLook, CorrelationTypes
  <2>l. \A q \in Requests \cup {No} :
          [call |-> look.call, r |-> q] \in [call : Activities, r : Requests \cup {No}]
    BY <2>f
  <2>g. labels' \in Seq([call : Activities, r : Requests \cup {No}])
    <3> DEFINE L == [call : Activities, r : Requests \cup {No}]
    <3>1. labels \in Seq(L)
      BY <1>a DEF CorrelationTypes
    <3>2. \A x \in L : Append(labels, x) \in Seq(L)
      <4> HIDE DEF L
      <4> QED BY <3>1, AppendElements
    <3> QED BY <2>e, <2>l, <3>1, <3>2
  <2>h. look' \in [pc : Lookups, call : Activities \cup {No}, old : SUBSET Requests]
    BY <1>a, <1>20 DEF SweepByHash, Labelled, NoLook, CorrelationTypes, Lookups
  <2>i. look'.pc # "idle" => look'.call \in Activities
    BY <1>a, <1>20 DEF SweepByHash, Labelled, NoLook, CorrelationTypes, Lookups
  <2>2. CorrelationTypes'
    BY <1>a, <1>20, <2>g, <2>h, <2>i DEF SweepByHash, Labelled, NoLook, CorrelationTypes,
         cache
  <2>3. Ledger' /\ Single'
    BY <1>a, <1>20, DecisionFrame DEF SweepByHash, Labelled, NoLook, decision
  <2> QED BY <2>1, <2>2, <2>3 DEF DecisionInv, TypeOK
<1>21. CASE UNCHANGED vars
  <2>1. TypeOK'
    BY <1>a, <1>21 DEF vars, decision, cache, lookup, TypeOK, DecisionTypes,
         CorrelationTypes
  <2>2. Ledger' /\ Single'
    BY <1>a, <1>21, DecisionFrame DEF vars, decision
  <2> QED BY <2>1, <2>2 DEF DecisionInv
<1> QED
  BY <1>1, <1>2, <1>3, <1>4, <1>5, <1>6, <1>7, <1>8, <1>9, <1>10, <1>11, <1>12, <1>13,
       <1>14, <1>15, <1>16, <1>17, <1>18, <1>19, <1>20, <1>21, <1>22, <1>23 DEF Next

-------------------------------------------------------------------------------
\* Every reachable state of the approval machinery is well typed.
THEOREM ApprovalTypes == Spec => []TypeOK
<1>1. DecisionInv => TypeOK
  BY DEF DecisionInv
<1> QED BY <1>1, InitDecision, NextDecision, PTL DEF Spec

\* First decision wins, for any number of requests, clients and menus: the
\* property that resolve_approval's and the timer's remove() are there for.
THEOREM FirstDecisionWins == Spec => []DecidedOnce
<1>1. DecisionInv => DecidedOnce
  BY SingleIsDecidedOnce DEF DecisionInv, Ledger
<1> QED BY <1>1, InitDecision, NextDecision, PTL DEF Spec

-----------------------------------------------------------------------------
(* Clients are told what the agent was told, and no answer grants more than *)
(* one use.  Both stand on DecisionInv: because a request is answered once, *)
(* what was true of its answer stays true.                                  *)

Kind(r, id) == OptionOf(info[r].opts, id).kind

\* A command has chosen an option that its intent permits ...
Chosen ==
  \A c \in Clients : cmd[c].pc # "idle" => Kind(cmd[c].r, cmd[c].id) \in Eligible(cmd[c].intent)

\* ... and after "respond" the agent has it, and nothing else.
Given ==
  \A c \in Clients : cmd[c].pc \in {"record", "emit"} => answers[cmd[c].r] = <<cmd[c].id>>

\* A timer that is about to announce has cancelled, or found no agent.
TimerTrue ==
  \A r \in Requests : timer[r] = "emit" => answers[r] \in {<< >>, <<Cancelled>>}

\* No answer is of a kind that neither intent permits.
AnswerKind ==
  \A r \in Requests : answers[r] # << >> /\ answers[r][1] # Cancelled =>
    Kind(r, answers[r][1]) \in Eligible("approve") \cup Eligible("reject")

AckTrue == \A a \in acks : a.ok => answers[a.r] = <<a.id>>

\* An event says what the agent acts on.
Truthful(e) ==
  CASE e.outcome = "timeout" -> answers[e.r] \in {<< >>, <<Cancelled>>}
    [] e.outcome = "approved" -> /\ answers[e.r] # << >> /\ answers[e.r][1] # Cancelled
                                 /\ Kind(e.r, answers[e.r][1]) \in AllowKinds
    [] OTHER -> /\ answers[e.r] # << >> /\ answers[e.r][1] # Cancelled
                /\ Kind(e.r, answers[e.r][1]) \in RejectKinds

EventTrue == \A i \in DOMAIN events : events[i].type = "resolved" => Truthful(events[i])

\* An answered request is announced, or somebody is about to announce it.
AllTold ==
  \A r \in Requests : answers[r] # << >> =>
    \/ \E c \in Clients : Decides(c) /\ cmd[c].r = r
    \/ timer[r] = "emit"
    \/ \E i \in DOMAIN events : events[i].type = "resolved" /\ events[i].r = r

TruthInv == Chosen /\ Given /\ TimerTrue /\ AnswerKind /\ AckTrue /\ EventTrue /\ AllTold

-------------------------------------------------------------------------------
\* What the decision invariant says of a request that something is known about.
LEMMA Made ==
  ASSUME DecisionInv
  PROVE  /\ \A c \in Clients : cmd[c].pc # "idle" => cmd[c].r \in Requests /\ info[cmd[c].r] # No
         /\ \A r \in Requests : answers[r] # << >> => info[r] # No
         /\ \A i \in DOMAIN events : events[i].r \in Requests /\ info[events[i].r] # No
         /\ \A a \in acks : a.r \in Requests
<1>1. ASSUME NEW i \in DOMAIN events PROVE events[i].r \in Requests
  <2>1. events \in Seq(Events) BY DEF DecisionInv, TypeOK, DecisionTypes
  <2>2. events[i] \in Events BY <2>1
  <2>. QED BY <2>2 DEF Events
<1>2. \A a \in acks : a.r \in Requests BY DEF DecisionInv, TypeOK, DecisionTypes
<1>3. \A r \in Requests : timer[r] # "off" => info[r] # No
  BY DEF DecisionInv, Ledger, MadeFirst
<1>4. \A i \in DOMAIN events : info[events[i].r] # No
  BY <1>1, <1>3 DEF DecisionInv, Ledger, TimerFirst
<1>5. \A c \in Clients : cmd[c].pc # "idle" => cmd[c].r \in Requests /\ info[cmd[c].r] # No
  BY <1>3 DEF DecisionInv, Ledger, TimerFirst, Busy
<1>6. \A r \in Requests : answers[r] # << >> => info[r] # No
  BY <1>3 DEF DecisionInv, Ledger, TimerFirst
<1>. QED BY <1>1, <1>2, <1>4, <1>5, <1>6

\* Whatever leaves commands, answers, events and acknowledgements alone, starts no
\* announcement of a timer and changes no request that was made, keeps TruthInv.
LEMMA TruthFrame ==
  ASSUME DecisionInv, TruthInv, UNCHANGED <<cmd, answers, events, acks>>,
         \A r \in Requests : (timer'[r] = "emit") <=> (timer[r] = "emit"),
         \A r \in Requests : info[r] # No => info'[r] = info[r]
  PROVE  TruthInv'
<1>1. Chosen' BY Made DEF TruthInv, Chosen, Kind
<1>2. Given' BY DEF TruthInv, Given
<1>3. TimerTrue' BY DEF TruthInv, TimerTrue
<1>4. AnswerKind' BY Made DEF TruthInv, AnswerKind, Kind
<1>5. AckTrue' BY DEF TruthInv, AckTrue
<1>6. EventTrue'
  <2>1. ASSUME NEW i \in DOMAIN events, events[i].type = "resolved" PROVE Truthful(events[i])'
    <3>1. events[i].r \in Requests /\ info[events[i].r] # No BY <2>1, Made
    <3>2. info'[events[i].r] = info[events[i].r] BY <3>1
    <3>3. events'[i] = events[i] /\ answers' = answers OBVIOUS
    <3>4. Truthful(events[i]) BY <2>1 DEF TruthInv, EventTrue
    <3>. QED BY <3>2, <3>3, <3>4 DEF Truthful, Kind
  <2>. QED BY <2>1 DEF EventTrue
<1>7. AllTold' BY DEF TruthInv, AllTold, Decides
<1>. QED BY <1>1, <1>2, <1>3, <1>4, <1>5, <1>6, <1>7 DEF TruthInv

\* The same when an event is added that is true, and when the timer it comes from
\* stops announcing.
LEMMA TellingKeeps ==
  ASSUME DecisionInv, TruthInv, UNCHANGED <<answers, info>>,
         NEW e \in Events, events' = Append(events, e),
         e.type = "resolved" => Truthful(e)
  PROVE  /\ EventTrue' /\ AnswerKind'
         /\ \A r \in Requests :
              (\E i \in DOMAIN events : events[i].type = "resolved" /\ events[i].r = r)
                => \E i \in DOMAIN events' : events'[i].type = "resolved" /\ events'[i].r = r
         /\ e.type = "resolved"
              => \E i \in DOMAIN events' : events'[i].type = "resolved" /\ events'[i].r = e.r
<1>1. events \in Seq(Events) BY DEF DecisionInv, TypeOK, DecisionTypes
<1>2. /\ DOMAIN events = 1..Len(events) /\ Len(events) \in Nat
      /\ DOMAIN events' = 1..(Len(events) + 1)
      /\ \A i \in 1..Len(events) : events'[i] = events[i]
      /\ events'[Len(events) + 1] = e
  BY <1>1, AppendElements
<1>3. EventTrue'
  <2>1. ASSUME NEW i \in DOMAIN events', events'[i].type = "resolved" PROVE Truthful(events[i])'
    <3>1. Truthful(events'[i]) BY <1>2, <2>1 DEF TruthInv, EventTrue
    <3>. QED BY <3>1 DEF Truthful, Kind
  <2>. QED BY <2>1 DEF EventTrue
<1>4. AnswerKind' BY DEF TruthInv, AnswerKind, Kind
<1>. QED BY <1>2, <1>3, <1>4

\* An answer to a request that has none keeps what is known of the others' answers
\* and, once its own kind is known, of all.
LEMMA AnswerKeeps ==
  ASSUME DecisionInv, TruthInv, UNCHANGED <<events, acks, info>>,
         NEW q \in Requests, answers[q] = << >>,
         \A r \in Requests : r # q => answers'[r] = answers[r],
         \A i \in DOMAIN events : events[i].type = "resolved" => events[i].r # q,
         answers'[q] # << >> /\ answers'[q][1] # Cancelled
            => Kind(q, answers'[q][1]) \in Eligible("approve") \cup Eligible("reject")
  PROVE  AnswerKind' /\ AckTrue' /\ EventTrue'
<1>1. AnswerKind' BY DEF TruthInv, AnswerKind, Kind
<1>2. AckTrue'
  <2>1. \A a \in acks : a.ok => a.r # q BY DEF TruthInv, AckTrue
  <2>. QED BY <2>1, Made DEF TruthInv, AckTrue
<1>3. EventTrue'
  <2>1. ASSUME NEW i \in DOMAIN events, events[i].type = "resolved" PROVE Truthful(events[i])'
    <3>1. answers'[events[i].r] = answers[events[i].r] BY <2>1, Made
    <3>2. Truthful(events[i]) BY <2>1 DEF TruthInv, EventTrue
    <3>. QED BY <3>1, <3>2 DEF Truthful, Kind
  <2>. QED BY <2>1 DEF EventTrue
<1>. QED BY <1>1, <1>2, <1>3

-------------------------------------------------------------------------------
\* What resolve_option chooses is permitted by the intent.
LEMMA ChosenIsEligible ==
  ASSUME NEW opts, NEW explicit, NEW intent, ResolveOption(opts, explicit, intent) # No
  PROVE  OptionOf(opts, ResolveOption(opts, explicit, intent)).kind \in Eligible(intent)
BY DEF ResolveOption

\* The steps of the agent, the registry, the pump and the correlation keep TruthInv.
LEMMA AsideKeeps ==
  ASSUME DecisionInv, TruthInv,
         \/ \E r \in Requests, opts \in OptionLists, call \in Calls :
              AgentAsks(r, opts, call) \/ AgentAsksUnnumbered(r, opts, call)
         \/ AgentExits \/ SessionClose \/ PumpArm \/ PumpRegister
         \/ \E r \in Requests : TimerMiss(r) \/ TtlPasses(r)
         \/ \E k \in Activities : LookupByCall(k)
         \/ SweepByCall \/ LookupByHash \/ SweepByHash
         \/ UNCHANGED vars
  PROVE  TruthInv'
<1>0. DecisionTypes BY DEF DecisionInv, TypeOK
<1>1. ASSUME NEW r \in Requests, NEW opts \in OptionLists, NEW call \in Calls,
             AgentAsks(r, opts, call) \/ AgentAsksUnnumbered(r, opts, call)
      PROVE  TruthInv'
  <2>1. /\ UNCHANGED <<cmd, answers, events, acks, timer>>
        /\ \A q \in Requests : info[q] # No => info'[q] = info[q]
    BY <1>0, <1>1 DEF AgentAsks, AgentAsksUnnumbered, DecisionTypes
  <2>. QED BY <2>1, TruthFrame
<1>2. CASE AgentExits BY <1>2, TruthFrame DEF AgentExits
<1>3. CASE SessionClose BY <1>3, TruthFrame DEF SessionClose
<1>4. CASE PumpArm
  <2>1. /\ UNCHANGED <<cmd, answers, events, acks, info>>
        /\ timer' = [timer EXCEPT ![Head(queue)] = "armed"]
        /\ queue \in Seq(Requests) /\ queue # << >>
    BY <1>0, <1>4 DEF PumpArm, DecisionTypes
  <2>2. timer[Head(queue)] = "off"
    BY <2>1 DEF DecisionInv, Ledger, QueueFresh
  <2>3. \A q \in Requests : (timer'[q] = "emit") <=> (timer[q] = "emit")
    BY <1>0, <2>1, <2>2 DEF DecisionTypes
  <2>. QED BY <2>1, <2>3, TruthFrame
<1>5. ASSUME NEW r \in Requests, TimerMiss(r) PROVE TruthInv'
  <2>1. /\ UNCHANGED <<cmd, answers, events, acks, info>>
        /\ \A q \in Requests : (timer'[q] = "emit") <=> (timer[q] = "emit")
    BY <1>0, <1>5 DEF TimerMiss, DecisionTypes
  <2>. QED BY <2>1, TruthFrame
<1>6. ASSUME NEW r \in Requests, TtlPasses(r) PROVE TruthInv'
  BY <1>6, TruthFrame DEF TtlPasses, decision
<1>7. ASSUME NEW k \in Activities, LookupByCall(k) PROVE TruthInv'
  BY <1>7, TruthFrame DEF LookupByCall, decision
<1>8. CASE SweepByCall BY <1>8, TruthFrame DEF SweepByCall, decision
<1>9. CASE LookupByHash BY <1>9, TruthFrame DEF LookupByHash, decision
<1>10. CASE SweepByHash BY <1>10, TruthFrame DEF SweepByHash, decision
<1>11. CASE UNCHANGED vars BY <1>11, TruthFrame DEF vars, decision
<1>12. CASE PumpRegister BY <1>12, TruthFrame DEF PumpRegister
<1>. QED BY <1>1, <1>2, <1>3, <1>4, <1>5, <1>6, <1>7, <1>8, <1>9, <1>10, <1>11, <1>12

\* The announcement of a request keeps TruthInv: it resolves nothing.
LEMMA PumpEmitKeeps ==
  ASSUME DecisionInv, TruthInv, PumpEmit
  PROVE  TruthInv'
<1> DEFINE e == [type |-> "pending", r |-> pump, outcome |-> No]
<1>1. /\ UNCHANGED <<cmd, answers, acks, info, timer>>
      /\ events' = Append(events, e)
      /\ e.type # "resolved"
  BY DEF PumpEmit
<1>2. e \in Events BY DEF PumpEmit, DecisionInv, TypeOK, DecisionTypes, Events
<1> HIDE DEF e
<1>3. /\ EventTrue' /\ AnswerKind'
      /\ \A r \in Requests :
           (\E i \in DOMAIN events : events[i].type = "resolved" /\ events[i].r = r)
             => \E i \in DOMAIN events' : events'[i].type = "resolved" /\ events'[i].r = r
  BY <1>1, <1>2, TellingKeeps
<1>4. Chosen' /\ Given' /\ TimerTrue' /\ AckTrue'
  BY <1>1 DEF TruthInv, Chosen, Given, TimerTrue, AckTrue, Kind
<1>5. AllTold' BY <1>1, <1>3 DEF TruthInv, AllTold, Decides
<1>. QED BY <1>3, <1>4, <1>5 DEF TruthInv

\* The auto-cancel keeps TruthInv: the request had no answer and gets a cancellation.
LEMMA TimerFireKeeps ==
  ASSUME DecisionInv, TruthInv, NEW r \in Requests, TimerFire(r)
  PROVE  TruthInv'
<1>0. DecisionTypes BY DEF DecisionInv, TypeOK
<1>1. /\ UNCHANGED <<cmd, events, acks, info>>
      /\ timer[r] = "armed" /\ r \in pending
      /\ timer' = [timer EXCEPT ![r] = "emit"]
      /\ answers' = IF alive THEN [answers EXCEPT ![r] = Append(@, Cancelled)] ELSE answers
  BY DEF TimerFire, Respond
<1>2. answers[r] = << >> BY <1>1 DEF DecisionInv, Ledger, AnsweredLeft
<1>3. /\ answers'[r] \in {<< >>, <<Cancelled>>}
      /\ \A q \in Requests : q # r => answers'[q] = answers[q]
      /\ timer'[r] = "emit" /\ \A q \in Requests : q # r => timer'[q] = timer[q]
  BY <1>0, <1>1, <1>2 DEF DecisionTypes
<1>4. answers'[r] # << >> => answers'[r][1] = Cancelled BY <1>3
<1>5. \A i \in DOMAIN events : events[i].type = "resolved" => events[i].r # r
  BY <1>1 DEF DecisionInv, Single, OneHolder
<1>6. AnswerKind' /\ AckTrue' /\ EventTrue'
  BY <1>1, <1>2, <1>3, <1>4, <1>5, AnswerKeeps
<1>7. Chosen' BY <1>1 DEF TruthInv, Chosen, Kind
<1>8. Given'
  <2>1. \A c \in Clients : cmd[c].pc \in {"record", "emit"} => cmd[c].r # r /\ cmd[c].r \in Requests
    BY <1>1, Made DEF DecisionInv, Single, OneHolder, Decides
  <2>. QED BY <1>1, <1>3, <2>1 DEF TruthInv, Given
<1>9. TimerTrue' BY <1>3 DEF TruthInv, TimerTrue
<1>10. AllTold' BY <1>1, <1>3 DEF TruthInv, AllTold, Decides
<1>. QED BY <1>6, <1>7, <1>8, <1>9, <1>10 DEF TruthInv

\* The announcement of a cancellation keeps TruthInv.
LEMMA TimerEmitKeeps ==
  ASSUME DecisionInv, TruthInv, NEW r \in Requests, TimerEmit(r)
  PROVE  TruthInv'
<1> DEFINE e == [type |-> "resolved", r |-> r, outcome |-> "timeout"]
<1>0. DecisionTypes BY DEF DecisionInv, TypeOK
<1>1. /\ UNCHANGED <<cmd, answers, acks, info>>
      /\ timer[r] = "emit" /\ timer' = [timer EXCEPT ![r] = "done"]
      /\ events' = Append(events, e)
  BY DEF TimerEmit
<1>2. e \in Events /\ e.type = "resolved" /\ e.r = r BY DEF Events
<1>3. Truthful(e) BY <1>1 DEF TruthInv, TimerTrue, Truthful
<1> HIDE DEF e
<1>4. /\ EventTrue' /\ AnswerKind'
      /\ \A q \in Requests :
           (\E i \in DOMAIN events : events[i].type = "resolved" /\ events[i].r = q)
             => \E i \in DOMAIN events' : events'[i].type = "resolved" /\ events'[i].r = q
      /\ \E i \in DOMAIN events' : events'[i].type = "resolved" /\ events'[i].r = r
  BY <1>1, <1>2, <1>3, TellingKeeps
<1>5. Chosen' /\ Given' /\ AckTrue' BY <1>1 DEF TruthInv, Chosen, Given, AckTrue, Kind
<1>6. \A q \in Requests : q # r => timer'[q] = timer[q] BY <1>1
<1>7. timer'[r] = "done" BY <1>0, <1>1 DEF DecisionTypes
<1>8. TimerTrue' BY <1>1, <1>6, <1>7 DEF TruthInv, TimerTrue
<1>9. AllTold' BY <1>1, <1>4, <1>6 DEF TruthInv, AllTold, Decides
<1>. QED BY <1>4, <1>5, <1>8, <1>9 DEF TruthInv

-------------------------------------------------------------------------------
\* A step of one command that answers and announces nothing keeps TruthInv if what
\* the command knows stays true and it does not forget a decision.
LEMMA CommandKeeps ==
  ASSUME DecisionInv, TruthInv, NEW c \in Clients,
         UNCHANGED <<answers, events, acks, timer, info>>,
         \A d \in Clients : d # c => cmd'[d] = cmd[d],
         cmd'[c].pc # "idle" => Kind(cmd'[c].r, cmd'[c].id) \in Eligible(cmd'[c].intent),
         cmd'[c].pc \in {"record", "emit"} => answers[cmd'[c].r] = <<cmd'[c].id>>,
         Decides(c) => Decides(c)' /\ cmd'[c].r = cmd[c].r
  PROVE  TruthInv'
<1>1. Chosen' BY DEF TruthInv, Chosen, Kind
<1>2. Given' BY DEF TruthInv, Given
<1>3. TimerTrue' /\ AnswerKind' /\ AckTrue'
  BY DEF TruthInv, TimerTrue, AnswerKind, AckTrue, Kind
<1>4. EventTrue'
  <2>1. ASSUME NEW i \in DOMAIN events, events[i].type = "resolved" PROVE Truthful(events[i])'
    <3>1. Truthful(events[i]) BY <2>1 DEF TruthInv, EventTrue
    <3>2. events'[i] = events[i] /\ answers' = answers /\ info' = info OBVIOUS
    <3>. QED BY <3>1, <3>2 DEF Truthful, Kind
  <2>. QED BY <2>1 DEF EventTrue
<1>5. AllTold'
  <2>1. \A d \in Clients : Decides(d) => Decides(d)' /\ cmd'[d].r = cmd[d].r BY DEF Decides
  <2>. QED BY <2>1 DEF TruthInv, AllTold
<1>. QED BY <1>1, <1>2, <1>3, <1>4, <1>5 DEF TruthInv

\* Choosing, taking, losing and recording keep TruthInv.
LEMMA ResolveKeeps ==
  ASSUME DecisionInv, TruthInv, NEW c \in Clients,
         \/ \E r \in Requests, intent \in Intents, explicit \in Ids \cup {No} :
              ResolveChoose(c, r, intent, explicit)
         \/ ResolveTake(c) \/ ResolveLost(c) \/ ResolveRecord(c)
  PROVE  TruthInv'
<1>0. cmd \in [Clients -> Commands] BY DEF DecisionInv, TypeOK, DecisionTypes
<1>1. ASSUME NEW r \in Requests, NEW intent \in Intents, NEW explicit \in Ids \cup {No},
             ResolveChoose(c, r, intent, explicit)
      PROVE  TruthInv'
  <2> DEFINE id == ResolveOption(info[r].opts, explicit, intent)
  <2>1. /\ cmd[c].pc = "idle" /\ id # No
        /\ cmd' = [cmd EXCEPT ![c] = [pc |-> "take", r |-> r, intent |-> intent, id |-> id]]
        /\ UNCHANGED <<answers, events, acks, timer, info>>
    BY <1>1 DEF ResolveChoose, decision
  <2>2. Kind(r, id) \in Eligible(intent) BY <2>1, ChosenIsEligible DEF Kind
  <2> HIDE DEF id
  <2>3. /\ cmd'[c] = [pc |-> "take", r |-> r, intent |-> intent, id |-> id]
        /\ \A d \in Clients : d # c => cmd'[d] = cmd[d]
    BY <1>0, <2>1
  <2>4. ~Decides(c) BY <2>1 DEF Decides
  <2>. QED BY <2>1, <2>2, <2>3, <2>4, CommandKeeps
<1>2. CASE ResolveTake(c)
  <2>1. /\ cmd[c].pc = "take" /\ cmd' = Advance(c, "respond")
        /\ UNCHANGED <<answers, events, acks, timer, info>>
    BY <1>2 DEF ResolveTake
  <2>2. /\ cmd'[c] = [pc |-> "respond", r |-> cmd[c].r, intent |-> cmd[c].intent, id |-> cmd[c].id]
        /\ \A d \in Clients : d # c => cmd'[d] = cmd[d]
    BY <1>0, <2>1 DEF Advance
  <2>3. Kind(cmd[c].r, cmd[c].id) \in Eligible(cmd[c].intent) BY <2>1 DEF TruthInv, Chosen
  <2>4. ~Decides(c) BY <2>1 DEF Decides
  <2>. QED BY <2>1, <2>2, <2>3, <2>4, CommandKeeps
<1>3. CASE ResolveLost(c)
  <2>1. /\ cmd[c].pc = "take" /\ cmd' = [cmd EXCEPT ![c] = Quiet]
        /\ UNCHANGED <<answers, events, acks, timer, info>>
    BY <1>3 DEF ResolveLost, decision
  <2>2. /\ cmd'[c].pc = "idle" /\ \A d \in Clients : d # c => cmd'[d] = cmd[d]
    BY <1>0, <2>1 DEF Quiet
  <2>3. ~Decides(c) BY <2>1 DEF Decides
  <2>. QED BY <2>1, <2>2, <2>3, CommandKeeps
<1>4. CASE ResolveRecord(c)
  <2>1. /\ cmd[c].pc = "record" /\ cmd' = Advance(c, "emit")
        /\ UNCHANGED <<answers, events, acks, timer, info>>
    BY <1>4 DEF ResolveRecord, decision
  <2>2. /\ cmd'[c] = [pc |-> "emit", r |-> cmd[c].r, intent |-> cmd[c].intent, id |-> cmd[c].id]
        /\ \A d \in Clients : d # c => cmd'[d] = cmd[d]
    BY <1>0, <2>1 DEF Advance
  <2>3. /\ Kind(cmd[c].r, cmd[c].id) \in Eligible(cmd[c].intent)
        /\ answers[cmd[c].r] = <<cmd[c].id>>
    BY <2>1 DEF TruthInv, Chosen, Given
  <2>4. Decides(c)' BY <2>2 DEF Decides
  <2>. QED BY <2>1, <2>2, <2>3, <2>4, CommandKeeps
<1>. QED BY <1>1, <1>2, <1>3, <1>4

\* The answer to the agent keeps TruthInv: the request had none, and the option is
\* the one that was chosen.
LEMMA RespondKeeps ==
  ASSUME DecisionInv, TruthInv, NEW c \in Clients, ResolveRespond(c)
  PROVE  TruthInv'
<1> DEFINE r == cmd[c].r
           id == cmd[c].id
<1>0. DecisionTypes BY DEF DecisionInv, TypeOK
<1>1. /\ cmd[c].pc = "respond" /\ alive /\ UNCHANGED <<events, acks, info>>
      /\ answers' = [answers EXCEPT ![r] = Append(@, id)]
      /\ timer' = [timer EXCEPT ![r] = IF @ = "armed" THEN "aborted" ELSE @]
      /\ cmd' = Advance(c, IF cmd[c].intent = "approve" THEN "record" ELSE "emit")
  BY DEF ResolveRespond, Respond
<1>2. r \in Requests /\ id \in Ids BY <1>1 DEF DecisionInv, Ledger, Busy
<1>3. answers[r] = << >> BY <1>1, <1>2 DEF DecisionInv, Ledger, AnsweredLeft
<1>4. Decides(c) BY <1>1 DEF Decides
<1>5. /\ \A i \in DOMAIN events : events[i].type = "resolved" => events[i].r # r
      /\ timer[r] # "emit"
      /\ \A d \in Clients : d # c /\ Decides(d) => cmd[d].r # r
  BY <1>4 DEF DecisionInv, Single, OneHolder, OneDecider
<1>6. Kind(r, id) \in Eligible(cmd[c].intent) BY <1>1 DEF TruthInv, Chosen
<1>7. cmd[c].intent \in Intents BY <1>0 DEF DecisionTypes, Commands
<1>8. Kind(r, id) \in Eligible("approve") \cup Eligible("reject") BY <1>6, <1>7 DEF Intents
<1>9. /\ answers'[r] = <<id>> /\ \A q \in Requests : q # r => answers'[q] = answers[q]
  BY <1>0, <1>1, <1>2, <1>3 DEF DecisionTypes
<1>10. \A q \in Requests : (timer'[q] = "emit") <=> (timer[q] = "emit")
  BY <1>0, <1>1, <1>2 DEF DecisionTypes
<1>11. /\ cmd'[c].pc \in {"record", "emit"} /\ cmd'[c].r = r /\ cmd'[c].id = id
       /\ cmd'[c].intent = cmd[c].intent
       /\ \A d \in Clients : d # c => cmd'[d] = cmd[d]
  BY <1>0, <1>1 DEF DecisionTypes, Advance
<1> HIDE DEF r, id
<1>12. AnswerKind' /\ AckTrue' /\ EventTrue'
  BY <1>1, <1>2, <1>3, <1>5, <1>8, <1>9, AnswerKeeps
<1>13. Chosen' BY <1>1, <1>6, <1>11 DEF TruthInv, Chosen, Kind
<1>14. Given'
  <2>1. \A d \in Clients : d # c /\ cmd[d].pc \in {"record", "emit"}
                          => cmd[d].r # r /\ cmd[d].r \in Requests
    BY <1>5, Made DEF Decides
  <2>. QED BY <1>9, <1>11, <2>1 DEF TruthInv, Given
<1>15. TimerTrue' BY <1>2, <1>5, <1>9, <1>10 DEF TruthInv, TimerTrue
<1>16. AllTold'
  <2>1. Decides(c)' BY <1>11 DEF Decides
  <2>2. \A d \in Clients : Decides(d) => Decides(d)' /\ cmd'[d].r = cmd[d].r
    BY <1>11, <2>1 DEF Decides, r
  <2>. QED BY <1>1, <1>9, <1>10, <1>11, <2>1, <2>2 DEF TruthInv, AllTold
<1>. QED BY <1>12, <1>13, <1>14, <1>15, <1>16 DEF TruthInv

\* A command that finds no agent keeps TruthInv: its request has no answer, and the
\* acknowledgement is not ok.
LEMMA UnreachableKeeps ==
  ASSUME DecisionInv, TruthInv, NEW c \in Clients, ResolveUnreachable(c)
  PROVE  TruthInv'
<1>0. DecisionTypes BY DEF DecisionInv, TypeOK
<1>1. /\ cmd[c].pc = "respond" /\ UNCHANGED <<answers, events, info>>
      /\ acks' = acks \cup {[c |-> c, r |-> cmd[c].r, id |-> cmd[c].id, ok |-> FALSE]}
      /\ timer' = [timer EXCEPT ![cmd[c].r] = IF @ = "armed" THEN "aborted" ELSE @]
      /\ cmd' = [cmd EXCEPT ![c] = Quiet]
  BY DEF ResolveUnreachable
<1>2. cmd[c].r \in Requests /\ answers[cmd[c].r] = << >>
  BY <1>1 DEF DecisionInv, Ledger, AnsweredLeft, Busy
<1>3. \A q \in Requests : (timer'[q] = "emit") <=> (timer[q] = "emit")
  BY <1>0, <1>1, <1>2 DEF DecisionTypes
<1>4. cmd'[c].pc = "idle" /\ \A d \in Clients : d # c => cmd'[d] = cmd[d]
  BY <1>0, <1>1 DEF DecisionTypes, Quiet
<1>5. Chosen' /\ Given' BY <1>1, <1>4 DEF TruthInv, Chosen, Given, Kind
<1>6. TimerTrue' /\ AnswerKind' BY <1>1, <1>3 DEF TruthInv, TimerTrue, AnswerKind, Kind
<1>7. AckTrue'
  <2>1. ASSUME NEW a \in acks', a.ok PROVE answers'[a.r] = <<a.id>>
    <3>1. a \in acks BY <1>1, <2>1
    <3>. QED BY <1>1, <2>1, <3>1 DEF TruthInv, AckTrue
  <2>. QED BY <2>1 DEF AckTrue
<1>8. EventTrue'
  <2>1. ASSUME NEW i \in DOMAIN events, events[i].type = "resolved" PROVE Truthful(events[i])'
    <3>1. Truthful(events[i]) BY <2>1 DEF TruthInv, EventTrue
    <3>2. events'[i] = events[i] /\ answers' = answers /\ info' = info BY <1>1
    <3>. QED BY <3>1, <3>2 DEF Truthful, Kind
  <2>. QED BY <1>1, <2>1 DEF EventTrue
<1>9. AllTold'
  <2>1. ASSUME NEW q \in Requests, NEW d \in Clients, answers[q] # << >>, Decides(d), cmd[d].r = q
        PROVE  Decides(d)' /\ cmd'[d].r = q
    BY <1>2, <1>4, <2>1 DEF Decides
  <2>. QED BY <1>1, <1>3, <2>1 DEF TruthInv, AllTold
<1>. QED BY <1>5, <1>6, <1>7, <1>8, <1>9 DEF TruthInv

\* The announcement of a decision keeps TruthInv: the agent has the option, and the
\* option is of the kind the outcome names.
LEMMA EmitKeeps ==
  ASSUME DecisionInv, TruthInv, NEW c \in Clients, ResolveEmit(c)
  PROVE  TruthInv'
<1> DEFINE r == cmd[c].r
           e == [type |-> "resolved", r |-> r, outcome |-> Label(cmd[c].intent)]
<1>0. DecisionTypes BY DEF DecisionInv, TypeOK
<1>1. /\ cmd[c].pc = "emit" /\ UNCHANGED <<answers, timer, info>>
      /\ events' = Append(events, e)
      /\ acks' = acks \cup {[c |-> c, r |-> r, id |-> cmd[c].id, ok |-> TRUE]}
      /\ cmd' = [cmd EXCEPT ![c] = Quiet]
  BY DEF ResolveEmit
<1>2. r \in Requests /\ cmd[c].id \in Ids BY <1>1 DEF DecisionInv, Ledger, Busy
<1>3. cmd[c].intent \in Intents BY <1>0 DEF DecisionTypes, Commands
<1>4. answers[r] = <<cmd[c].id>> BY <1>1 DEF TruthInv, Given
<1>5. Kind(r, cmd[c].id) \in Eligible(cmd[c].intent) BY <1>1 DEF TruthInv, Chosen
<1>6. cmd[c].id # Cancelled BY <1>2, OutcomeAssumption DEF Cancelled
<1>7. e \in Events /\ e.type = "resolved" /\ e.r = r
  BY <1>2, <1>3 DEF Events, Label, Intents
<1>8. Truthful(e)
  <2>1. answers[r] # << >> /\ answers[r][1] = cmd[c].id BY <1>4
  <2>2. CASE cmd[c].intent = "approve"
    BY <1>5, <1>6, <2>1, <2>2 DEF Truthful, Label, Eligible
  <2>3. CASE cmd[c].intent = "reject"
    BY <1>5, <1>6, <2>1, <2>3 DEF Truthful, Label, Eligible
  <2>. QED BY <1>3, <2>2, <2>3 DEF Intents
<1>9. cmd'[c].pc = "idle" /\ \A d \in Clients : d # c => cmd'[d] = cmd[d]
  BY <1>0, <1>1 DEF DecisionTypes, Quiet
<1> HIDE DEF e
<1>10. /\ EventTrue' /\ AnswerKind'
       /\ \A q \in Requests :
            (\E i \in DOMAIN events : events[i].type = "resolved" /\ events[i].r = q)
              => \E i \in DOMAIN events' : events'[i].type = "resolved" /\ events'[i].r = q
       /\ \E i \in DOMAIN events' : events'[i].type = "resolved" /\ events'[i].r = r
  BY <1>1, <1>7, <1>8, TellingKeeps
<1>11. Chosen' /\ Given' /\ TimerTrue'
  BY <1>1, <1>9 DEF TruthInv, Chosen, Given, TimerTrue, Kind
<1>12. AckTrue'
  <2>1. ASSUME NEW a \in acks', a.ok PROVE answers'[a.r] = <<a.id>>
    <3>1. CASE a \in acks BY <1>1, <2>1, <3>1 DEF TruthInv, AckTrue
    <3>2. CASE a = [c |-> c, r |-> r, id |-> cmd[c].id, ok |-> TRUE] BY <1>1, <1>4, <3>2
    <3>. QED BY <1>1, <2>1, <3>1, <3>2
  <2>. QED BY <2>1 DEF AckTrue
<1>13. AllTold'
  <2>1. ASSUME NEW q \in Requests, q # r, NEW d \in Clients, Decides(d), cmd[d].r = q
        PROVE  Decides(d)' /\ cmd'[d].r = q
    BY <1>9, <2>1 DEF Decides
  <2>. QED BY <1>1, <1>10, <2>1 DEF TruthInv, AllTold
<1>. QED BY <1>10, <1>11, <1>12, <1>13 DEF TruthInv

-------------------------------------------------------------------------------
\* Nobody has been told anything at the start.
LEMMA InitTruth == Init => TruthInv
BY DEF Init, TruthInv, Chosen, Given, TimerTrue, AnswerKind, AckTrue, EventTrue, AllTold, Quiet

\* Every step keeps TruthInv.
LEMMA NextTruth == DecisionInv /\ TruthInv /\ [Next]_vars => TruthInv'
<1>. SUFFICES ASSUME DecisionInv, TruthInv, [Next]_vars PROVE TruthInv'
  OBVIOUS
<1>1. CASE PumpEmit BY <1>1, PumpEmitKeeps
<1>2. ASSUME NEW r \in Requests, TimerFire(r) PROVE TruthInv' BY <1>2, TimerFireKeeps
<1>3. ASSUME NEW r \in Requests, TimerEmit(r) PROVE TruthInv' BY <1>3, TimerEmitKeeps
<1>4. ASSUME NEW c \in Clients, NEW r \in Requests, NEW intent \in Intents,
             NEW explicit \in Ids \cup {No}, ResolveChoose(c, r, intent, explicit)
      PROVE  TruthInv'
  BY <1>4, ResolveKeeps
<1>5. ASSUME NEW c \in Clients, ResolveTake(c) \/ ResolveLost(c) \/ ResolveRecord(c)
      PROVE  TruthInv'
  BY <1>5, ResolveKeeps
<1>6. ASSUME NEW c \in Clients, ResolveRespond(c) PROVE TruthInv' BY <1>6, RespondKeeps
<1>7. ASSUME NEW c \in Clients, ResolveUnreachable(c) PROVE TruthInv' BY <1>7, UnreachableKeeps
<1>8. ASSUME NEW c \in Clients, ResolveEmit(c) PROVE TruthInv' BY <1>8, EmitKeeps
<1>9. CASE \/ \E r \in Requests, opts \in OptionLists, call \in Calls :
                AgentAsks(r, opts, call) \/ AgentAsksUnnumbered(r, opts, call)
           \/ AgentExits \/ SessionClose \/ PumpArm \/ PumpRegister
           \/ \E r \in Requests : TimerMiss(r) \/ TtlPasses(r)
           \/ \E k \in Activities : LookupByCall(k)
           \/ SweepByCall \/ LookupByHash \/ SweepByHash
           \/ UNCHANGED vars
  BY <1>9, AsideKeeps
<1>. QED BY <1>1, <1>2, <1>3, <1>4, <1>5, <1>6, <1>7, <1>8, <1>9 DEF Next

\* The inductive invariant holds in every state.
LEMMA TruthAlways == Spec => [](DecisionInv /\ TruthInv)
BY InitDecision, NextDecision, InitTruth, NextTruth, PTL DEF Spec

\* What clients are told is what the agent was told, and everyone is told:
\* resolve_approval's order of answer, event and acknowledgement, for any number
\* of requests and clients.
THEOREM ToldIsTrue == Spec => []ToldTruth
<1>1. DecisionInv /\ TruthInv => ToldTruth
  <2>. SUFFICES ASSUME DecisionInv, TruthInv PROVE ToldTruth
    OBVIOUS
  <2>1. ASSUME NEW r \in Requests, answers[r] # << >>, Deciding(r) = {}, timer[r] # "emit"
        PROVE  Resolutions(r) # {}
    <3>1. ~\E c \in Clients : Decides(c) /\ cmd[c].r = r BY <2>1 DEF Deciding, Decides
    <3>2. \E i \in DOMAIN events : events[i].type = "resolved" /\ events[i].r = r
      BY <2>1, <3>1 DEF TruthInv, AllTold
    <3>. QED BY <3>2 DEF Resolutions
  <2>2. \A a \in acks : a.ok => answers[a.r] = <<a.id>> BY DEF TruthInv, AckTrue
  <2>3. ASSUME NEW i \in DOMAIN events, events[i].type = "resolved" PROVE Truthful(events[i])
    BY <2>3 DEF TruthInv, EventTrue
  <2>. QED BY <2>1, <2>2, <2>3 DEF ToldTruth, Truthful, Kind
<1>. QED BY <1>1, TruthAlways, PTL

\* No answer grants more than one use, whatever options the agent offers and the
\* client asks for (PERSISTENT_PERMISSION_ALLOWED).
THEOREM NoPersistentGrant == Spec => []NeverPersistent
<1>1. TruthInv => NeverPersistent
  BY DEF TruthInv, AnswerKind, NeverPersistent, Kind, Eligible, AllowKinds, RejectKinds
<1>. QED BY <1>1, TruthAlways, PTL

-----------------------------------------------------------------------------
(* Labels.  What the correlation maps hold is an approval whose answer let  *)
(* the tool run, under the keys of its own call: only a command that        *)
(* approved, and that has answered, records; and an answer stays.           *)

\* Only an approval is recorded (ResolveRespond).
RecordsApprove == \A c \in Clients : cmd[c].pc = "record" => cmd[c].intent = "approve"

\* An approval remembered for a tool call id, or for a hash, is that call's.
CallEntry(t, r) == r # No => r \in Requests /\ Granted(r) /\ info[r].call.tc = t

HashEntry(h, r) == r # No => r \in Requests /\ Granted(r) /\ info[r].call.hash = h

MapsTrue ==
  /\ \A t \in CallIds : CallEntry(t, byCall[t])
  /\ \A h \in Hashes : HashEntry(h, byHash[h])

\* A badge names an approval of the activity's own call.
BadgeTrue(k, r) ==
  r # No => /\ r \in Requests /\ Granted(r)
            /\ info[r].call.tc = k.tc \/ info[r].call.hash = k.hash

BadgesTrue == \A i \in DOMAIN labels : BadgeTrue(labels[i].call, labels[i].r)

LabelInv == RecordsApprove /\ MapsTrue /\ BadgesTrue

\* An answer stays, and so does the request it answers.
AnswersStay ==
  \A r \in Requests : answers[r] # << >> => answers'[r] = answers[r] /\ info'[r] = info[r]

LEMMA NextAnswersStay ==
  ASSUME DecisionInv, [Next]_vars
  PROVE  AnswersStay
<1>0. DecisionTypes BY DEF DecisionInv, TypeOK
<1>1. ASSUME NEW r \in Requests, NEW opts \in OptionLists, NEW call \in Calls,
             AgentAsks(r, opts, call) \/ AgentAsksUnnumbered(r, opts, call)
      PROVE  AnswersStay
  <2>1. answers[r] = << >> BY <1>1, Made DEF AgentAsks, AgentAsksUnnumbered
  <2>. QED BY <1>0, <1>1, <2>1 DEF AgentAsks, AgentAsksUnnumbered, DecisionTypes, AnswersStay
<1>2. ASSUME NEW r \in Requests, TimerFire(r) PROVE AnswersStay
  <2>1. answers[r] = << >> BY <1>2 DEF TimerFire, DecisionInv, Ledger, AnsweredLeft
  <2>. QED BY <1>0, <1>2, <2>1 DEF TimerFire, Respond, DecisionTypes, AnswersStay
<1>3. ASSUME NEW c \in Clients, ResolveRespond(c) PROVE AnswersStay
  <2>1. cmd[c].r \in Requests BY <1>3 DEF ResolveRespond, DecisionInv, Ledger, Busy
  <2>2. answers[cmd[c].r] = << >>
    BY <1>3, <2>1 DEF ResolveRespond, DecisionInv, Ledger, AnsweredLeft
  <2>. QED BY <1>0, <1>3, <2>1, <2>2 DEF ResolveRespond, Respond, DecisionTypes, AnswersStay
<1>4. ASSUME UNCHANGED <<answers, info>> PROVE AnswersStay
  BY <1>4 DEF AnswersStay
<1>5. CASE \/ AgentExits \/ SessionClose \/ PumpArm \/ PumpRegister \/ PumpEmit
           \/ \E r \in Requests : TimerMiss(r) \/ TimerEmit(r) \/ TtlPasses(r)
  BY <1>4, <1>5 DEF AgentExits, SessionClose, PumpArm, PumpRegister, PumpEmit, TimerMiss, TimerEmit,
     TtlPasses, decision
<1>6. CASE \/ \E c \in Clients, r \in Requests, intent \in Intents, explicit \in Ids \cup {No} :
                ResolveChoose(c, r, intent, explicit)
           \/ \E c \in Clients : \/ ResolveTake(c) \/ ResolveLost(c) \/ ResolveUnreachable(c)
                                \/ ResolveRecord(c) \/ ResolveEmit(c)
  BY <1>4, <1>6 DEF ResolveChoose, ResolveTake, ResolveLost, ResolveUnreachable, ResolveRecord,
     ResolveEmit, decision
<1>7. CASE (\E k \in Activities : LookupByCall(k)) \/ SweepByCall \/ LookupByHash \/ SweepByHash
           \/ UNCHANGED vars
  BY <1>4, <1>7 DEF LookupByCall, SweepByCall, LookupByHash, SweepByHash, decision, vars
<1>. QED BY <1>1, <1>2, <1>3, <1>5, <1>6, <1>7 DEF Next

\* What was true of an entry or a badge stays true of it.
LEMMA EntryStays ==
  ASSUME AnswersStay
  PROVE  /\ \A t, r : CallEntry(t, r) => CallEntry(t, r)'
         /\ \A h, r : HashEntry(h, r) => HashEntry(h, r)'
         /\ \A k, r : BadgeTrue(k, r) => BadgeTrue(k, r)'
<1>1. \A r \in Requests : Granted(r) => Granted(r)' /\ info'[r] = info[r]
  BY DEF AnswersStay, Granted
<1>. QED BY <1>1 DEF CallEntry, HashEntry, BadgeTrue

\* The maps stay true when an entry is kept, dropped, or new and true.
LEMMA MapsKeep ==
  ASSUME MapsTrue, AnswersStay,
         \A t \in CallIds : \E r : byCall'[t] = r /\ (r \in {byCall[t], No} \/ CallEntry(t, r)'),
         \A h \in Hashes : \E r : byHash'[h] = r /\ (r \in {byHash[h], No} \/ HashEntry(h, r)')
  PROVE  MapsTrue'
<1>1. ASSUME NEW t \in CallIds PROVE CallEntry(t, byCall[t])'
  <2>1. PICK r : byCall'[t] = r /\ (r \in {byCall[t], No} \/ CallEntry(t, r)') OBVIOUS
  <2>2. CallEntry(t, r)'
    <3>1. CASE r = byCall[t]
      <4>1. CallEntry(t, r) BY <3>1 DEF MapsTrue
      <4>. QED BY <4>1, EntryStays
    <3>2. CASE r = No BY <3>2 DEF CallEntry
    <3>. QED BY <2>1, <3>1, <3>2
  <2>. QED BY <2>1, <2>2 DEF CallEntry
<1>2. ASSUME NEW h \in Hashes PROVE HashEntry(h, byHash[h])'
  <2>1. PICK r : byHash'[h] = r /\ (r \in {byHash[h], No} \/ HashEntry(h, r)') OBVIOUS
  <2>2. HashEntry(h, r)'
    <3>1. CASE r = byHash[h]
      <4>1. HashEntry(h, r) BY <3>1 DEF MapsTrue
      <4>. QED BY <4>1, EntryStays
    <3>2. CASE r = No BY <3>2 DEF HashEntry
    <3>. QED BY <2>1, <3>1, <3>2
  <2>. QED BY <2>1, <2>2 DEF HashEntry
<1>. QED BY <1>1, <1>2 DEF MapsTrue

\* The badges stay true when one is added that is.
LEMMA BadgeAdded ==
  ASSUME DecisionInv, BadgesTrue, AnswersStay, NEW k \in Activities, NEW r \in Requests \cup {No},
         Labelled(k, r), BadgeTrue(k, r)
  PROVE  BadgesTrue'
<1> DEFINE L == [call : Activities, r : Requests \cup {No}]
<1>1. labels \in Seq(L) BY DEF DecisionInv, TypeOK, CorrelationTypes
<1>2. [call |-> k, r |-> r] \in L OBVIOUS
<1>3. labels' = Append(labels, [call |-> k, r |-> r]) BY DEF Labelled
<1>. HIDE DEF L
<1>4. /\ DOMAIN labels = 1..Len(labels) /\ Len(labels) \in Nat
      /\ DOMAIN labels' = 1..(Len(labels) + 1)
      /\ \A i \in 1..Len(labels) : labels'[i] = labels[i]
      /\ labels'[Len(labels) + 1] = [call |-> k, r |-> r]
  BY <1>1, <1>2, <1>3, AppendElements
<1>5. ASSUME NEW i \in DOMAIN labels' PROVE BadgeTrue(labels[i].call, labels[i].r)'
  <2>1. PICK kk, rr : kk = labels'[i].call /\ rr = labels'[i].r OBVIOUS
  <2>2. BadgeTrue(kk, rr)
    <3>1. CASE i \in DOMAIN labels
      <4>1. kk = labels[i].call /\ rr = labels[i].r BY <1>4, <2>1, <3>1
      <4>2. BadgeTrue(labels[i].call, labels[i].r) BY <3>1 DEF BadgesTrue
      <4>. QED BY <4>1, <4>2
    <3>2. CASE i = Len(labels) + 1
      <4>1. kk = k /\ rr = r BY <1>4, <2>1, <3>2
      <4>. QED BY <4>1
    <3>. QED BY <1>4, <3>1, <3>2
  <2>3. BadgeTrue(kk, rr)' BY <2>2, EntryStays
  <2>. QED BY <2>1, <2>3 DEF BadgeTrue
<1>. QED BY <1>5 DEF BadgesTrue

LEMMA BadgesKeep ==
  ASSUME BadgesTrue, AnswersStay, labels' = labels
  PROVE  BadgesTrue'
<1>1. ASSUME NEW i \in DOMAIN labels' PROVE BadgeTrue(labels[i].call, labels[i].r)'
  <2>1. PICK k, r : k = labels[i].call /\ r = labels[i].r OBVIOUS
  <2>2. BadgeTrue(k, r) BY <1>1, <2>1 DEF BadgesTrue
  <2>3. BadgeTrue(k, r)' BY <2>2, EntryStays
  <2>. QED BY <2>1, <2>3 DEF BadgeTrue
<1>. QED BY <1>1 DEF BadgesTrue

-------------------------------------------------------------------------------
\* Only the resolving command moves towards recording, and only when it approved.
LEMMA NextRecordsApprove ==
  ASSUME DecisionInv, RecordsApprove, [Next]_vars
  PROVE  RecordsApprove'
<1>0. cmd \in [Clients -> Commands] BY DEF DecisionInv, TypeOK, DecisionTypes
<1>1. ASSUME cmd' = cmd PROVE RecordsApprove' BY <1>1 DEF RecordsApprove
<1>2. ASSUME NEW c \in Clients, NEW v, cmd' = [cmd EXCEPT ![c] = v],
             v.pc = "record" => v.intent = "approve"
      PROVE  RecordsApprove'
  BY <1>0, <1>2 DEF RecordsApprove
<1>3. CASE \E c \in Clients, r \in Requests, intent \in Intents, explicit \in Ids \cup {No} :
             ResolveChoose(c, r, intent, explicit)
  BY <1>2, <1>3 DEF ResolveChoose
<1>4. CASE \E c \in Clients : \/ ResolveTake(c) \/ ResolveLost(c) \/ ResolveUnreachable(c)
                             \/ ResolveRecord(c) \/ ResolveEmit(c)
  BY <1>2, <1>4 DEF ResolveTake, ResolveLost, ResolveUnreachable, ResolveRecord, ResolveEmit,
     Advance, Quiet
<1>5. CASE \E c \in Clients : ResolveRespond(c)
  BY <1>2, <1>5 DEF ResolveRespond, Advance
<1>6. CASE \/ \E r \in Requests, opts \in OptionLists, call \in Calls :
                AgentAsks(r, opts, call) \/ AgentAsksUnnumbered(r, opts, call)
           \/ AgentExits \/ SessionClose \/ PumpArm \/ PumpRegister \/ PumpEmit
           \/ \E r \in Requests : TimerFire(r) \/ TimerMiss(r) \/ TimerEmit(r) \/ TtlPasses(r)
           \/ \E k \in Activities : LookupByCall(k)
           \/ SweepByCall \/ LookupByHash \/ SweepByHash
           \/ UNCHANGED vars
  BY <1>1, <1>6 DEF AgentAsks, AgentAsksUnnumbered, AgentExits, SessionClose, PumpArm, PumpRegister, PumpEmit, TimerFire,
     TimerMiss, TimerEmit, TtlPasses, LookupByCall, SweepByCall, LookupByHash, SweepByHash, vars
<1>. QED BY <1>3, <1>4, <1>5, <1>6 DEF Next

\* What a command records was granted.
LEMMA RecordedIsGranted ==
  ASSUME DecisionInv, TruthInv, RecordsApprove, NEW c \in Clients, cmd[c].pc = "record"
  PROVE  cmd[c].r \in Requests /\ Granted(cmd[c].r)
<1>1. cmd[c].r \in Requests /\ cmd[c].id \in Ids /\ cmd[c].intent = "approve"
  BY DEF DecisionInv, Ledger, Busy, RecordsApprove
<1>2. answers[cmd[c].r] = <<cmd[c].id>> BY DEF TruthInv, Given
<1>3. Kind(cmd[c].r, cmd[c].id) \in Eligible("approve") BY <1>1 DEF TruthInv, Chosen
<1>4. cmd[c].id # Cancelled BY <1>1, OutcomeAssumption DEF Cancelled
<1>. QED BY <1>1, <1>2, <1>3, <1>4 DEF Granted, Kind, Eligible

\* record_resolved_approval inserts it under the keys of its call.
LEMMA RecordKeeps ==
  ASSUME DecisionInv, TruthInv, RecordsApprove, MapsTrue, AnswersStay,
         NEW c \in Clients, ResolveRecord(c)
  PROVE  MapsTrue'
<1> DEFINE r == cmd[c].r
<1>1. r \in Requests /\ Granted(r) /\ answers' = answers /\ info' = info
  BY RecordedIsGranted DEF ResolveRecord, decision
<1>2. /\ byCall' = [t \in CallIds |-> IF t = info[r].call.tc THEN r ELSE byCall[t]]
      /\ byHash' = [byHash EXCEPT ![info[r].call.hash] = r]
  BY DEF ResolveRecord
<1>3. byHash \in [Hashes -> Requests \cup {No}]
  BY DEF DecisionInv, TypeOK, CorrelationTypes
<1>. HIDE DEF r
<1>4. ASSUME NEW t \in CallIds
      PROVE  \E q : byCall'[t] = q /\ (q \in {byCall[t], No} \/ CallEntry(t, q)')
  BY <1>1, <1>2 DEF CallEntry, Granted
<1>5. ASSUME NEW h \in Hashes
      PROVE  \E q : byHash'[h] = q /\ (q \in {byHash[h], No} \/ HashEntry(h, q)')
  BY <1>1, <1>2, <1>3 DEF HashEntry, Granted
<1>. QED BY <1>4, <1>5, MapsKeep

\* The four steps of correlate_approval.
LEMMA LookupKeeps ==
  ASSUME DecisionInv, MapsTrue, BadgesTrue, AnswersStay,
         \/ \E k \in Activities : LookupByCall(k)
         \/ SweepByCall \/ LookupByHash \/ SweepByHash
  PROVE  MapsTrue' /\ BadgesTrue'
<1>0. CorrelationTypes BY DEF DecisionInv, TypeOK
<1>1. ASSUME byCall' = byCall, byHash' = byHash PROVE MapsTrue' BY <1>1, MapsKeep
<1>2. ASSUME NEW k \in Activities, LookupByCall(k) PROVE MapsTrue' /\ BadgesTrue'
  <2>1. MapsTrue' BY <1>1, <1>2 DEF LookupByCall, cache
  <2>2. CASE labels' = labels BY <2>1, <2>2, BadgesKeep
  <2>3. CASE labels' # labels
    <3>1. k.tc \in CallIds /\ Labelled(k, byCall[k.tc]) BY <1>2, <2>3 DEF LookupByCall
    <3>2. byCall[k.tc] \in Requests \cup {No} BY <1>0, <3>1 DEF CorrelationTypes
    <3>3. BadgeTrue(k, byCall[k.tc]) BY <3>1 DEF MapsTrue, CallEntry, BadgeTrue
    <3>. QED BY <2>1, <3>1, <3>2, <3>3, BadgeAdded
  <2>. QED BY <2>1, <2>2, <2>3
<1>3. CASE SweepByCall
  <2>1. /\ byCall \in [CallIds -> Requests \cup {No}]
        /\ byCall' = [byCall EXCEPT ![look.call.tc] = No] /\ byHash' = byHash /\ labels' = labels
    BY <1>0, <1>3 DEF SweepByCall, CorrelationTypes
  <2>2. \A t \in CallIds : byCall'[t] \in {byCall[t], No} BY <2>1
  <2>3. MapsTrue' BY <2>1, <2>2, MapsKeep
  <2>. QED BY <2>1, <2>3, BadgesKeep
<1>4. CASE LookupByHash
  <2>1. MapsTrue' BY <1>1, <1>4 DEF LookupByHash, cache
  <2>2. look.call \in Activities BY <1>0, <1>4 DEF LookupByHash, CorrelationTypes
  <2>3. CASE labels' = labels BY <2>1, <2>3, BadgesKeep
  <2>4. CASE labels' # labels
    <3>1. CASE Labelled(look.call, No)
      <4>1. BadgeTrue(look.call, No) BY DEF BadgeTrue
      <4>. QED BY <2>1, <2>2, <3>1, <4>1, BadgeAdded
    <3>2. CASE look.call.hash \in Hashes /\ Labelled(look.call, byHash[look.call.hash])
      <4>1. byHash[look.call.hash] \in Requests \cup {No} BY <1>0, <3>2 DEF CorrelationTypes
      <4>2. BadgeTrue(look.call, byHash[look.call.hash])
        BY <3>2 DEF MapsTrue, HashEntry, BadgeTrue
      <4>. QED BY <2>1, <2>2, <3>2, <4>1, <4>2, BadgeAdded
    <3>. QED BY <1>4, <2>4, <3>1, <3>2 DEF LookupByHash
  <2>. QED BY <2>3, <2>4
<1>5. CASE SweepByHash
  <2>1. /\ byHash \in [Hashes -> Requests \cup {No}] /\ look.call \in Activities
        /\ byHash' = [byHash EXCEPT ![look.call.hash] = No] /\ byCall' = byCall
        /\ Labelled(look.call, No)
    BY <1>0, <1>5 DEF SweepByHash, CorrelationTypes
  <2>2. \A h \in Hashes : byHash'[h] \in {byHash[h], No} BY <2>1
  <2>3. MapsTrue' BY <2>1, <2>2, MapsKeep
  <2>4. BadgeTrue(look.call, No) BY DEF BadgeTrue
  <2>. QED BY <2>1, <2>3, <2>4, BadgeAdded
<1>. QED BY <1>2, <1>3, <1>4, <1>5

LEMMA InitLabel == Init => LabelInv
<1>. SUFFICES ASSUME Init PROVE LabelInv
  OBVIOUS
<1>1. RecordsApprove BY DEF Init, RecordsApprove, Quiet
<1>2. MapsTrue BY DEF Init, MapsTrue, CallEntry, HashEntry
<1>3. BadgesTrue BY DEF Init, BadgesTrue
<1>. QED BY <1>1, <1>2, <1>3 DEF LabelInv

LEMMA NextLabel == DecisionInv /\ TruthInv /\ LabelInv /\ [Next]_vars => LabelInv'
<1>. SUFFICES ASSUME DecisionInv, TruthInv, LabelInv, [Next]_vars PROVE LabelInv'
  OBVIOUS
<1>0. RecordsApprove /\ MapsTrue /\ BadgesTrue BY DEF LabelInv
<1>1. AnswersStay BY NextAnswersStay
<1>2. RecordsApprove' BY <1>0, NextRecordsApprove
<1>3. CASE \E c \in Clients : ResolveRecord(c)
  <2>1. MapsTrue' BY <1>0, <1>1, <1>3, RecordKeeps
  <2>2. labels' = labels BY <1>3 DEF ResolveRecord, lookup
  <2>. QED BY <1>0, <1>1, <1>2, <2>1, <2>2, BadgesKeep DEF LabelInv
<1>4. CASE (\E k \in Activities : LookupByCall(k)) \/ SweepByCall \/ LookupByHash \/ SweepByHash
  BY <1>0, <1>1, <1>2, <1>4, LookupKeeps DEF LabelInv
<1>5. ASSUME byCall' = byCall, byHash' = byHash, labels' = labels PROVE LabelInv'
  <2>1. MapsTrue' BY <1>0, <1>1, <1>5, MapsKeep
  <2>. QED BY <1>0, <1>1, <1>2, <1>5, <2>1, BadgesKeep DEF LabelInv
<1>6. CASE \/ \E r \in Requests, opts \in OptionLists, call \in Calls :
                AgentAsks(r, opts, call) \/ AgentAsksUnnumbered(r, opts, call)
           \/ AgentExits \/ SessionClose \/ PumpArm \/ PumpRegister \/ PumpEmit
           \/ \E r \in Requests : TimerFire(r) \/ TimerMiss(r) \/ TimerEmit(r) \/ TtlPasses(r)
           \/ UNCHANGED vars
  BY <1>5, <1>6 DEF AgentAsks, AgentAsksUnnumbered, AgentExits, SessionClose, PumpArm, PumpRegister, PumpEmit, TimerFire,
     TimerMiss, TimerEmit, TtlPasses, vars, cache, lookup
<1>7. CASE \/ \E c \in Clients, r \in Requests, intent \in Intents, explicit \in Ids \cup {No} :
                ResolveChoose(c, r, intent, explicit)
           \/ \E c \in Clients : \/ ResolveTake(c) \/ ResolveLost(c) \/ ResolveRespond(c)
                                \/ ResolveUnreachable(c) \/ ResolveEmit(c)
  BY <1>5, <1>7 DEF ResolveChoose, ResolveTake, ResolveLost, ResolveRespond, ResolveUnreachable,
     ResolveEmit, cache, lookup
<1>. QED BY <1>3, <1>4, <1>6, <1>7 DEF Next

\* A tool activity carries an approval's badge only when that approval's answer
\* let a tool run and is of the same call, whatever the interleaving of the
\* decisions, the TTL and correlate_approval's look-ups and sweeps.
THEOREM BadgesAreEarned == Spec => []LabelsTrue
<1>1. LabelInv => LabelsTrue BY DEF LabelInv, BadgesTrue, BadgeTrue, LabelsTrue
<1>. QED BY <1>1, InitDecision, NextDecision, InitTruth, NextTruth, InitLabel, NextLabel, PTL DEF Spec

-------------------------------------------------------------------------------
(* The register.  What the agent and the clients see are steps of           *)
(* DecisionRegister: AgentAsks is Ask, AgentExits is Leave, a ResolveRespond  *)
(* and a TimerFire that reaches the agent are Answer, ResolveEmit and       *)
(* TimerEmit are Tell, and every other step is a stutter.                   *)

seen == <<alive, info, answers, Told>>

\* A command carries an id of the menu of its request.
Offered == \A c \in Clients : cmd[c].pc # "idle" => HasId(info[cmd[c].r].opts, cmd[c].id)

\* A timer that has cancelled without an answer found no agent.
SilentWhenGone == \A r \in Requests : timer[r] = "emit" /\ answers[r] = << >> => ~alive

RegisterInv == Offered /\ SilentWhenGone

LEMMA InitRegister == Init => RegisterInv
BY DEF Init, RegisterInv, Offered, SilentWhenGone, Quiet

\* resolve_option only returns an id it has found in the menu.
LEMMA ChosenIsOffered ==
  ASSUME NEW opts, NEW explicit, NEW intent, ResolveOption(opts, explicit, intent) # No
  PROVE  HasId(opts, ResolveOption(opts, explicit, intent))
BY DEF ResolveOption

LEMMA NextOffered ==
  ASSUME DecisionInv, Offered, [Next]_vars
  PROVE  Offered'
<1>0. DecisionTypes BY DEF DecisionInv, TypeOK
<1>1. ASSUME UNCHANGED <<cmd, info>> PROVE Offered'
  BY <1>1 DEF Offered
<1>2. ASSUME NEW r \in Requests, NEW opts \in OptionLists, NEW call \in Calls,
             AgentAsks(r, opts, call) \/ AgentAsksUnnumbered(r, opts, call)
      PROVE  Offered'
  <2>1. /\ cmd' = cmd /\ info[r] = No
        /\ \E b \in BOOLEAN :
             info' = [info EXCEPT ![r] = [opts |-> opts, call |-> call, numbered |-> b]]
    BY <1>2 DEF AgentAsks, AgentAsksUnnumbered
  <2>2. ASSUME NEW c \in Clients, cmd[c].pc # "idle"
        PROVE  info'[cmd[c].r] = info[cmd[c].r]
    <3>1. cmd[c].r \in Requests /\ info[cmd[c].r] # No BY <2>2, Made
    <3>. QED BY <1>0, <2>1, <3>1 DEF DecisionTypes
  <2>. QED BY <2>1, <2>2 DEF Offered
<1>3. ASSUME NEW c \in Clients, UNCHANGED info,
             \E v : cmd' = [cmd EXCEPT ![c] = v] /\ (v.pc # "idle" => HasId(info[v.r].opts, v.id))
      PROVE  Offered'
  BY <1>0, <1>3 DEF Offered, DecisionTypes
<1>4. ASSUME NEW c \in Clients, NEW r \in Requests, NEW intent \in Intents,
             NEW explicit \in Ids \cup {No}, ResolveChoose(c, r, intent, explicit)
      PROVE  Offered'
  <2> DEFINE id == ResolveOption(info[r].opts, explicit, intent)
             v == [pc |-> "take", r |-> r, intent |-> intent, id |-> id]
  <2>1. id # No /\ cmd' = [cmd EXCEPT ![c] = v] /\ UNCHANGED info
    BY <1>4 DEF ResolveChoose, decision
  <2>2. HasId(info[r].opts, id) BY <2>1, ChosenIsOffered
  <2>3. HasId(info[v.r].opts, v.id) BY <2>2
  <2>. HIDE DEF id, v
  <2>. QED BY <1>3, <2>1, <2>3
<1>5. ASSUME NEW c \in Clients, UNCHANGED info, cmd[c].pc # "idle",
             \/ cmd' = [cmd EXCEPT ![c] = Quiet]
             \/ \E pc \in Stages : cmd' = Advance(c, pc)
      PROVE  Offered'
  <2>1. HasId(info[cmd[c].r].opts, cmd[c].id) BY <1>5 DEF Offered
  <2>2. CASE cmd' = [cmd EXCEPT ![c] = Quiet]
    <3>1. Quiet.pc = "idle" BY DEF Quiet
    <3>. QED BY <1>3, <1>5, <2>2, <3>1
  <2>3. CASE \E pc \in Stages : cmd' = Advance(c, pc)
    BY <1>3, <1>5, <2>1, <2>3 DEF Advance
  <2>. QED BY <1>5, <2>2, <2>3
<1>6. CASE \E c \in Clients : \/ ResolveTake(c) \/ ResolveLost(c) \/ ResolveRespond(c)
                              \/ ResolveUnreachable(c) \/ ResolveRecord(c) \/ ResolveEmit(c)
  BY <1>5, <1>6 DEF ResolveTake, ResolveLost, ResolveRespond, ResolveUnreachable, ResolveRecord,
     ResolveEmit, decision, Stages
<1>7. CASE \/ AgentExits \/ SessionClose \/ PumpArm \/ PumpRegister \/ PumpEmit
           \/ \E r \in Requests : TimerFire(r) \/ TimerMiss(r) \/ TimerEmit(r) \/ TtlPasses(r)
           \/ \E k \in Activities : LookupByCall(k)
           \/ SweepByCall \/ LookupByHash \/ SweepByHash \/ UNCHANGED vars
  BY <1>1, <1>7 DEF AgentExits, SessionClose, PumpArm, PumpRegister, PumpEmit, TimerFire, TimerMiss,
     TimerEmit, TtlPasses, LookupByCall, SweepByCall, LookupByHash, SweepByHash, decision, vars
<1>. QED BY <1>2, <1>4, <1>6, <1>7 DEF Next

LEMMA NextSilent ==
  ASSUME DecisionInv, SilentWhenGone, [Next]_vars
  PROVE  SilentWhenGone'
<1>0. DecisionTypes BY DEF DecisionInv, TypeOK
<1>1. ASSUME alive' = alive \/ ~alive', UNCHANGED answers,
             \A r \in Requests : timer'[r] = "emit" => timer[r] = "emit"
      PROVE  SilentWhenGone'
  BY <1>1 DEF SilentWhenGone
<1>2. ASSUME NEW r \in Requests, TimerFire(r) PROVE SilentWhenGone'
  <2>1. answers[r] = << >> BY <1>2 DEF TimerFire, DecisionInv, Ledger, AnsweredLeft
  <2>2. alive => answers'[r] # << >>
    BY <1>0, <1>2, <2>1 DEF TimerFire, Respond, DecisionTypes
  <2>3. \A q \in Requests : q # r => answers'[q] = answers[q] /\ timer'[q] = timer[q]
    BY <1>0, <1>2 DEF TimerFire, Respond, DecisionTypes
  <2>4. alive' = alive BY <1>2 DEF TimerFire
  <2>. QED BY <2>2, <2>3, <2>4 DEF SilentWhenGone
<1>3. ASSUME NEW c \in Clients, ResolveRespond(c) PROVE SilentWhenGone'
  <2>1. cmd[c].r \in Requests /\ Decides(c)
    BY <1>3 DEF ResolveRespond, DecisionInv, Ledger, Busy, Decides
  <2>2. timer[cmd[c].r] # "emit" BY <2>1 DEF DecisionInv, Single, OneHolder
  <2>3. /\ alive' = alive
        /\ timer' = [timer EXCEPT ![cmd[c].r] = IF @ = "armed" THEN "aborted" ELSE @]
        /\ \A q \in Requests : q # cmd[c].r => answers'[q] = answers[q]
    BY <1>0, <1>3, <2>1 DEF ResolveRespond, Respond, DecisionTypes
  <2>. QED BY <1>0, <2>1, <2>2, <2>3 DEF SilentWhenGone, DecisionTypes
<1>4. CASE \/ \E r \in Requests, opts \in OptionLists, call \in Calls :
                AgentAsks(r, opts, call) \/ AgentAsksUnnumbered(r, opts, call)
           \/ AgentExits \/ SessionClose \/ PumpRegister \/ PumpEmit
           \/ \E r \in Requests : TtlPasses(r)
           \/ \E c \in Clients, r \in Requests, intent \in Intents, explicit \in Ids \cup {No} :
                ResolveChoose(c, r, intent, explicit)
           \/ \E c \in Clients : ResolveTake(c) \/ ResolveLost(c) \/ ResolveRecord(c) \/ ResolveEmit(c)
           \/ \E k \in Activities : LookupByCall(k)
           \/ SweepByCall \/ LookupByHash \/ SweepByHash \/ UNCHANGED vars
  <2>1. (alive' = alive \/ ~alive') /\ UNCHANGED <<answers, timer>>
    BY <1>4 DEF AgentAsks, AgentAsksUnnumbered, AgentExits, SessionClose, PumpRegister,
       PumpEmit, TtlPasses, ResolveChoose,
       ResolveTake, ResolveLost, ResolveRecord, ResolveEmit, LookupByCall, SweepByCall,
       LookupByHash, SweepByHash, decision, vars
  <2>. QED BY <1>1, <2>1
<1>5. ASSUME NEW r \in Requests, TimerMiss(r) \/ TimerEmit(r) PROVE SilentWhenGone'
  BY <1>0, <1>1, <1>5 DEF TimerMiss, TimerEmit, DecisionTypes
<1>6. CASE PumpArm
  BY <1>0, <1>1, <1>6 DEF PumpArm, DecisionTypes
<1>7. ASSUME NEW c \in Clients, ResolveUnreachable(c) PROVE SilentWhenGone'
  BY <1>0, <1>1, <1>7 DEF ResolveUnreachable, DecisionTypes
<1>. QED BY <1>2, <1>3, <1>4, <1>5, <1>6, <1>7 DEF Next

-------------------------------------------------------------------------------
\* An event adds to what clients were told if it is a resolution, and only then.
LEMMA TellingAdds ==
  ASSUME DecisionInv, NEW e \in Events, events' = Append(events, e)
  PROVE  IF e.type = "resolved"
         THEN Told' = [Told EXCEPT ![e.r] = @ \cup {e.outcome}]
         ELSE Told' = Told
<1>1. events \in Seq(Events) BY DEF DecisionInv, TypeOK, DecisionTypes
<1>2. /\ DOMAIN events = 1..Len(events) /\ Len(events) \in Nat
      /\ DOMAIN events' = 1..(Len(events) + 1)
      /\ \A i \in 1..Len(events) : events'[i] = events[i]
      /\ events'[Len(events) + 1] = e
  BY <1>1, AppendElements
<1>3. ASSUME NEW r \in Requests
      PROVE  Told'[r] = IF e.type = "resolved" /\ e.r = r THEN Told[r] \cup {e.outcome} ELSE Told[r]
  <2>1. Resolutions(r)' = IF e.type = "resolved" /\ e.r = r
                          THEN Resolutions(r) \cup {Len(events) + 1} ELSE Resolutions(r)
    BY <1>2 DEF Resolutions
  <2>2. \A i \in Resolutions(r) : i \in 1..Len(events) BY <1>2 DEF Resolutions
  <2>3. Told'[r] = {events'[i].outcome : i \in Resolutions(r)'} BY DEF Told
  <2>4. Told[r] = {events[i].outcome : i \in Resolutions(r)} BY DEF Told
  <2>5. {events'[i].outcome : i \in Resolutions(r)} = Told[r] BY <1>2, <2>2, <2>4
  <2>6. CASE e.type = "resolved" /\ e.r = r
    <3>1. Told'[r] = {events'[i].outcome : i \in Resolutions(r)} \cup {events'[Len(events) + 1].outcome}
      BY <2>1, <2>3, <2>6
    <3>. QED BY <1>2, <2>5, <2>6, <3>1
  <2>7. CASE ~(e.type = "resolved" /\ e.r = r)
    BY <2>1, <2>3, <2>5, <2>7
  <2>. QED BY <2>6, <2>7
<1>4. Told \in [Requests -> SUBSET {events[i].outcome : i \in DOMAIN events}]
  BY DEF Told, Resolutions
<1>5. Told' = [r \in Requests |-> Told'[r]] BY DEF Told
<1>6. e.r \in Requests BY DEF Events
<1>. QED BY <1>3, <1>4, <1>5, <1>6

\* A request without resolutions was told nothing.
LEMMA UntoldRequest ==
  ASSUME NEW r \in Requests, Resolutions(r) = {}
  PROVE  Told[r] = {}
BY DEF Told

\* What a command carries means to the agent what its client decided.
LEMMA CommandMeans ==
  ASSUME DecisionInv, TruthInv, Offered, NEW c \in Clients, cmd[c].pc # "idle"
  PROVE  Register!Means(info[cmd[c].r], cmd[c].id, Label(cmd[c].intent))
<1>1. HasId(info[cmd[c].r].opts, cmd[c].id) BY DEF Offered
<1>2. OptionOf(info[cmd[c].r].opts, cmd[c].id).kind \in Eligible(cmd[c].intent)
  BY DEF TruthInv, Chosen, Kind
<1>3. OptionOf(info[cmd[c].r].opts, cmd[c].id) = Register!Chosen(info[cmd[c].r].opts, cmd[c].id)
  BY DEF OptionOf, Register!Chosen
<1>4. cmd[c].intent \in Intents BY DEF DecisionInv, TypeOK, DecisionTypes, Commands
<1>5. Eligible(cmd[c].intent) = Register!Kinds(Label(cmd[c].intent))
  BY <1>4 DEF Intents, Eligible, Register!Kinds, Label, AllowKinds, RejectKinds
<1>. QED BY <1>1, <1>2, <1>3, <1>5 DEF HasId, Register!Means

\* Nobody has been told of a request that a client is deciding.
LEMMA DecidingIsUntold ==
  ASSUME DecisionInv, NEW c \in Clients, Decides(c)
  PROVE  cmd[c].r \in Requests /\ info[cmd[c].r] # No /\ Told[cmd[c].r] = {}
<1>1. cmd[c].r \in Requests /\ info[cmd[c].r] # No BY Made DEF Decides
<1>2. Resolutions(cmd[c].r) = {} BY DEF DecisionInv, Single, OneHolder, Resolutions
<1>. QED BY <1>1, <1>2, UntoldRequest

LEMMA RespondAnswers ==
  ASSUME DecisionInv, TruthInv, Offered, NEW c \in Clients, ResolveRespond(c)
  PROVE  Register!Next
<1> DEFINE r == cmd[c].r
           id == cmd[c].id
<1>1. /\ cmd[c].pc = "respond" /\ alive /\ UNCHANGED <<alive, info, events>>
      /\ answers' = [answers EXCEPT ![r] = Append(@, id)]
  BY DEF ResolveRespond, Respond
<1>2. r \in Requests /\ info[r] # No /\ Told[r] = {} BY <1>1, DecidingIsUntold DEF Decides
<1>3. answers[r] = << >> /\ id \in Ids
  BY <1>1, <1>2 DEF DecisionInv, Ledger, AnsweredLeft, Busy
<1>4. Register!Means(info[r], id, Label(cmd[c].intent)) BY <1>1, CommandMeans
<1>5. Label(cmd[c].intent) \in Register!Outcomes BY DEF Label, Register!Outcomes
<1>6. answers' = [answers EXCEPT ![r] = <<id>>]
  <2>1. Append(answers[r], id) = <<id>> BY <1>3
  <2>. QED BY <1>1, <2>1
<1>7. Told' = Told BY <1>1 DEF Told, Resolutions
<1>. HIDE DEF r, id
<1>8. Register!Answer(r, id)
  BY <1>1, <1>2, <1>3, <1>4, <1>5, <1>6, <1>7 DEF Register!Answer
<1>. QED BY <1>2, <1>3, <1>8 DEF Register!Next

LEMMA EmitTells ==
  ASSUME DecisionInv, TruthInv, Offered, NEW c \in Clients, ResolveEmit(c)
  PROVE  Register!Next
<1> DEFINE r == cmd[c].r
           id == cmd[c].id
           outcome == Label(cmd[c].intent)
           e == [type |-> "resolved", r |-> r, outcome |-> outcome]
<1>1. /\ cmd[c].pc = "emit" /\ UNCHANGED <<alive, info, answers>>
      /\ events' = Append(events, e)
  BY DEF ResolveEmit
<1>2. r \in Requests /\ info[r] # No /\ Told[r] = {} BY <1>1, DecidingIsUntold DEF Decides
<1>3. answers[r] = <<id>> /\ id \in Ids
  BY <1>1 DEF TruthInv, Given, DecisionInv, Ledger, Busy
<1>4. Register!Means(info[r], id, outcome) BY <1>1, CommandMeans
<1>5. outcome \in {"approved", "rejected"} BY DEF Label
<1>6. e \in Events BY <1>2, <1>5 DEF Events
<1>7. Told' = [Told EXCEPT ![r] = {outcome}]
  <2>1. Told' = [Told EXCEPT ![r] = @ \cup {outcome}] BY <1>1, <1>6, TellingAdds
  <2>. QED BY <1>2, <2>1
<1>8. outcome \in Register!Outcomes BY <1>5 DEF Register!Outcomes
<1>. HIDE DEF r, id, outcome, e
<1>9. Register!Tell(r, outcome)
  BY <1>1, <1>2, <1>3, <1>4, <1>7 DEF Register!Tell
<1>. QED BY <1>2, <1>8, <1>9 DEF Register!Next

LEMMA FireAnswers ==
  ASSUME DecisionInv, NEW r \in Requests, TimerFire(r)
  PROVE  Register!Next \/ UNCHANGED seen
<1>1. r \in pending /\ timer[r] = "armed" /\ UNCHANGED <<alive, info, events>> BY DEF TimerFire
<1>2. Told' = Told BY <1>1 DEF Told, Resolutions
<1>3. CASE ~alive
  BY <1>1, <1>2, <1>3 DEF TimerFire, Respond, seen
<1>4. CASE alive
  <2>1. answers[r] = << >> BY <1>1 DEF DecisionInv, Ledger, AnsweredLeft
  <2>2. info[r] # No BY <1>1 DEF DecisionInv, Ledger, MadeFirst
  <2>3. Resolutions(r) = {} BY <1>1 DEF DecisionInv, Single, OneHolder, Resolutions
  <2>4. Told[r] = {} BY <2>3, UntoldRequest
  <2>5. answers' = [answers EXCEPT ![r] = <<Cancelled>>]
    <3>1. Append(answers[r], Cancelled) = <<Cancelled>> BY <2>1
    <3>2. answers' = [answers EXCEPT ![r] = Append(@, Cancelled)] BY <1>4 DEF TimerFire, Respond
    <3>. QED BY <3>1, <3>2
  <2>6. Register!Means(info[r], Cancelled, "timeout")
    BY DEF Register!Means, Register!Cancelled, Cancelled
  <2>7. Register!Answer(r, Cancelled)
    BY <1>1, <1>2, <1>4, <2>1, <2>2, <2>4, <2>5, <2>6 DEF Register!Answer, Register!Outcomes
  <2>. QED BY <2>7 DEF Register!Next, Register!Cancelled, Cancelled
<1>. QED BY <1>3, <1>4

LEMMA TimerTells ==
  ASSUME DecisionInv, TruthInv, SilentWhenGone, NEW r \in Requests, TimerEmit(r)
  PROVE  Register!Next
<1> DEFINE e == [type |-> "resolved", r |-> r, outcome |-> "timeout"]
<1>1. /\ timer[r] = "emit" /\ UNCHANGED <<alive, info, answers>>
      /\ events' = Append(events, e)
  BY DEF TimerEmit
<1>2. info[r] # No BY <1>1 DEF DecisionInv, Ledger, MadeFirst
<1>3. Resolutions(r) = {} BY <1>1 DEF DecisionInv, Single, OneHolder, Resolutions
<1>4. Told[r] = {} BY <1>3, UntoldRequest
<1>5. \/ answers[r] = << >> /\ ~alive
      \/ answers[r] = <<Cancelled>> /\ Register!Means(info[r], Cancelled, "timeout")
  BY <1>1 DEF TruthInv, TimerTrue, SilentWhenGone, Register!Means, Register!Cancelled, Cancelled
<1>6. Told' = [Told EXCEPT ![r] = {"timeout"}]
  <2>1. e \in Events BY DEF Events
  <2>2. Told' = [Told EXCEPT ![r] = @ \cup {"timeout"}] BY <1>1, <2>1, TellingAdds
  <2>. QED BY <1>4, <2>2
<1>. HIDE DEF e
<1>7. Register!Tell(r, "timeout")
  BY <1>1, <1>2, <1>4, <1>5, <1>6 DEF Register!Tell, Register!Cancelled, Cancelled
<1>. QED BY <1>7 DEF Register!Next, Register!Outcomes

\* Every step is a step of the register or leaves what is seen of it alone.
LEMMA NextRefines ==
  ASSUME DecisionInv, TruthInv, RegisterInv, [Next]_vars
  PROVE  Register!Next \/ UNCHANGED seen
<1>0. Offered /\ SilentWhenGone BY DEF RegisterInv
<1>1. ASSUME events' = events PROVE Told' = Told BY <1>1 DEF Told, Resolutions
<1>2. ASSUME NEW r \in Requests, NEW opts \in OptionLists, NEW call \in Calls,
             AgentAsks(r, opts, call) \/ AgentAsksUnnumbered(r, opts, call)
      PROVE  Register!Next
  <2>1. PICK b \in BOOLEAN : Register!Ask(r, [opts |-> opts, call |-> call, numbered |-> b])
    BY <1>1, <1>2 DEF AgentAsks, AgentAsksUnnumbered, Register!Ask
  <2>2. [opts |-> opts, call |-> call, numbered |-> b] \in Info BY DEF Info
  <2>. QED BY <2>1, <2>2 DEF Register!Next
<1>3. CASE AgentExits
  BY <1>1, <1>3 DEF AgentExits, Register!Leave, Register!Next
<1>4. CASE PumpEmit
  <2>1. pump \in Requests BY <1>4 DEF PumpEmit, DecisionInv, TypeOK, DecisionTypes
  <2>2. [type |-> "pending", r |-> pump, outcome |-> No] \in Events BY <2>1 DEF Events
  <2>3. Told' = Told BY <1>4, <2>2, TellingAdds DEF PumpEmit
  <2>. QED BY <1>4, <2>3 DEF PumpEmit, seen
<1>5. ASSUME UNCHANGED <<alive, info, answers, events>> PROVE UNCHANGED seen
  BY <1>1, <1>5 DEF seen
<1>6. CASE \/ SessionClose \/ PumpArm \/ PumpRegister
           \/ \E r \in Requests : TimerMiss(r) \/ TtlPasses(r)
           \/ \E c \in Clients, r \in Requests, intent \in Intents, explicit \in Ids \cup {No} :
                ResolveChoose(c, r, intent, explicit)
           \/ \E c \in Clients : \/ ResolveTake(c) \/ ResolveLost(c) \/ ResolveUnreachable(c)
                                 \/ ResolveRecord(c)
           \/ \E k \in Activities : LookupByCall(k)
           \/ SweepByCall \/ LookupByHash \/ SweepByHash \/ UNCHANGED vars
  BY <1>5, <1>6 DEF SessionClose, PumpArm, PumpRegister, TimerMiss, TtlPasses, ResolveChoose, ResolveTake,
     ResolveLost, ResolveUnreachable, ResolveRecord, LookupByCall, SweepByCall, LookupByHash,
     SweepByHash, decision, vars
<1>7. ASSUME NEW r \in Requests, TimerFire(r) PROVE Register!Next \/ UNCHANGED seen
  BY <1>7, FireAnswers
<1>8. ASSUME NEW r \in Requests, TimerEmit(r) PROVE Register!Next BY <1>0, <1>8, TimerTells
<1>9. ASSUME NEW c \in Clients, ResolveRespond(c) PROVE Register!Next
  BY <1>0, <1>9, RespondAnswers
<1>10. ASSUME NEW c \in Clients, ResolveEmit(c) PROVE Register!Next BY <1>0, <1>10, EmitTells
<1>. QED BY <1>2, <1>3, <1>4, <1>6, <1>7, <1>8, <1>9, <1>10 DEF Next

\* Deciding a permission request is one decision, whatever clients, timers and
\* the agent's end do at the same time (resolve_approval, the auto-cancel timer):
\* Approvals implements DecisionRegister.
THEOREM DecisionRefinement == Spec => OneDecision
<1>1. Init => Register!Init
  BY DEF Init, Register!Init, Told, Resolutions
<1>2. DecisionInv /\ RegisterInv /\ [Next]_vars => RegisterInv'
  BY NextOffered, NextSilent DEF RegisterInv
<1>3. DecisionInv /\ TruthInv /\ RegisterInv /\ [Next]_vars => [Register!Next]_seen
  BY NextRefines
<1>. QED
  BY <1>1, <1>2, <1>3, InitDecision, NextDecision, InitTruth, NextTruth, InitRegister, PTL
     DEF Spec, OneDecision, Register!Spec, seen

=============================================================================
