------------------------- MODULE ServerValues_proofs -------------------------
(***************************************************************************)
(* Proofs that a quiet server holds the model's value and that remote      *)
(* reads are fresh, for any number of threads, sessions and changes.       *)
(***************************************************************************)
EXTENDS ServerValues, TLAPS

USE SessionAssumption, ThreadAssumption, ValueAssumption, BoundAssumption

(* Who is between lock and unlock of registry_mutex holds it; only the     *)
(* thread in run() builds and serves; the node is there once it serves,    *)
(* and what a client wrote stays only until the model has it.              *)
InNotify(t) == place[t] \in {"update", "write", "leave"}
Shape ==
    /\ \A t \in Threads : InNotify(t) <=> holder = t
    /\ \A t \in Writers : place[t] \in Notifying \cup {"idle"}
    /\ stored = Nothing <=> place[Loop] \in {"create", "add"}
    /\ place[Loop] = "offer" => offers
    /\ stored = Remote
           => place[Loop] \in {"handleOnWrite", "changed", "update", "write"}

(* Values are as old as their place allows. *)
Fresh ==
    /\ floor <= published /\ published <= version
    /\ \A t \in Threads : place[t] \in {"write", "leave"} => published <= held[t]
    /\ \A t \in Threads : held[t] <= version
    /\ stored = Nothing => published = 0
    /\ \A t \in Threads :
           place[t] = "leave" /\ ~refused
               => /\ stored # Nothing
                  /\ ~offers /\ stored \in Nat => held[t] <= stored
    /\ ~offers /\ stored \in Nat => published <= stored
    /\ place[Loop] = "offer" => floor <= held[Loop]
    /\ place[Loop] = "answer" => floor <= stored

(* A thread that will write an old value leaves another one with a newer;  *)
(* while nobody has a newer value to write, the last one is in place.      *)
Newer(t) == place[t] \in {"changed", "handleOnWrite"}
Pending(t) ==
    \/ Newer(t) \/ place[t] = "update"
    \/ place[t] = "write" /\ held[t] = version
Quiet ==
    /\ \A t \in Threads :
           place[t] = "write" /\ held[t] # version
               => \E u \in Threads : Newer(u)
    /\ (\A t \in Threads : ~Pending(t)) /\ ~refused /\ ~offers
           => /\ stored = Nothing \/ stored = version
              /\ place[Loop] = "add" => held[Loop] = version

LEMMA LoopIsThread == Loop \in Threads
BY DEF Threads

(* The types and the shape are inductive. *)
LEMMA InitShape == Init => TypeOK /\ Shape
<1> SUFFICES ASSUME Init PROVE TypeOK /\ Shape
  OBVIOUS
<1>1. TypeOK
  BY LoopIsThread DEF Init, TypeOK
<1>2. Shape
  BY LoopIsThread DEF Init, Shape, InNotify, Notifying, Threads
<1> QED
  BY <1>1, <1>2

LEMMA NextTypeOK == TypeOK /\ [Next]_vars => TypeOK'
<1> SUFFICES ASSUME TypeOK, [Next]_vars PROVE TypeOK'
  OBVIOUS
<1> USE LoopIsThread DEF TypeOK, Go, ReadModel, OnWrite, Own, native, history,
        class
<1>1. ASSUME NEW t \in Threads, Change(t) PROVE TypeOK'
  BY <1>1 DEF Change, Notifying
<1>2. ASSUME NEW t \in Threads, NotifyBegin(t) PROVE TypeOK'
  BY <1>2 DEF NotifyBegin, Notifying
<1>3. ASSUME NEW t \in Threads, Update(t) PROVE TypeOK'
  BY <1>3 DEF Update, Notifying
<1>4. ASSUME NEW t \in Threads, WriteVariable(t) PROVE TypeOK'
  <2>1. CASE stored = Nothing
    BY <1>4, <2>1 DEF WriteVariable, Notifying
  <2>2. CASE stored # Nothing
    <3>1. place' = [place EXCEPT ![t] = "leave"] /\ stored' = held[t]
      BY <1>4, <2>2 DEF WriteVariable
    <3> QED
      BY <1>4, <2>2, <3>1 DEF WriteVariable, Notifying
  <2> QED
    BY <2>1, <2>2
<1>5. ASSUME NEW t \in Threads, NotifyEnd(t) PROVE TypeOK'
  BY <1>5 DEF NotifyEnd, Notifying
<1>6. CASE InitialValue
  BY <1>6 DEF InitialValue
<1>7. CASE AddVariableNode
  BY <1>7 DEF AddVariableNode
<1>8. CASE RemoteWrite
  BY <1>8 DEF RemoteWrite
<1>9. CASE HandleOnWrite(Loop)
  BY <1>9 DEF HandleOnWrite, Notifying
<1>10. CASE ReadBegin
  BY <1>10 DEF ReadBegin
<1>11. CASE Offer
  BY <1>11 DEF Offer
<1>12. CASE Answer
  BY <1>12 DEF Answer
<1>13. CASE UNCHANGED vars
  BY <1>13 DEF vars
<1> QED
  BY <1>1, <1>2, <1>3, <1>4, <1>5, <1>6, <1>7, <1>8, <1>9, <1>10, <1>11, <1>12,
     <1>13 DEF Next, Notify, Serve

(* registry_mutex, and the stages of the node. *)
LEMMA NextShape == TypeOK /\ Shape /\ [Next]_vars => Shape'
<1> SUFFICES ASSUME TypeOK, Shape, [Next]_vars PROVE Shape'
  OBVIOUS
<1> USE LoopIsThread DEF TypeOK, Shape, InNotify, Notifying, Threads, Go,
        ReadModel, OnWrite, Own, native, history, class
<1>1. ASSUME NEW t \in Threads, Change(t) PROVE Shape'
  BY <1>1 DEF Change
<1>2. ASSUME NEW t \in Threads, NotifyBegin(t) PROVE Shape'
  BY <1>2 DEF NotifyBegin
<1>3. ASSUME NEW t \in Threads, Update(t) PROVE Shape'
  BY <1>3 DEF Update
<1>4. ASSUME NEW t \in Threads, WriteVariable(t) PROVE Shape'
  <2>1. CASE stored = Nothing
    BY <1>4, <2>1 DEF WriteVariable
  <2>2. CASE stored # Nothing
    BY <1>4, <2>2 DEF WriteVariable
  <2> QED
    BY <2>1, <2>2
<1>5. ASSUME NEW t \in Threads, NotifyEnd(t) PROVE Shape'
  BY <1>5 DEF NotifyEnd
<1>6. CASE InitialValue
  BY <1>6 DEF InitialValue
<1>7. CASE AddVariableNode
  BY <1>7 DEF AddVariableNode
<1>8. CASE RemoteWrite
  BY <1>8 DEF RemoteWrite
<1>9. CASE HandleOnWrite(Loop)
  BY <1>9 DEF HandleOnWrite
<1>10. CASE ReadBegin
  BY <1>10 DEF ReadBegin
<1>11. CASE Offer
  BY <1>11 DEF Offer
<1>12. CASE Answer
  BY <1>12 DEF Answer
<1>13. CASE UNCHANGED vars
  BY <1>13 DEF vars
<1> QED
  BY <1>1, <1>2, <1>3, <1>4, <1>5, <1>6, <1>7, <1>8, <1>9, <1>10, <1>11, <1>12,
     <1>13 DEF Next, Notify, Serve

(* No value gets older than its place allows. *)
LEMMA NextFresh == TypeOK /\ Shape /\ Fresh /\ [Next]_vars => Fresh'
<1> SUFFICES ASSUME TypeOK, Shape, Fresh, [Next]_vars PROVE Fresh'
  OBVIOUS
<1> USE LoopIsThread DEF TypeOK, Shape, Fresh, InNotify, Go, ReadModel,
        OnWrite, Own, native, history, class
<1>1. ASSUME NEW t \in Threads, Change(t) PROVE Fresh'
  BY <1>1 DEF Change
<1>2. ASSUME NEW t \in Threads, NotifyBegin(t) PROVE Fresh'
  BY <1>2 DEF NotifyBegin
<1>3. ASSUME NEW t \in Threads, Update(t) PROVE Fresh'
  BY <1>3 DEF Update
<1>4. ASSUME NEW t \in Threads, WriteVariable(t) PROVE Fresh'
  <2>1. CASE stored = Nothing
    BY <1>4, <2>1 DEF WriteVariable
  <2>2. CASE stored # Nothing
    BY <1>4, <2>2 DEF WriteVariable
  <2> QED
    BY <2>1, <2>2
<1>5. ASSUME NEW t \in Threads, NotifyEnd(t) PROVE Fresh'
  BY <1>5 DEF NotifyEnd
<1>6. CASE InitialValue
  BY <1>6 DEF InitialValue
<1>7. CASE AddVariableNode
  BY <1>7 DEF AddVariableNode
<1>8. CASE RemoteWrite
  BY <1>8 DEF RemoteWrite
<1>9. CASE HandleOnWrite(Loop)
  BY <1>9 DEF HandleOnWrite
<1>10. CASE ReadBegin
  BY <1>10 DEF ReadBegin
<1>11. CASE Offer
  BY <1>11 DEF Offer
<1>12. CASE Answer
  BY <1>12 DEF Answer
<1>13. CASE UNCHANGED vars
  BY <1>13 DEF vars
<1> QED
  BY <1>1, <1>2, <1>3, <1>4, <1>5, <1>6, <1>7, <1>8, <1>9, <1>10, <1>11, <1>12,
     <1>13 DEF Next, Notify, Serve

(* The newest value is in place or on its way. *)
LEMMA NextQuiet == TypeOK /\ Shape /\ Quiet /\ [Next]_vars => Quiet'
<1> SUFFICES ASSUME TypeOK, Shape, Quiet, [Next]_vars PROVE Quiet'
  OBVIOUS
<1> USE LoopIsThread DEF TypeOK, Shape, Quiet, Pending, Newer, InNotify, Go,
        ReadModel, OnWrite, Own, native, history, class
<1>1. ASSUME NEW t \in Threads, Change(t) PROVE Quiet'
  BY <1>1 DEF Change
<1>2. ASSUME NEW t \in Threads, NotifyBegin(t) PROVE Quiet'
  BY <1>2 DEF NotifyBegin
<1>3. ASSUME NEW t \in Threads, Update(t) PROVE Quiet'
  BY <1>3 DEF Update
<1>4. ASSUME NEW t \in Threads, WriteVariable(t) PROVE Quiet'
  <2>1. CASE stored = Nothing
    BY <1>4, <2>1 DEF WriteVariable
  <2>2. CASE stored # Nothing
    BY <1>4, <2>2 DEF WriteVariable
  <2> QED
    BY <2>1, <2>2
<1>5. ASSUME NEW t \in Threads, NotifyEnd(t) PROVE Quiet'
  BY <1>5 DEF NotifyEnd
<1>6. CASE InitialValue
  BY <1>6 DEF InitialValue
<1>7. CASE AddVariableNode
  BY <1>7 DEF AddVariableNode
<1>8. CASE RemoteWrite
  BY <1>8 DEF RemoteWrite
<1>9. CASE HandleOnWrite(Loop)
  BY <1>9 DEF HandleOnWrite
<1>10. CASE ReadBegin
  BY <1>10 DEF ReadBegin
<1>11. CASE Offer
  BY <1>11 DEF Offer
<1>12. CASE Answer
  BY <1>12 DEF Answer
<1>13. CASE UNCHANGED vars
  BY <1>13 DEF vars
<1> QED
  BY <1>1, <1>2, <1>3, <1>4, <1>5, <1>6, <1>7, <1>8, <1>9, <1>10, <1>11, <1>12,
     <1>13 DEF Next, Notify, Serve

IInv == TypeOK /\ Shape /\ Fresh /\ Quiet

(* All of it holds in every state of the specification. *)
LEMMA Invariance == Spec => []IInv
<1>1. Init => IInv
  <2>1. Init => Fresh /\ Quiet
    <3> SUFFICES ASSUME Init PROVE Fresh /\ Quiet
      OBVIOUS
    <3>1. Fresh
      BY LoopIsThread DEF Init, Fresh
    <3>2. Quiet
      BY LoopIsThread DEF Init, Quiet, Pending, Newer
    <3> QED
      BY <3>1, <3>2
  <2> QED
    BY <2>1, InitShape DEF IInv
<1>2. IInv /\ [Next]_vars => IInv'
  BY NextTypeOK, NextShape, NextFresh, NextQuiet DEF IInv
<1> QED
  BY <1>1, <1>2, PTL DEF Spec

(* Every variable keeps to its range. *)
THEOREM TypeCorrect == Spec => []TypeOK
BY Invariance, PTL DEF IInv

(* While nobody is at work the node has the model's value: the notifications *)
(* under registry_mutex (AbstractModel.cc:36) leave the newest one last.     *)
THEOREM QuietServerIsCurrent == Spec => []QuietMeansCurrent
<1>1. IInv => QuietMeansCurrent
  BY LoopIsThread DEF IInv, Shape, Quiet, Pending, Newer, QuietMeansCurrent
<1> QED
  BY <1>1, Invariance, PTL

(* A remote read never answers with a value older than the notifications     *)
(* that were complete when it began (OpcUaGenericServer.cc:60-75, 404).      *)
THEOREM RemoteReadsAreFresh == Spec => []ReadsAreFresh
<1>1. IInv => ReadsAreFresh
  BY LoopIsThread DEF IInv, TypeOK, Shape, Fresh, ReadsAreFresh
<1> QED
  BY <1>1, Invariance, PTL
=============================================================================
