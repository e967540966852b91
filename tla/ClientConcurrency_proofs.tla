---------------------- MODULE ClientConcurrency_proofs ----------------------
(***************************************************************************)
(* Theorems about ClientConcurrency, for any sets of threads and variables *)
(* and any bounds.                                                         *)
(*                                                                         *)
(* The mutexes come first: Locked is inductive (it includes TypeOK: an     *)
(* unlock keeps the depth a natural number only because the mutex is       *)
(* held).  Who holds clientMutex then says who may touch the native        *)
(* client, and that at most one notification is in an upcall, from which   *)
(* the order of notifications and the promise of getVariableNextValue      *)
(* follow.                                                                 *)
(***************************************************************************)
EXTENDS ClientConcurrency, TLAPS

Locked == TypeOK /\ LocksFollowScopes

(***************************************************************************)
(* The recursive mutex                                                     *)
(***************************************************************************)

(* A thread with open scopes owns the mutex, and nobody else has any. *)
LEMMA Owner ==
    ASSUME Locked, NEW t \in Threads, Frames(t) > 0
    PROVE  /\ lockOwner = t /\ lockDepth = Frames(t)
           /\ \A u \in Threads \ {t} : Frames(u) = 0
BY DEF Locked, LocksFollowScopes, ClientMutexFollowsScopes, Frames,
       OperationFrames, UpcallFrames

(* The number of open scopes of a thread is a natural number. *)
LEMMA FramesType ==
    ASSUME NEW t \in Threads
    PROVE  Frames(t) \in Nat
BY DEF Frames, OperationFrames, UpcallFrames

(* Opening a scope of t keeps the mutex and the scopes in step ... *)
LEMMA TakeStep ==
    ASSUME Locked, NEW t \in Threads, Lock(t),
           Frames(t)' = Frames(t) + 1,
           \A u \in Threads \ {t} : Frames(u)' = Frames(u)
    PROVE  ClientMutexFollowsScopes'
BY FramesType, NobodyAssumption
DEF Locked, TypeOK, LocksFollowScopes, ClientMutexFollowsScopes, Lock

(* ... and so does closing one, ... *)
LEMMA ReleaseStep ==
    ASSUME Locked, NEW t \in Threads, Unlock(t), Frames(t) > 0,
           Frames(t)' = Frames(t) - 1,
           \A u \in Threads \ {t} : Frames(u)' = Frames(u)
    PROVE  ClientMutexFollowsScopes' /\ lockDepth' \in Nat
BY FramesType, NobodyAssumption
DEF Locked, TypeOK, LocksFollowScopes, ClientMutexFollowsScopes, Unlock

(* ... and a step that leaves both alone. *)
LEMMA KeepStep ==
    ASSUME Locked, UNCHANGED locks,
           \A u \in Threads : Frames(u)' = Frames(u)
    PROVE  ClientMutexFollowsScopes'
BY DEF Locked, LocksFollowScopes, ClientMutexFollowsScopes, locks

(***************************************************************************)
(* Types                                                                   *)
(***************************************************************************)
(* An upcall begins with the removal of a message from the inbox. *)
LEMMA BeginUpcallType ==
    ASSUME TypeOK, NEW t \in Threads, BeginUpcall(t)
    PROVE  /\ lockOwner' \in Threads \cup {Nobody} /\ lockDepth' \in Nat
           /\ inbox' \subseteq Message
           /\ msg' \in [Threads -> Message \cup {NoMsg}]
           /\ up' \in [Threads -> Upcalls]
BY DEF TypeOK, BeginUpcall, Oldest, Lock, Upcalls

(* Every action of the client's threads keeps the variables in their ranges. *)
LEMMA TypeStep ==
    ASSUME Locked, [Next]_vars
    PROVE  TypeOK'
<1> USE BoundsAssumption, NobodyAssumption
<1> USE DEF Locked, TypeOK, Threads, Message, NoMsg, Stamps, Places,
            NextPlaces, Upcalls, Sessions, locks, conn, feed, nextCall
<1>1. ASSUME NEW t \in Threads, AcquireUpdate(t)
      PROVE  TypeOK'
    BY <1>1 DEF AcquireUpdate
<1>2. ASSUME NEW t \in Threads, StoreAndNotify(t)
      PROVE  TypeOK'
  <2>1. msg[t] \in Message
      BY <1>2 DEF StoreAndNotify, LocksFollowScopes, UpcallHasContext
  <2> QED
      BY <1>2, <2>1 DEF StoreAndNotify, WaitingFor
<1>3. ASSUME NEW t \in Threads, UserCall(t)
      PROVE  TypeOK'
    BY <1>3 DEF UserCall, Lock
<1>4. ASSUME NEW t \in Threads, UserCallEnd(t)
      PROVE  TypeOK'
  <2>1. Frames(t) > 0
      BY <1>4 DEF UserCallEnd, Frames, OperationFrames, UpcallFrames
  <2>2. lockDepth - 1 \in Nat
      BY <2>1, Owner, FramesType
  <2> QED
      BY <1>4, <2>2 DEF UserCallEnd, Unlock, Noticed
<1>5. ASSUME NEW t \in Threads, EndUpcall(t)
      PROVE  TypeOK'
  <2>1. Frames(t) > 0
      BY <1>5 DEF EndUpcall, Frames, OperationFrames, UpcallFrames
  <2>2. lockDepth - 1 \in Nat
      BY <2>1, Owner, FramesType
  <2> QED
      BY <1>5, <2>2 DEF EndUpcall, Unlock
<1>6. ASSUME NEW t \in Runners, RunOnceDisconnected(t)
      PROVE  TypeOK'
    BY <1>6 DEF RunOnceDisconnected, LockFree, At, Answer
<1>7. ASSUME NEW t \in Runners, RunOnceSessionLost(t)
      PROVE  TypeOK'
    BY <1>7 DEF RunOnceSessionLost, Lock, At, Go
<1>8. ASSUME NEW t \in Runners, RunOnceWake(t)
      PROVE  TypeOK'
  <2>1. Frames(t) > 0
      BY <1>8 DEF RunOnceWake, Frames, OperationFrames, UpcallFrames, At
  <2>2. lockDepth - 1 \in Nat
      BY <2>1, Owner, FramesType
  <2> QED
      BY <1>8, <2>2 DEF RunOnceWake, Unlock, At, Go, Answer
<1>9. ASSUME NEW t \in Runners, RunOnceBegin(t)
      PROVE  TypeOK'
    BY <1>9 DEF RunOnceBegin, Lock, At, Go
<1>10. ASSUME NEW t \in Runners, Iterate(t)
      PROVE  TypeOK'
  <2>1. iter' \in [Threads -> Nat]
      BY <1>10 DEF Iterate
  <2>2. CASE BeginUpcall(t) /\ UNCHANGED <<session, published>>
      BY <1>10, <2>1, <2>2, BeginUpcallType DEF Iterate
  <2>3. CASE inbox = {} /\ session' = Noticed /\ UNCHANGED <<locks, feed, msg, up>>
      BY <1>10, <2>1, <2>3 DEF Iterate, Noticed
  <2> QED
      BY <1>10, <2>2, <2>3 DEF Iterate
<1>11. ASSUME NEW t \in Runners, RunOnceEnd(t)
      PROVE  TypeOK'
  <2>1. Frames(t) > 0
      BY <1>11 DEF RunOnceEnd, Frames, OperationFrames, UpcallFrames, At
  <2>2. lockDepth - 1 \in Nat
      BY <2>1, Owner, FramesType
  <2> QED
      BY <1>11, <2>2 DEF RunOnceEnd, Unlock, At, Go, Answer
<1>12. ASSUME NEW t \in Callers, CallBegin(t)
      PROVE  TypeOK'
    BY <1>12 DEF CallBegin, Lock, At, Go
<1>13. ASSUME NEW t \in Callers, CallUpcall(t)
      PROVE  TypeOK'
    BY <1>13, BeginUpcallType DEF CallUpcall
<1>14. ASSUME NEW t \in Callers, CallEnd(t)
      PROVE  TypeOK'
  <2>1. Frames(t) > 0
      BY <1>14 DEF CallEnd, Frames, OperationFrames, UpcallFrames, At
  <2>2. lockDepth - 1 \in Nat
      BY <2>1, Owner, FramesType
  <2> QED
      BY <1>14, <2>2 DEF CallEnd, Unlock, At, Go, Noticed
<1>15. ASSUME NEW t \in Waiters, NEW v \in Vars, NextCheck(t, v)
      PROVE  TypeOK'
    BY <1>15 DEF NextCheck, LockFree, At, Go
<1>16. ASSUME NEW t \in Waiters, NextAcquire(t)
      PROVE  TypeOK'
    BY <1>16 DEF NextAcquire, Go
<1>17. ASSUME NEW t \in Waiters, NextPark(t)
      PROVE  TypeOK'
    BY <1>17 DEF NextPark, Go
<1>18. ASSUME NEW t \in Waiters, NextReturn(t)
      PROVE  TypeOK'
    BY <1>18 DEF NextReturn, Go
<1>19. ASSUME NEW t \in Waiters, Spurious(t)
      PROVE  TypeOK'
    BY <1>19 DEF Spurious, Go
<1>20. ASSUME NEW t \in Connectors, Disconnect(t)
      PROVE  TypeOK'
    BY <1>20 DEF Disconnect, LockFree, At, DropClient
<1>21. ASSUME NEW t \in Connectors, ConnectBegin(t)
      PROVE  TypeOK'
    BY <1>21 DEF ConnectBegin, LockFree, At, Go, DropClient
<1>22. ASSUME NEW t \in Connectors, ConnectNew(t)
      PROVE  TypeOK'
    BY <1>22 DEF ConnectNew, Lock, At, Go
<1>23. ASSUME NEW t \in Connectors, ConnectFail(t)
      PROVE  TypeOK'
  <2>1. Frames(t) > 0
      BY <1>23 DEF ConnectFail, Frames, OperationFrames, UpcallFrames, At
  <2>2. lockDepth - 1 \in Nat
      BY <2>1, Owner, FramesType
  <2> QED
      BY <1>23, <2>2 DEF ConnectFail, Unlock, At, Go, DropClient
<1>24. ASSUME NEW t \in Connectors, ConnectDone(t)
      PROVE  TypeOK'
  <2>1. Frames(t) > 0
      BY <1>24 DEF ConnectDone, Frames, OperationFrames, UpcallFrames, At
  <2>2. lockDepth - 1 \in Nat
      BY <2>1, Owner, FramesType
  <2> QED
      BY <1>24, <2>2 DEF ConnectDone, Unlock, At, Go
<1>25. ASSUME NEW v \in Vars, Publish(v)
      PROVE  TypeOK'
    BY <1>25 DEF Publish
<1>26. ASSUME LinkDown
      PROVE  TypeOK'
    BY <1>26 DEF LinkDown
<1>27. CASE UNCHANGED vars
    BY <1>27 DEF vars
<1> QED
    BY <1>1, <1>2, <1>3, <1>4, <1>5, <1>6, <1>7, <1>8, <1>9, <1>10, <1>11,
       <1>12, <1>13, <1>14, <1>15, <1>16, <1>17, <1>18, <1>19, <1>20,
       <1>21, <1>22, <1>23, <1>24, <1>25, <1>26, <1>27
    DEF Next, Upcall, RunOnce, Call, NextValue, Connect

(***************************************************************************)
(* The scopes of the two mutexes                                           *)
(***************************************************************************)
(* Every action that opens or closes a scope does the same to its mutex.   *)
LEMMA ScopesStep ==
    ASSUME Locked, [Next]_vars
    PROVE  LocksFollowScopes'
<1> USE NobodyAssumption
<1> USE DEF Locked, TypeOK, Threads, NextPlaces, locks, conn, feed, nextCall
<1> SUFFICES /\ ClientMutexFollowsScopes'
             /\ UpdateMutexFollowsScopes'
             /\ UpcallHasContext'
    BY DEF LocksFollowScopes
<1>1. ASSUME NEW t \in Threads, AcquireUpdate(t)
      PROVE  /\ ClientMutexFollowsScopes'
             /\ UpdateMutexFollowsScopes'
             /\ UpcallHasContext'
  <2>1. \A u \in Threads : Frames(u)' = Frames(u)
      BY <1>1 DEF AcquireUpdate, Frames, OperationFrames, UpcallFrames
  <2>2. ClientMutexFollowsScopes'
      BY <1>1, <2>1, KeepStep DEF AcquireUpdate
  <2>3. UpdateMutexFollowsScopes' /\ UpcallHasContext'
      BY <1>1 DEF AcquireUpdate, LocksFollowScopes, UpdateMutexFollowsScopes,
           UpcallHasContext
  <2> QED
      BY <2>2, <2>3
<1>2. ASSUME NEW t \in Threads, StoreAndNotify(t)
      PROVE  /\ ClientMutexFollowsScopes'
             /\ UpdateMutexFollowsScopes'
             /\ UpcallHasContext'
  <2>1. \A u \in Threads : Frames(u)' = Frames(u)
      BY <1>2 DEF StoreAndNotify, WaitingFor, Frames, OperationFrames,
           UpcallFrames
  <2>2. ClientMutexFollowsScopes'
      BY <1>2, <2>1, KeepStep DEF StoreAndNotify
  <2>3. UpdateMutexFollowsScopes' /\ UpcallHasContext'
      BY <1>2 DEF StoreAndNotify, WaitingFor, LocksFollowScopes,
           UpdateMutexFollowsScopes, UpcallHasContext
  <2> QED
      BY <2>2, <2>3
<1>3. ASSUME NEW t \in Threads, UserCall(t)
      PROVE  /\ ClientMutexFollowsScopes'
             /\ UpdateMutexFollowsScopes'
             /\ UpcallHasContext'
  <2>1. /\ Frames(t)' = Frames(t) + 1
        /\ \A u \in Threads \ {t} : Frames(u)' = Frames(u)
      BY <1>3 DEF UserCall, Frames, OperationFrames, UpcallFrames
  <2>2. ClientMutexFollowsScopes'
      BY <1>3, <2>1, TakeStep DEF UserCall
  <2>3. UpdateMutexFollowsScopes' /\ UpcallHasContext'
      BY <1>3 DEF UserCall, LocksFollowScopes, UpdateMutexFollowsScopes,
           UpcallHasContext
  <2> QED
      BY <2>2, <2>3
<1>4. ASSUME NEW t \in Threads, UserCallEnd(t)
      PROVE  /\ ClientMutexFollowsScopes'
             /\ UpdateMutexFollowsScopes'
             /\ UpcallHasContext'
  <2>1. /\ Frames(t) > 0 /\ Frames(t)' = Frames(t) - 1
        /\ \A u \in Threads \ {t} : Frames(u)' = Frames(u)
      BY <1>4 DEF UserCallEnd, Frames, OperationFrames, UpcallFrames
  <2>2. ClientMutexFollowsScopes'
      BY <1>4, <2>1, ReleaseStep DEF UserCallEnd
  <2>3. UpdateMutexFollowsScopes' /\ UpcallHasContext'
      BY <1>4 DEF UserCallEnd, LocksFollowScopes, UpdateMutexFollowsScopes,
           UpcallHasContext
  <2> QED
      BY <2>2, <2>3
<1>5. ASSUME NEW t \in Threads, EndUpcall(t)
      PROVE  /\ ClientMutexFollowsScopes'
             /\ UpdateMutexFollowsScopes'
             /\ UpcallHasContext'
  <2>1. /\ Frames(t) > 0 /\ Frames(t)' = Frames(t) - 1
        /\ \A u \in Threads \ {t} : Frames(u)' = Frames(u)
      BY <1>5 DEF EndUpcall, Frames, OperationFrames, UpcallFrames
  <2>2. ClientMutexFollowsScopes'
      BY <1>5, <2>1, ReleaseStep DEF EndUpcall
  <2>3. UpdateMutexFollowsScopes' /\ UpcallHasContext'
      BY <1>5 DEF EndUpcall, LocksFollowScopes, UpdateMutexFollowsScopes,
           UpcallHasContext
  <2> QED
      BY <2>2, <2>3
<1>6. ASSUME NEW t \in Runners, RunOnceDisconnected(t)
      PROVE  /\ ClientMutexFollowsScopes'
             /\ UpdateMutexFollowsScopes'
             /\ UpcallHasContext'
  <2>1. \A u \in Threads : Frames(u)' = Frames(u)
      BY <1>6 DEF RunOnceDisconnected, At, Frames, OperationFrames,
           UpcallFrames
  <2>2. ClientMutexFollowsScopes'
      BY <1>6, <2>1, KeepStep DEF RunOnceDisconnected
  <2>3. UpdateMutexFollowsScopes' /\ UpcallHasContext'
      BY <1>6 DEF RunOnceDisconnected, At, LocksFollowScopes,
           UpdateMutexFollowsScopes, UpcallHasContext
  <2> QED
      BY <2>2, <2>3
<1>7. ASSUME NEW t \in Runners, RunOnceSessionLost(t)
      PROVE  /\ ClientMutexFollowsScopes'
             /\ UpdateMutexFollowsScopes'
             /\ UpcallHasContext'
  <2>1. /\ Frames(t)' = Frames(t) + 1
        /\ \A u \in Threads \ {t} : Frames(u)' = Frames(u)
      BY <1>7 DEF RunOnceSessionLost, At, Go, Frames, OperationFrames,
           UpcallFrames
  <2>2. ClientMutexFollowsScopes'
      BY <1>7, <2>1, TakeStep DEF RunOnceSessionLost
  <2>3. UpdateMutexFollowsScopes' /\ UpcallHasContext'
      BY <1>7 DEF RunOnceSessionLost, At, Go, LocksFollowScopes,
           UpdateMutexFollowsScopes, UpcallHasContext
  <2> QED
      BY <2>2, <2>3
<1>8. ASSUME NEW t \in Runners, RunOnceWake(t)
      PROVE  /\ ClientMutexFollowsScopes'
             /\ UpdateMutexFollowsScopes'
             /\ UpcallHasContext'
  <2>1. /\ Frames(t) > 0 /\ Frames(t)' = Frames(t) - 1
        /\ \A u \in Threads \ {t} : Frames(u)' = Frames(u)
      BY <1>8 DEF RunOnceWake, At, Go, Frames, OperationFrames, UpcallFrames
  <2>2. ClientMutexFollowsScopes'
      BY <1>8, <2>1, ReleaseStep DEF RunOnceWake
  <2>3. UpdateMutexFollowsScopes' /\ UpcallHasContext'
      BY <1>8 DEF RunOnceWake, At, Go, LocksFollowScopes,
           UpdateMutexFollowsScopes, UpcallHasContext
  <2> QED
      BY <2>2, <2>3
<1>9. ASSUME NEW t \in Runners, RunOnceBegin(t)
      PROVE  /\ ClientMutexFollowsScopes'
             /\ UpdateMutexFollowsScopes'
             /\ UpcallHasContext'
  <2>1. /\ Frames(t)' = Frames(t) + 1
        /\ \A u \in Threads \ {t} : Frames(u)' = Frames(u)
      BY <1>9 DEF RunOnceBegin, At, Go, Frames, OperationFrames, UpcallFrames
  <2>2. ClientMutexFollowsScopes'
      BY <1>9, <2>1, TakeStep DEF RunOnceBegin
  <2>3. UpdateMutexFollowsScopes' /\ UpcallHasContext'
      BY <1>9 DEF RunOnceBegin, At, Go, LocksFollowScopes,
           UpdateMutexFollowsScopes, UpcallHasContext
  <2> QED
      BY <2>2, <2>3
<1>10. ASSUME NEW t \in Runners, Iterate(t)
      PROVE  /\ ClientMutexFollowsScopes'
             /\ UpdateMutexFollowsScopes'
             /\ UpcallHasContext'
  <2>1. CASE BeginUpcall(t)
    <3>1. /\ Frames(t)' = Frames(t) + 1
          /\ \A u \in Threads \ {t} : Frames(u)' = Frames(u)
        BY <1>10, <2>1 DEF Iterate, At, BeginUpcall, Frames, OperationFrames,
                           UpcallFrames
    <3>2. ClientMutexFollowsScopes'
        BY <2>1, <3>1, TakeStep DEF BeginUpcall
    <3>3. UpdateMutexFollowsScopes' /\ UpcallHasContext'
        BY <1>10, <2>1 DEF Iterate, At, BeginUpcall, Oldest, LocksFollowScopes,
                           UpdateMutexFollowsScopes, UpcallHasContext
    <3> QED
        BY <3>2, <3>3
  <2>2. CASE UNCHANGED <<locks, msg, up>>
    <3>1. \A u \in Threads : Frames(u)' = Frames(u)
        BY <1>10, <2>2 DEF Iterate, Frames, OperationFrames, UpcallFrames
    <3>2. ClientMutexFollowsScopes'
        BY <2>2, <3>1, KeepStep
    <3>3. UpdateMutexFollowsScopes' /\ UpcallHasContext'
        BY <1>10, <2>2 DEF Iterate, LocksFollowScopes,
                           UpdateMutexFollowsScopes, UpcallHasContext
    <3> QED
        BY <3>2, <3>3
  <2> QED
      BY <1>10, <2>1, <2>2 DEF Iterate
<1>11. ASSUME NEW t \in Runners, RunOnceEnd(t)
      PROVE  /\ ClientMutexFollowsScopes'
             /\ UpdateMutexFollowsScopes'
             /\ UpcallHasContext'
  <2>1. /\ Frames(t) > 0 /\ Frames(t)' = Frames(t) - 1
        /\ \A u \in Threads \ {t} : Frames(u)' = Frames(u)
      BY <1>11 DEF RunOnceEnd, At, Go, Frames, OperationFrames, UpcallFrames
  <2>2. ClientMutexFollowsScopes'
      BY <1>11, <2>1, ReleaseStep DEF RunOnceEnd
  <2>3. UpdateMutexFollowsScopes' /\ UpcallHasContext'
      BY <1>11 DEF RunOnceEnd, At, Go, LocksFollowScopes,
           UpdateMutexFollowsScopes, UpcallHasContext
  <2> QED
      BY <2>2, <2>3
<1>12. ASSUME NEW t \in Callers, CallBegin(t)
      PROVE  /\ ClientMutexFollowsScopes'
             /\ UpdateMutexFollowsScopes'
             /\ UpcallHasContext'
  <2>1. /\ Frames(t)' = Frames(t) + 1
        /\ \A u \in Threads \ {t} : Frames(u)' = Frames(u)
      BY <1>12 DEF CallBegin, At, Go, Frames, OperationFrames, UpcallFrames
  <2>2. ClientMutexFollowsScopes'
      BY <1>12, <2>1, TakeStep DEF CallBegin
  <2>3. UpdateMutexFollowsScopes' /\ UpcallHasContext'
      BY <1>12 DEF CallBegin, At, Go, LocksFollowScopes,
           UpdateMutexFollowsScopes, UpcallHasContext
  <2> QED
      BY <2>2, <2>3
<1>13. ASSUME NEW t \in Callers, CallUpcall(t)
      PROVE  /\ ClientMutexFollowsScopes'
             /\ UpdateMutexFollowsScopes'
             /\ UpcallHasContext'
  <2>1. /\ Frames(t)' = Frames(t) + 1
        /\ \A u \in Threads \ {t} : Frames(u)' = Frames(u)
      BY <1>13 DEF CallUpcall, At, BeginUpcall, Oldest, Frames,
           OperationFrames, UpcallFrames
  <2>2. ClientMutexFollowsScopes'
      BY <1>13, <2>1, TakeStep DEF CallUpcall, BeginUpcall
  <2>3. UpdateMutexFollowsScopes' /\ UpcallHasContext'
      BY <1>13 DEF CallUpcall, At, BeginUpcall, Oldest, LocksFollowScopes,
           UpdateMutexFollowsScopes, UpcallHasContext
  <2> QED
      BY <2>2, <2>3
<1>14. ASSUME NEW t \in Callers, CallEnd(t)
      PROVE  /\ ClientMutexFollowsScopes'
             /\ UpdateMutexFollowsScopes'
             /\ UpcallHasContext'
  <2>1. /\ Frames(t) > 0 /\ Frames(t)' = Frames(t) - 1
        /\ \A u \in Threads \ {t} : Frames(u)' = Frames(u)
      BY <1>14 DEF CallEnd, At, Go, Frames, OperationFrames, UpcallFrames
  <2>2. ClientMutexFollowsScopes'
      BY <1>14, <2>1, ReleaseStep DEF CallEnd
  <2>3. UpdateMutexFollowsScopes' /\ UpcallHasContext'
      BY <1>14 DEF CallEnd, At, Go, LocksFollowScopes,
           UpdateMutexFollowsScopes, UpcallHasContext
  <2> QED
      BY <2>2, <2>3
<1>15. ASSUME NEW t \in Waiters, NEW v \in Vars, NextCheck(t, v)
      PROVE  /\ ClientMutexFollowsScopes'
             /\ UpdateMutexFollowsScopes'
             /\ UpcallHasContext'
  <2>1. \A u \in Threads : Frames(u)' = Frames(u)
      BY <1>15 DEF NextCheck, At, Go, Frames, OperationFrames, UpcallFrames
  <2>2. ClientMutexFollowsScopes'
      BY <1>15, <2>1, KeepStep DEF NextCheck
  <2>3. UpdateMutexFollowsScopes' /\ UpcallHasContext'
      BY <1>15 DEF NextCheck, At, Go, LocksFollowScopes,
           UpdateMutexFollowsScopes, UpcallHasContext
  <2> QED
      BY <2>2, <2>3
<1>16. ASSUME NEW t \in Waiters, NextAcquire(t)
      PROVE  /\ ClientMutexFollowsScopes'
             /\ UpdateMutexFollowsScopes'
             /\ UpcallHasContext'
  <2>1. \A u \in Threads : Frames(u)' = Frames(u)
      BY <1>16 DEF NextAcquire, Go, Frames, OperationFrames, UpcallFrames
  <2>2. ClientMutexFollowsScopes'
      BY <1>16, <2>1, KeepStep DEF NextAcquire
  <2>3. UpdateMutexFollowsScopes' /\ UpcallHasContext'
      BY <1>16 DEF NextAcquire, Go, LocksFollowScopes,
           UpdateMutexFollowsScopes, UpcallHasContext
  <2> QED
      BY <2>2, <2>3
<1>17. ASSUME NEW t \in Waiters, NextPark(t)
      PROVE  /\ ClientMutexFollowsScopes'
             /\ UpdateMutexFollowsScopes'
             /\ UpcallHasContext'
  <2>1. \A u \in Threads : Frames(u)' = Frames(u)
      BY <1>17 DEF NextPark, Go, Frames, OperationFrames, UpcallFrames
  <2>2. ClientMutexFollowsScopes'
      BY <1>17, <2>1, KeepStep DEF NextPark
  <2>3. UpdateMutexFollowsScopes' /\ UpcallHasContext'
      BY <1>17 DEF NextPark, Go, LocksFollowScopes, UpdateMutexFollowsScopes,
           UpcallHasContext
  <2> QED
      BY <2>2, <2>3
<1>18. ASSUME NEW t \in Waiters, NextReturn(t)
      PROVE  /\ ClientMutexFollowsScopes'
             /\ UpdateMutexFollowsScopes'
             /\ UpcallHasContext'
  <2>1. \A u \in Threads : Frames(u)' = Frames(u)
      BY <1>18 DEF NextReturn, Go, Frames, OperationFrames, UpcallFrames
  <2>2. ClientMutexFollowsScopes'
      BY <1>18, <2>1, KeepStep DEF NextReturn
  <2>3. UpdateMutexFollowsScopes' /\ UpcallHasContext'
      BY <1>18 DEF NextReturn, Go, LocksFollowScopes, UpdateMutexFollowsScopes,
           UpcallHasContext
  <2> QED
      BY <2>2, <2>3
<1>19. ASSUME NEW t \in Waiters, Spurious(t)
      PROVE  /\ ClientMutexFollowsScopes'
             /\ UpdateMutexFollowsScopes'
             /\ UpcallHasContext'
  <2>1. \A u \in Threads : Frames(u)' = Frames(u)
      BY <1>19 DEF Spurious, Go, Frames, OperationFrames, UpcallFrames
  <2>2. ClientMutexFollowsScopes'
      BY <1>19, <2>1, KeepStep DEF Spurious
  <2>3. UpdateMutexFollowsScopes' /\ UpcallHasContext'
      BY <1>19 DEF Spurious, Go, LocksFollowScopes, UpdateMutexFollowsScopes,
           UpcallHasContext
  <2> QED
      BY <2>2, <2>3
<1>20. ASSUME NEW t \in Connectors, Disconnect(t)
      PROVE  /\ ClientMutexFollowsScopes'
             /\ UpdateMutexFollowsScopes'
             /\ UpcallHasContext'
  <2>1. \A u \in Threads : Frames(u)' = Frames(u)
      BY <1>20 DEF Disconnect, At, Frames, OperationFrames, UpcallFrames
  <2>2. ClientMutexFollowsScopes'
      BY <1>20, <2>1, KeepStep DEF Disconnect
  <2>3. UpdateMutexFollowsScopes' /\ UpcallHasContext'
      BY <1>20 DEF Disconnect, At, LocksFollowScopes, UpdateMutexFollowsScopes,
           UpcallHasContext
  <2> QED
      BY <2>2, <2>3
<1>21. ASSUME NEW t \in Connectors, ConnectBegin(t)
      PROVE  /\ ClientMutexFollowsScopes'
             /\ UpdateMutexFollowsScopes'
             /\ UpcallHasContext'
  <2>1. \A u \in Threads : Frames(u)' = Frames(u)
      BY <1>21 DEF ConnectBegin, At, Go, Frames, OperationFrames, UpcallFrames
  <2>2. ClientMutexFollowsScopes'
      BY <1>21, <2>1, KeepStep DEF ConnectBegin
  <2>3. UpdateMutexFollowsScopes' /\ UpcallHasContext'
      BY <1>21 DEF ConnectBegin, At, Go, LocksFollowScopes,
           UpdateMutexFollowsScopes, UpcallHasContext
  <2> QED
      BY <2>2, <2>3
<1>22. ASSUME NEW t \in Connectors, ConnectNew(t)
      PROVE  /\ ClientMutexFollowsScopes'
             /\ UpdateMutexFollowsScopes'
             /\ UpcallHasContext'
  <2>1. /\ Frames(t)' = Frames(t) + 1
        /\ \A u \in Threads \ {t} : Frames(u)' = Frames(u)
      BY <1>22 DEF ConnectNew, Connecting, Threads, Frames, OperationFrames,
                   UpcallFrames
  <2>2. ClientMutexFollowsScopes'
      BY <1>22, <2>1, TakeStep DEF ConnectNew
  <2>3. UpdateMutexFollowsScopes' /\ UpcallHasContext'
    <3>1. /\ pc[t] \notin {"iterate", "call", "nextPark", "nextCopy"}
          /\ pc'[t] \notin {"nextPark", "nextCopy"} /\ up[t] = "none"
          /\ UNCHANGED <<up, msg, updateOwner>>
        BY <1>22 DEF ConnectNew, Connecting, Threads
    <3>2. ASSUME NEW u \in Threads
          PROVE  \A p \in {"iterate", "call", "nextPark", "nextCopy"} :
                     pc'[u] = p <=> pc[u] = p
        BY <1>22, <3>1 DEF ConnectNew, Connecting
    <3> QED
        BY <3>1, <3>2 DEF LocksFollowScopes, UpdateMutexFollowsScopes,
           UpcallHasContext
  <2> QED
      BY <2>2, <2>3
<1>23. ASSUME NEW t \in Connectors, ConnectFail(t)
      PROVE  /\ ClientMutexFollowsScopes'
             /\ UpdateMutexFollowsScopes'
             /\ UpcallHasContext'
  <2>1. /\ Frames(t) > 0 /\ Frames(t)' = Frames(t) - 1
        /\ \A u \in Threads \ {t} : Frames(u)' = Frames(u)
      BY <1>23 DEF ConnectFail, At, Go, Frames, OperationFrames, UpcallFrames
  <2>2. ClientMutexFollowsScopes'
      BY <1>23, <2>1, ReleaseStep DEF ConnectFail
  <2>3. UpdateMutexFollowsScopes' /\ UpcallHasContext'
      BY <1>23 DEF ConnectFail, At, Go, LocksFollowScopes,
           UpdateMutexFollowsScopes, UpcallHasContext
  <2> QED
      BY <2>2, <2>3
<1>24. ASSUME NEW t \in Connectors, ConnectDone(t)
      PROVE  /\ ClientMutexFollowsScopes'
             /\ UpdateMutexFollowsScopes'
             /\ UpcallHasContext'
  <2>1. /\ Frames(t) > 0 /\ Frames(t)' = Frames(t) - 1
        /\ \A u \in Threads \ {t} : Frames(u)' = Frames(u)
      BY <1>24 DEF ConnectDone, At, Go, Frames, OperationFrames, UpcallFrames
  <2>2. ClientMutexFollowsScopes'
      BY <1>24, <2>1, ReleaseStep DEF ConnectDone
  <2>3. UpdateMutexFollowsScopes' /\ UpcallHasContext'
      BY <1>24 DEF ConnectDone, At, Go, LocksFollowScopes,
           UpdateMutexFollowsScopes, UpcallHasContext
  <2> QED
      BY <2>2, <2>3
<1>25. ASSUME NEW v \in Vars, Publish(v)
      PROVE  /\ ClientMutexFollowsScopes'
             /\ UpdateMutexFollowsScopes'
             /\ UpcallHasContext'
  <2>1. \A u \in Threads : Frames(u)' = Frames(u)
      BY <1>25 DEF Publish, Frames, OperationFrames, UpcallFrames
  <2>2. ClientMutexFollowsScopes'
      BY <1>25, <2>1, KeepStep DEF Publish
  <2>3. UpdateMutexFollowsScopes' /\ UpcallHasContext'
      BY <1>25 DEF Publish, LocksFollowScopes, UpdateMutexFollowsScopes,
           UpcallHasContext
  <2> QED
      BY <2>2, <2>3
<1>26. ASSUME LinkDown
      PROVE  /\ ClientMutexFollowsScopes'
             /\ UpdateMutexFollowsScopes'
             /\ UpcallHasContext'
  <2>1. \A u \in Threads : Frames(u)' = Frames(u)
      BY <1>26 DEF LinkDown, Frames, OperationFrames, UpcallFrames
  <2>2. ClientMutexFollowsScopes'
      BY <1>26, <2>1, KeepStep DEF LinkDown
  <2>3. UpdateMutexFollowsScopes' /\ UpcallHasContext'
      BY <1>26 DEF LinkDown, LocksFollowScopes, UpdateMutexFollowsScopes,
           UpcallHasContext
  <2> QED
      BY <2>2, <2>3
<1>27. CASE UNCHANGED vars
  <2>1. \A u \in Threads : Frames(u)' = Frames(u)
      BY <1>27 DEF vars, Frames, OperationFrames, UpcallFrames
  <2> QED
      BY <1>27, <2>1, KeepStep DEF vars, LocksFollowScopes,
           UpdateMutexFollowsScopes, UpcallHasContext
<1> QED
    BY <1>1, <1>2, <1>3, <1>4, <1>5, <1>6, <1>7, <1>8, <1>9, <1>10, <1>11,
       <1>12, <1>13, <1>14, <1>15, <1>16, <1>17, <1>18, <1>19, <1>20,
       <1>21, <1>22, <1>23, <1>24, <1>25, <1>26, <1>27
    DEF Next, Upcall, RunOnce, Call, NextValue, Connect

(* No step breaks the mutexes, and they start free. *)
THEOREM MutexesFollowScopes == Spec => [](TypeOK /\ LocksFollowScopes)
<1>1. Init => Locked
    BY BoundsAssumption, NobodyAssumption
    DEF Init, Locked, TypeOK, LocksFollowScopes, ClientMutexFollowsScopes,
        UpdateMutexFollowsScopes, UpcallHasContext, Frames, OperationFrames,
        UpcallFrames, Places, NextPlaces, Upcalls, Sessions, Message
<1>2. Locked /\ [Next]_vars => Locked'
    BY TypeStep, ScopesStep DEF Locked
<1> QED
    BY <1>1, <1>2, PTL DEF Spec, Locked

(* So every variable keeps its type: no unlock drops a depth below zero.   *)
THEOREM TypeCorrect == Spec => []TypeOK
<1> QED
    BY MutexesFollowScopes, PTL

(***************************************************************************)
(* Deadlock                                                                *)
(***************************************************************************)

(* Who has entityUpdateMutex goes on.                                      *)
LEMMA UpdateHolderGoesOn ==
    ASSUME Locked, NEW u \in Threads, updateOwner = u
    PROVE  ~Blocked(u) /\ pc[u] # "waiting"
<1>1. \/ up[u] = "store" /\ pc[u] \in {"iterate", "call"}
      \/ up[u] = "none" /\ pc[u] \in {"nextPark", "nextCopy"}
    BY DEF Locked, LocksFollowScopes, UpdateMutexFollowsScopes, UpcallHasContext
<1>2. u \notin Connecting
    BY <1>1 DEF Connecting
<1> QED
    BY <1>1, <1>2 DEF Blocked, At

(* Who has clientMutex goes on, unless it is about to lock the other one,  *)
(* which somebody has.                                                     *)
LEMMA ClientHolderGoesOn ==
    ASSUME Locked, NEW u \in Threads, lockOwner = u
    PROVE  /\ pc[u] # "waiting"
           /\ Blocked(u) => updateOwner \in Threads
<1>1. Frames(u) > 0
    BY DEF Locked, LocksFollowScopes, ClientMutexFollowsScopes
<1>2. pc[u] # "waiting"
  <2>1. up[u] # "none" => pc[u] \in {"iterate", "call"}
      BY DEF Locked, LocksFollowScopes, UpcallHasContext
  <2>2. up[u] = "none" => UpcallFrames(u) = 0
      BY DEF UpcallFrames
  <2> QED
      BY <1>1, <2>1, <2>2 DEF Frames, OperationFrames
<1>3. Blocked(u) => updateOwner \in Threads
    BY DEF Blocked, Locked, TypeOK
<1> QED
    BY <1>2, <1>3

(* For any numbers of threads of each role, and with spurious wakeups: the *)
(* two mutexes cannot deadlock (OpcUaGenericClient.cc:430, 440, 657).      *)
THEOREM MutexesDoNotDeadlock == Spec => []NoCircularWait
<1>1. Locked => NoCircularWait
  <2> SUFFICES ASSUME Locked, NEW t \in Threads, Blocked(t)
               PROVE  \E u \in Threads \cap {lockOwner, updateOwner} :
                          ~Blocked(u) /\ pc[u] # "waiting"
      BY DEF NoCircularWait
  <2>1. CASE updateOwner \in Threads
      BY <2>1, UpdateHolderGoesOn
  <2>2. CASE updateOwner \notin Threads
    <3>1. updateOwner = Nobody
        BY <2>2 DEF Locked, TypeOK
    <3>2. lockOwner \in Threads
        BY <3>1 DEF Blocked, Locked, TypeOK
    <3> QED
        BY <2>2, <3>2, ClientHolderGoesOn
  <2> QED
      BY <2>1, <2>2
<1> QED
    BY <1>1, MutexesFollowScopes, PTL DEF Locked

(***************************************************************************)
(* The native client                                                       *)
(***************************************************************************)

(* While t may take clientMutex nobody else is inside the native client or *)
(* an upcall.                                                              *)
LEMMA Alone ==
    ASSUME Locked, NEW t \in Threads, lockOwner \in {Nobody, t}
    PROVE  \A u \in Threads \ {t} : ~InsideClient(u) /\ up[u] = "none"
<1> SUFFICES ASSUME NEW u \in Threads \ {t}
             PROVE  ~InsideClient(u) /\ up[u] = "none"
    OBVIOUS
<1>1. ~(Frames(u) > 0)
    BY NobodyAssumption
    DEF Locked, LocksFollowScopes, ClientMutexFollowsScopes
<1>2. InsideClient(u) \/ up[u] # "none" => Frames(u) > 0
    BY DEF InsideClient, Frames, OperationFrames, UpcallFrames
<1> QED
    BY <1>1, <1>2

(* With the mutexes, ClientInUse is inductive in this form. *)
ClientAlive ==
    /\ client # 0 => client \in live
    /\ \A t \in Threads : InsideClient(t) => client # 0

(* Only a thread that holds clientMutex replaces or deletes the client.    *)
LEMMA ClientAliveStep ==
    ASSUME Locked, ClientAlive, [Next]_vars
    PROVE  ClientAlive'
<1> USE DEF ClientAlive, InsideClient, conn, feed, Go
<1>0. pc \in [Threads -> Places] /\ made \in Nat /\ client \in Nat
    BY DEF Locked, TypeOK
<1>1. ASSUME NEW t \in Threads, Upcall(t)
      PROVE  ClientAlive'
    BY <1>0, <1>1
    DEF Upcall, AcquireUpdate, StoreAndNotify, WaitingFor, UserCall,
        UserCallEnd, EndUpcall
<1>2. ASSUME NEW t \in Runners, RunOnce(t)
      PROVE  ClientAlive'
    BY <1>0, <1>2
    DEF RunOnce, RunOnceDisconnected, RunOnceSessionLost, RunOnceWake,
        RunOnceBegin, Iterate, RunOnceEnd, Threads
<1>3. ASSUME NEW t \in Callers, Call(t)
      PROVE  ClientAlive'
    BY <1>0, <1>3 DEF Call, CallBegin, CallUpcall, CallEnd, Threads
<1>4. ASSUME NEW t \in Waiters,
             NextValue(t) \/ Spurious(t) \/ \E v \in Vars : NextCheck(t, v)
      PROVE  ClientAlive'
    BY <1>0, <1>4
    DEF NextValue, NextAcquire, NextPark, NextReturn, Spurious, NextCheck,
        Threads
<1>5. ASSUME NEW t \in Connectors, Disconnect(t)
      PROVE  ClientAlive'
  <2>1. \A u \in Threads \ {t} : ~InsideClient(u)
      BY <1>5, Alone DEF Disconnect, LockFree, Threads
  <2> QED
      BY <1>0, <1>5, <2>1 DEF Disconnect, DropClient, At, Threads
<1>6. ASSUME NEW t \in Connectors, ConnectBegin(t)
      PROVE  ClientAlive'
  <2>1. \A u \in Threads \ {t} : ~InsideClient(u)
      BY <1>6, Alone DEF ConnectBegin, LockFree, Threads
  <2> QED
      BY <1>0, <1>6, <2>1 DEF ConnectBegin, DropClient, Threads
<1>7. ASSUME NEW t \in Connectors, ConnectNew(t)
      PROVE  ClientAlive'
    BY <1>0, <1>7 DEF ConnectNew, Threads
<1>8. ASSUME NEW t \in Connectors, ConnectFail(t)
      PROVE  ClientAlive'
  <2>1. Frames(t) > 0
      BY <1>8
      DEF ConnectFail, At, Frames, OperationFrames, UpcallFrames
  <2>2. \A u \in Threads \ {t} : ~InsideClient(u)
      BY <2>1, Owner, Alone DEF Threads
  <2> QED
      BY <1>0, <1>8, <2>2 DEF ConnectFail, DropClient, Threads
<1>9. ASSUME NEW t \in Connectors, ConnectDone(t)
      PROVE  ClientAlive'
    BY <1>0, <1>9 DEF ConnectDone, Threads
<1>10. ASSUME (\E v \in Vars : Publish(v)) \/ LinkDown \/ UNCHANGED vars
       PROVE  ClientAlive'
    BY <1>10 DEF Publish, LinkDown, vars
<1> QED
    BY <1>1, <1>2, <1>3, <1>4, <1>5, <1>6, <1>7, <1>8, <1>9, <1>10
    DEF Next, Connect

(* While one thread is inside the native client no other is, and the       *)
(* client exists: what clientMutex is for (OpcUaGenericClient.hh:48).      *)
THEOREM ClientIsExclusive == Spec => []ClientInUse
<1>1. Init => ClientAlive
    BY DEF Init, ClientAlive, InsideClient
<1>2. Locked /\ ClientAlive /\ [Next]_vars => ClientAlive'
    BY ClientAliveStep
<1>3. Locked /\ ClientAlive => ClientInUse
  <2> SUFFICES ASSUME Locked, ClientAlive, NEW t \in Threads, InsideClient(t)
               PROVE  /\ client \in live
                      /\ \A u \in Threads \ {t} : ~InsideClient(u)
      BY DEF ClientInUse
  <2>1. Frames(t) > 0
      BY DEF InsideClient, Frames, OperationFrames, UpcallFrames
  <2>2. \A u \in Threads \ {t} : ~InsideClient(u)
      BY <2>1, Owner, Alone
  <2> QED
      BY <2>2 DEF ClientAlive
<1> QED
    BY <1>1, <1>2, <1>3, MutexesFollowScopes, PTL DEF Spec, Locked

(* However many threads connect: a native client is lost only by a connect *)
(* that another one overtook after its disconnect; before that there is no *)
(* client to lose (OpcUaGenericClient.cc:123-131).                         *)
THEOREM OnlyOvertakenConnectsLose == Spec => OnlyTheGapLosesClients
<1> DEFINE Inv == /\ 0 \notin live
                  /\ \A t \in Connectors : pc[t] = "connecting" => client = 0
           Gap == \E t \in Connectors :
                      pc[t] = "overtaken" /\ pc'[t] = "handshake"
           Step == /\ Lost' \subseteq Lost \/ Gap
                   /\ Inv'
<1>1. Init => Inv
    BY DEF Init, Threads
<1>2. TypeOK /\ Inv /\ [Next]_vars => Step
  <2> SUFFICES ASSUME TypeOK, Inv, [Next]_vars
               PROVE  Step
      OBVIOUS
  <2> USE DEF Threads, conn, Go, At, Lost
  <2>0. pc \in [Threads -> Places] /\ made \in Nat
      BY DEF TypeOK
  <2>1. ASSUME NEW t \in Threads, Upcall(t)
        PROVE  Step
      BY <2>0, <2>1
      DEF Upcall, AcquireUpdate, StoreAndNotify, WaitingFor, UserCall,
          UserCallEnd, EndUpcall
  <2>2. ASSUME NEW t \in Runners, RunOnce(t)
        PROVE  Step
      BY <2>0, <2>2
      DEF RunOnce, RunOnceDisconnected, RunOnceSessionLost, RunOnceWake,
          RunOnceBegin, Iterate, RunOnceEnd
  <2>3. ASSUME NEW t \in Callers, Call(t)
        PROVE  Step
      BY <2>0, <2>3 DEF Call, CallBegin, CallUpcall, CallEnd
  <2>4. ASSUME NEW t \in Waiters,
               NextValue(t) \/ Spurious(t) \/ \E v \in Vars : NextCheck(t, v)
        PROVE  Step
      BY <2>0, <2>4
      DEF NextValue, NextAcquire, NextPark, NextReturn, Spurious, NextCheck
  <2>5. ASSUME NEW t \in Connectors,
               Disconnect(t) \/ ConnectBegin(t) \/ ConnectFail(t)
        PROVE  Step
      BY <2>0, <2>5 DEF Disconnect, ConnectBegin, ConnectFail, DropClient
  <2>6. ASSUME NEW t \in Connectors, ConnectNew(t)
        PROVE  Step
    <3>1. \A u \in Connectors : pc'[u] # "connecting"
        BY <2>0, <2>6 DEF ConnectNew, Connecting
    <3>2. /\ pc'[t] = "handshake" /\ client' = made + 1
          /\ live' = live \cup {made + 1}
        BY <2>0, <2>6 DEF ConnectNew
    <3>3. Inv'
        BY <2>0, <3>1, <3>2
    <3>4. CASE pc[t] = "overtaken"
      <4>1. Gap
          BY <3>2, <3>4
      <4> QED
          BY <3>3, <4>1
    <3>5. CASE pc[t] = "connecting"
      <4>1. client = 0
          BY <3>5
      <4>2. Lost' \subseteq Lost
          BY <2>0, <3>2, <4>1
      <4> QED
          BY <3>3, <4>2
    <3> QED
        BY <2>6, <3>4, <3>5 DEF ConnectNew, Connecting
  <2>7. ASSUME NEW t \in Connectors, ConnectDone(t)
        PROVE  Step
      BY <2>0, <2>7 DEF ConnectDone
  <2>8. ASSUME (\E v \in Vars : Publish(v)) \/ LinkDown \/ UNCHANGED vars
        PROVE  Step
      BY <2>8 DEF Publish, LinkDown, vars
  <2> QED
      BY <2>1, <2>2, <2>3, <2>4, <2>5, <2>6, <2>7, <2>8 DEF Next, Connect
<1>3. TypeOK /\ Inv /\ [Next]_vars =>
          [Lost' \subseteq Lost \/ Gap]_vars
    BY <1>2
<1> QED
    BY <1>1, <1>2, <1>3, TypeCorrect, PTL DEF Spec, OnlyTheGapLosesClients

(***************************************************************************)
(* The order of notifications, and the promise of getVariableNextValue     *)
(***************************************************************************)

(* The message an upcall takes is the oldest of its variable.              *)
LEMMA TakenInOrder ==
    ASSUME Locked, NotificationsInOrder, NEW t \in Threads, BeginUpcall(t),
           UNCHANGED <<published, value>>
    PROVE  NotificationsInOrder'
<1> USE DEF NotificationsInOrder
<1>1. PICK m \in Oldest :
          /\ inbox' = inbox \ {m}
          /\ msg' = [msg EXCEPT ![t] = m]
          /\ up' = [up EXCEPT ![t] = IF <<client, m.var>> \in registered
                                     THEN "extract" ELSE "leave"]
    BY DEF BeginUpcall
<1>2. m \in inbox /\ inbox \subseteq Message
    BY DEF Oldest, Locked, TypeOK
<1>3. \A n \in inbox \ {m} : n.var = m.var => m.val < n.val
  <2> SUFFICES ASSUME NEW n \in inbox \ {m}, n.var = m.var
               PROVE  m.val < n.val
      OBVIOUS
  <2>1. m.val <= n.val
      BY DEF Oldest
  <2>2. m.val # n.val
      BY <1>2 DEF Message
  <2> QED
      BY <2>1, <2>2, <1>2, BoundsAssumption DEF Message, Stamps
<1>4. \A u \in Threads \ {t} : up[u] = "none"
    BY Alone DEF BeginUpcall, Lock
<1>5. \A u \in Threads : up'[u] \in {"extract", "store"} => u = t /\ msg'[u] = m
    BY <1>1, <1>4 DEF Locked, TypeOK
<1>6. value[m.var] < m.val /\ m.val <= published
    BY <1>2
<1>7. \A u \in Threads : up'[u] \in {"extract", "store"} =>
          /\ value'[msg'[u].var] < msg'[u].val /\ msg'[u].val <= published'
          /\ \A n \in inbox' : n.var = msg'[u].var => msg'[u].val < n.val
    BY <1>1, <1>3, <1>5, <1>6
<1> QED
    BY <1>1, <1>2, <1>7

(* Every action keeps what is under way newer than what is stored.         *)
LEMMA OrderStep ==
    ASSUME Locked, NotificationsInOrder, [Next]_vars
    PROVE  NotificationsInOrder'
<1> USE DEF NotificationsInOrder, conn, feed
<1>0. /\ up \in [Threads -> Upcalls] /\ inbox \subseteq Message
      /\ value \in [Vars -> 0 .. MaxUpdates] /\ published \in 0 .. MaxUpdates
      /\ msg \in [Threads -> Message \cup {NoMsg}]
    BY DEF Locked, TypeOK
<1>1. ASSUME NEW t \in Threads, StoreAndNotify(t)
      PROVE  NotificationsInOrder'
  <2>1. /\ msg[t] \in Message /\ value[msg[t].var] < msg[t].val
        /\ msg[t].val <= published
        /\ \A m \in inbox : m.var = msg[t].var => msg[t].val < m.val
      BY <1>1 DEF StoreAndNotify, Locked, LocksFollowScopes, UpcallHasContext
  <2>2. Frames(t) > 0
      BY <1>1 DEF StoreAndNotify, Frames, OperationFrames, UpcallFrames
  <2>3. \A u \in Threads \ {t} : up[u] = "none"
      BY <2>2, Owner, Alone
  <2>4. \A u \in Threads : up'[u] \notin {"extract", "store"}
      BY <1>0, <1>1, <2>3 DEF StoreAndNotify
  <2>5. \A v \in Vars : value'[v] =
            IF v = msg[t].var THEN msg[t].val ELSE value[v]
      BY <1>0, <1>1, <2>1 DEF StoreAndNotify
  <2>6. UNCHANGED <<inbox, published>>
      BY <1>1 DEF StoreAndNotify
  <2>7. \A v \in Vars : value'[v] <= published'
      BY <2>1, <2>5, <2>6
  <2>8. \A m \in inbox' : value'[m.var] < m.val /\ m.val <= published'
      BY <1>0, <2>1, <2>5, <2>6 DEF Message
  <2> QED
      BY <2>4, <2>7, <2>8
<1>2. ASSUME NEW t \in Threads,
             \/ AcquireUpdate(t) \/ UserCall(t) \/ UserCallEnd(t)
             \/ EndUpcall(t)
      PROVE  NotificationsInOrder'
    BY <1>0, <1>2 DEF AcquireUpdate, UserCall, UserCallEnd, EndUpcall
<1>3. ASSUME NEW t \in Runners, Iterate(t)
      PROVE  NotificationsInOrder'
  <2>1. CASE BeginUpcall(t) /\ UNCHANGED published
      BY <1>3, <2>1, TakenInOrder DEF Iterate, Threads
  <2>2. CASE UNCHANGED <<feed, msg, up>>
      BY <1>3, <2>2 DEF Iterate
  <2> QED
      BY <1>3, <2>1, <2>2 DEF Iterate
<1>4. ASSUME NEW t \in Runners,
             \/ RunOnceDisconnected(t) \/ RunOnceSessionLost(t)
             \/ RunOnceWake(t) \/ RunOnceBegin(t) \/ RunOnceEnd(t)
      PROVE  NotificationsInOrder'
    BY <1>4
    DEF RunOnceDisconnected, RunOnceSessionLost, RunOnceWake, RunOnceBegin,
        RunOnceEnd
<1>5. ASSUME NEW t \in Callers, CallUpcall(t)
      PROVE  NotificationsInOrder'
    BY <1>5, TakenInOrder DEF CallUpcall, Threads
<1>6. ASSUME NEW t \in Callers, CallBegin(t) \/ CallEnd(t)
      PROVE  NotificationsInOrder'
    BY <1>6 DEF CallBegin, CallEnd
<1>7. ASSUME NEW t \in Waiters,
             NextValue(t) \/ Spurious(t) \/ \E v \in Vars : NextCheck(t, v)
      PROVE  NotificationsInOrder'
    BY <1>7
    DEF NextValue, NextAcquire, NextPark, NextReturn, Spurious, NextCheck
<1>8. ASSUME NEW t \in Connectors,
             Disconnect(t) \/ ConnectBegin(t) \/ Connect(t)
      PROVE  NotificationsInOrder'
    BY <1>8
    DEF Disconnect, ConnectBegin, Connect, ConnectNew, ConnectFail,
        ConnectDone, DropClient
<1>9. ASSUME NEW v \in Vars, Publish(v)
      PROVE  NotificationsInOrder'
  <2> DEFINE new == [var |-> v, val |-> published + 1]
  <2>1. /\ inbox' = inbox \cup {new} /\ published' = published + 1
        /\ UNCHANGED <<value, up, msg>>
      BY <1>9 DEF Publish
  <2>2. \A u \in Vars : value[u] < published + 1
      BY <1>0
  <2>3. \A m \in inbox' : value'[m.var] < m.val /\ m.val <= published'
      BY <1>0, <2>1, <2>2 DEF Message, Stamps
  <2>4. \A t \in Threads : up[t] \in {"extract", "store"} =>
            msg[t] \in Message /\ msg[t].val < new.val
      BY <1>0 DEF Locked, LocksFollowScopes, UpcallHasContext, Message, Stamps
  <2>5. \A t \in Threads : up'[t] \in {"extract", "store"} =>
            /\ value'[msg'[t].var] < msg'[t].val /\ msg'[t].val <= published'
            /\ \A m \in inbox' : m.var = msg'[t].var => msg'[t].val < m.val
      BY <1>0, <2>1, <2>4 DEF Message, Stamps
  <2> QED
      BY <1>0, <2>1, <2>2, <2>3, <2>5
<1>10. ASSUME LinkDown \/ UNCHANGED vars
       PROVE  NotificationsInOrder'
    BY <1>10 DEF LinkDown, vars
<1> QED
    BY <1>1, <1>2, <1>3, <1>4, <1>5, <1>6, <1>7, <1>8, <1>9, <1>10
    DEF Next, Upcall, RunOnce, Call

(* Stored values only move forward, in publication order, across upcalls   *)
(* from any thread and across connections.                                 *)
THEOREM NotificationsStayInOrder == Spec => []NotificationsInOrder
<1>1. Init => NotificationsInOrder
    BY BoundsAssumption DEF Init, NotificationsInOrder
<1>2. Locked /\ NotificationsInOrder /\ [Next]_vars => NotificationsInOrder'
    BY OrderStep
<1> QED
    BY <1>1, <1>2, MutexesFollowScopes, PTL DEF Spec, Locked

(* What a stored notification is: a newer value of one variable, and every *)
(* call that waits for that variable is woken.                             *)
LEMMA StoredNews ==
    ASSUME Locked, NotificationsInOrder, NEW t \in Threads, StoreAndNotify(t)
    PROVE  /\ msg[t].var \in Vars /\ msg[t].val \in Stamps
           /\ msg[t].val > value[msg[t].var]
           /\ value' = [value EXCEPT ![msg[t].var] = msg[t].val]
           /\ \A w \in Waiters : pc'[w] =
                  IF pc[w] = "waiting" /\ var[w] = msg[t].var
                  THEN "woken" ELSE pc[w]
           /\ UNCHANGED nextCall
<1>1. msg[t] \in Message /\ value[msg[t].var] < msg[t].val
    BY DEF StoreAndNotify, Locked, LocksFollowScopes, UpcallHasContext,
           NotificationsInOrder
<1>2. /\ value[msg[t].var] \in Nat /\ msg[t].val \in Nat
    BY <1>1, BoundsAssumption DEF Locked, TypeOK, Message, Stamps
<1> QED
    BY <1>1, <1>2 DEF StoreAndNotify, WaitingFor, Message, Threads

(* A thread is woken only by a value newer than the one it started from.   *)
LEMMA NewsStep ==
    ASSUME ~SpuriousWakeups, Locked, NotificationsInOrder, WokenByNews,
           [Next]_vars
    PROVE  WokenByNews'
<1> USE DEF WokenByNews, NextPlaces, nextCall, Go, At
<1>0. /\ pc \in [Threads -> Places] /\ value \in [Vars -> Nat]
      /\ var \in [Waiters -> Vars] /\ since \in [Waiters -> Nat]
      /\ Waiters \subseteq Threads
    BY BoundsAssumption DEF Locked, TypeOK, Threads
<1>1. ASSUME NEW t \in Threads, StoreAndNotify(t)
      PROVE  WokenByNews'
  <2>1. \A v \in Vars : value'[v] >= value[v]
      BY <1>0, <1>1, StoredNews DEF Stamps
  <2> SUFFICES ASSUME NEW w \in Waiters, pc'[w] \in NextPlaces
               PROVE  /\ value'[var[w]] >= since[w]
                      /\ pc'[w] \in {"woken", "nextCopy"} =>
                             value'[var[w]] > since[w]
      BY <1>1, StoredNews
  <2>2. pc[w] \in NextPlaces /\ value[var[w]] >= since[w]
      BY <1>0, <1>1, StoredNews
  <2>3. CASE pc[w] = "waiting" /\ var[w] = msg[t].var
    <3>1. value'[var[w]] > value[var[w]]
        BY <1>0, <1>1, <2>3, StoredNews
    <3>2. value[var[w]] \in Nat /\ since[w] \in Nat /\ value'[var[w]] \in Nat
        BY <1>0, <1>1, <2>3, StoredNews, BoundsAssumption DEF Stamps
    <3> QED
        BY <2>2, <3>1, <3>2
  <2>4. CASE ~(pc[w] = "waiting" /\ var[w] = msg[t].var)
    <3>1. pc'[w] = pc[w]
        BY <1>1, <2>4, StoredNews
    <3>2. /\ value[var[w]] \in Nat /\ since[w] \in Nat
          /\ value'[var[w]] >= value[var[w]] /\ value'[var[w]] \in Nat
        BY <1>0, <1>1, <2>1, StoredNews, BoundsAssumption DEF Stamps
    <3>3. pc[w] \in {"woken", "nextCopy"} => value[var[w]] > since[w]
        OBVIOUS
    <3> QED
        BY <2>2, <3>1, <3>2, <3>3
  <2> QED
      BY <2>3, <2>4
<1>2. ASSUME NEW t \in Threads,
             \/ AcquireUpdate(t) \/ UserCall(t) \/ UserCallEnd(t)
             \/ EndUpcall(t)
      PROVE  WokenByNews'
    BY <1>2 DEF AcquireUpdate, UserCall, UserCallEnd, EndUpcall
<1>3. ASSUME NEW t \in Runners, RunOnce(t)
      PROVE  WokenByNews'
    BY <1>0, <1>3
    DEF RunOnce, RunOnceDisconnected, RunOnceSessionLost, RunOnceWake,
        RunOnceBegin, Iterate, RunOnceEnd, Threads
<1>4. ASSUME NEW t \in Callers, Call(t)
      PROVE  WokenByNews'
    BY <1>0, <1>4 DEF Call, CallBegin, CallUpcall, CallEnd, Threads
<1>5. ASSUME NEW t \in Waiters, NEW v \in Vars, NextCheck(t, v)
      PROVE  WokenByNews'
    BY <1>0, <1>5 DEF NextCheck
<1>6. ASSUME NEW t \in Waiters, NextValue(t)
      PROVE  WokenByNews'
    BY <1>0, <1>6 DEF NextValue, NextAcquire, NextPark, NextReturn
<1>7. ASSUME NEW t \in Waiters, Spurious(t)
      PROVE  WokenByNews'
    BY <1>7 DEF Spurious
<1>8. ASSUME NEW t \in Connectors,
             Disconnect(t) \/ ConnectBegin(t) \/ Connect(t)
      PROVE  WokenByNews'
    BY <1>0, <1>8
    DEF Disconnect, ConnectBegin, Connect, ConnectNew, ConnectFail,
        ConnectDone, Threads
<1>9. ASSUME (\E v \in Vars : Publish(v)) \/ LinkDown \/ UNCHANGED vars
      PROVE  WokenByNews'
    BY <1>9 DEF Publish, LinkDown, vars
<1> QED
    BY <1>1, <1>2, <1>3, <1>4, <1>5, <1>6, <1>7, <1>8, <1>9
    DEF Next, Upcall

(* WokenByNews holds in every state if no wakeup is spurious.              *)
LEMMA NewsInv ==
    ASSUME ~SpuriousWakeups
    PROVE  Spec => [](Locked /\ NotificationsInOrder /\ WokenByNews)
<1>1. Init => WokenByNews
    BY DEF Init, WokenByNews, NextPlaces, Threads
<1>2. Locked /\ NotificationsInOrder /\ WokenByNews /\ [Next]_vars
          => WokenByNews'
    BY NewsStep
<1> QED
    BY <1>1, <1>2, MutexesFollowScopes, NotificationsStayInOrder, PTL
    DEF Spec, Locked

(* A call of getVariableNextValue that is woken finds a newer value, for   *)
(* any number of waiters, unless a wakeup is spurious                      *)
(* (OpcUaGenericClient.cc:659).                                            *)
THEOREM WakeupsAreNews ==
    ASSUME ~SpuriousWakeups
    PROVE  Spec => []WokenByNews
BY NewsInv, PTL

(* Unless the condition variable wakes up by itself, getVariableNextValue  *)
(* (OpcUaGenericClient.cc:644) implements its promise: every call returns  *)
(* the current value, newer than the one stored when it was accepted, for  *)
(* any number of threads, connections, failures and updates.               *)
THEOREM NextValueIsCorrect ==
    ASSUME ~SpuriousWakeups
    PROVE  Spec => NextValueImplementsFeed
<1> DEFINE pending == {t \in Waiters : pc[t] \in NextPlaces}
<1>1. Init => Feed!Init
    BY DEF Init, Feed!Init, NextPlaces, Threads
<1>2. Locked /\ NotificationsInOrder /\ WokenByNews /\ [Next]_vars
          => [Feed!Next]_(Feed!feedVars)
  <2> SUFFICES ASSUME Locked, NotificationsInOrder, WokenByNews, [Next]_vars
               PROVE  Feed!Next \/ UNCHANGED <<value, pending, nextCall>>
      BY DEF Feed!feedVars, nextCall
  <2> USE DEF NextPlaces, nextCall, Go, At
  <2>0. /\ pc \in [Threads -> Places] /\ value \in [Vars -> 0 .. MaxUpdates]
        /\ var \in [Waiters -> Vars] /\ Waiters \subseteq Threads
        /\ since \in [Waiters -> 0 .. MaxUpdates]
      BY DEF Locked, TypeOK, Threads
  <2>1. ASSUME NEW t \in Threads, StoreAndNotify(t)
        PROVE  Feed!Next
    <3>1. UNCHANGED pending
        BY <2>1, StoredNews
    <3>2. Feed!Update(msg[t].var)
        BY <2>1, <3>1, StoredNews DEF Feed!Update
    <3> QED
        BY <2>1, <3>2, StoredNews DEF Feed!Next
  <2>2. ASSUME NEW t \in Threads,
               \/ AcquireUpdate(t) \/ UserCall(t) \/ UserCallEnd(t)
               \/ EndUpcall(t)
        PROVE  UNCHANGED <<value, pending, nextCall>>
      BY <2>2 DEF AcquireUpdate, UserCall, UserCallEnd, EndUpcall
  <2>3. ASSUME NEW t \in Runners, RunOnce(t)
        PROVE  UNCHANGED <<value, pending, nextCall>>
      BY <2>0, <2>3
      DEF RunOnce, RunOnceDisconnected, RunOnceSessionLost, RunOnceWake,
          RunOnceBegin, Iterate, RunOnceEnd, Threads
  <2>4. ASSUME NEW t \in Callers, Call(t)
        PROVE  UNCHANGED <<value, pending, nextCall>>
      BY <2>0, <2>4 DEF Call, CallBegin, CallUpcall, CallEnd, Threads
  <2>5. ASSUME NEW t \in Waiters, NEW v \in Vars, NextCheck(t, v)
        PROVE  Feed!Next
    <3>1. t \notin pending /\ pending' = pending \cup {t}
        BY <2>0, <2>5 DEF NextCheck
    <3>2. Feed!Begin(t, v)
        BY <2>5, <3>1 DEF NextCheck, Feed!Begin
    <3> QED
        BY <3>2 DEF Feed!Next
  <2>6. ASSUME NEW t \in Waiters, NextAcquire(t) \/ NextPark(t)
        PROVE  UNCHANGED <<value, pending, nextCall>>
      BY <2>0, <2>6 DEF NextAcquire, NextPark
  <2>7. ASSUME NEW t \in Waiters, NextReturn(t)
        PROVE  Feed!Next
    <3>1. t \in pending /\ pending' = pending \ {t}
        BY <2>0, <2>7 DEF NextReturn
    <3>2. value[var[t]] > since[t]
        BY <2>7 DEF NextReturn, WokenByNews
    <3>3. Feed!Return(t)
        BY <2>7, <3>1, <3>2 DEF NextReturn, Feed!Return
    <3> QED
        BY <3>3 DEF Feed!Next
  <2>8. ASSUME NEW t \in Waiters, Spurious(t)
        PROVE  FALSE
      BY <2>8 DEF Spurious
  <2>9. ASSUME NEW t \in Connectors,
               Disconnect(t) \/ ConnectBegin(t) \/ Connect(t)
        PROVE  UNCHANGED <<value, pending, nextCall>>
      BY <2>0, <2>9
      DEF Disconnect, ConnectBegin, Connect, ConnectNew, Connecting,
          ConnectFail, ConnectDone, Threads
  <2>10. ASSUME (\E v \in Vars : Publish(v)) \/ LinkDown \/ UNCHANGED vars
         PROVE  UNCHANGED <<value, pending, nextCall>>
      BY <2>10 DEF Publish, LinkDown, vars
  <2> QED
      BY <2>1, <2>2, <2>3, <2>4, <2>5, <2>6, <2>7, <2>8, <2>9, <2>10
      DEF Next, Upcall, NextValue
<1> QED
    BY <1>1, <1>2, NewsInv, PTL DEF Spec, NextValueImplementsFeed, Feed!Spec
=============================================================================
