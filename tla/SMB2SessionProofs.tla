--------------------------- MODULE SMB2SessionProofs ---------------------------
(***************************************************************************)
(* SMB2Session's safety, for any users, shares and size of the pool.       *)
(*                                                                         *)
(* ExclusiveUse is not inductive by itself: which locals hold a connection *)
(* depends on where a call stands (CallInv), and a new session must not    *)
(* get a number that is still marked broken (BrokenIsHeld).                *)
(***************************************************************************)
EXTENDS SMB2Session, SequenceTheorems, NaturalsInduction, WellFoundedInduction, TLAPS

(* A call has a connection between Acquire and Release, and a key of the   *)
(* pool until it returns.                                                  *)
CallInv ==
  \A u \in Users :
    /\ (call[u].conn # NoConn) <=> (pc[u] \in {"run", "release", "file"})
    /\ pc[u] # "ready" => call[u].key \in Keys /\ call[u].kind \in Kinds

(* A connection keeps m_broken only in the hands of a user.                *)
BrokenIsHeld == broken \subseteq Held

Inv == TypeOK /\ CallInv /\ BrokenIsHeld /\ ExclusiveUse /\ BrokenNeverReused

-------------------------------------------------------------------------------
(* What std::remove_if leaves.                                             *)

(* A set of numbers that has one has a least one.                          *)
LEMMA LeastNatural ==
  ASSUME NEW T, T \subseteq Nat, T # {}
  PROVE  \E n \in T : \A m \in T : n <= m
<1> DEFINE R == OpToRel(<, Nat)
<1>1. IsWellFoundedOn(R, Nat)
  BY NatLessThanWellFounded
<1>2. \A x, y \in Nat : y < x => <<y, x>> \in R
  BY DEF OpToRel
<1> HIDE DEF R
<1>3. PICK n \in T : \A m \in T : ~(<<m, n>> \in R)
  BY <1>1, WFMin
<1>4. ASSUME NEW m \in T PROVE n <= m
  <2>1. n \in Nat /\ m \in Nat /\ ~(m < n)
    BY <1>2, <1>3
  <2> QED
    BY <2>1
<1> QED
  BY <1>4

(* No two places of a list hold the same connection.                       *)
Distinct(list) == \A i, j \in 1 .. Len(list) : list[i] = list[j] => i = j

(* The recursion of RemoveIf, up to N, and that it defines a function.     *)
IsKept(f, list, old, N) ==
  f = [i \in 0 .. N |->
         IF i = 0 THEN <<>>
         ELSE IF list[i] \in old THEN f[i - 1] ELSE Append(f[i - 1], list[i])]

LEMMA KeptExists ==
  ASSUME NEW list, NEW old, NEW N \in Nat
  PROVE  \E f : IsKept(f, list, old, N)
<1> DEFINE Step(f, i) == IF i = 0 THEN <<>>
                         ELSE IF list[i] \in old THEN f[i - 1] ELSE Append(f[i - 1], list[i])
           Good(n, f) == f = [i \in 0 .. n |-> Step(f, i)]
           T == {n \in Nat : ~\E f : Good(n, f)}
<1>1. SUFFICES T = {}
  BY <1>1 DEF IsKept
<1>2. SUFFICES ASSUME T # {} PROVE FALSE
  OBVIOUS
<1>3. PICK n \in T : \A m \in T : n <= m
  <2> HIDE DEF T
  <2>1. T \subseteq Nat
    BY DEF T
  <2> QED
    BY <1>2, <2>1, LeastNatural
<1>4. n # 0
  <2> DEFINE g == [i \in 0 .. 0 |-> <<>>]
  <2>1. Good(0, g)
    OBVIOUS
  <2> QED
    BY <2>1
<1>5. n - 1 \in Nat /\ n - 1 \notin T
  <2>1. n \in Nat
    BY <1>3
  <2> HIDE DEF T
  <2> QED
    BY <1>3, <1>4, <2>1
<1>6. PICK g : Good(n - 1, g)
  BY <1>5
<1> DEFINE h == [i \in 0 .. n |-> IF i < n THEN g[i] ELSE Step(g, n)]
<1>7. \A i \in 0 .. (n - 1) : g[i] = Step(g, i)
  BY <1>6
<1>8. \A i \in 0 .. (n - 1) : h[i] = g[i]
  BY <1>4
<1>9. ASSUME NEW i \in 0 .. n PROVE h[i] = Step(h, i)
  <2>1. CASE i = 0
    BY <1>4, <1>7, <2>1
  <2>2. CASE i # 0
    <3>1. h[i - 1] = g[i - 1]
      BY <1>8, <2>2
    <3>2. Step(h, i) = Step(g, i)
      BY <2>2, <3>1
    <3>3. h[i] = Step(g, i)
      BY <1>7
    <3> QED
      BY <3>2, <3>3
  <2> QED
    BY <2>1, <2>2
<1>10. Good(n, h)
  BY <1>9
<1> QED
  BY <1>10

(* RemoveIf leaves only connections of the list that are not among the old      *)
(* ones, none of them twice.                                               *)
LEMMA RemoveIfResult ==
  ASSUME NEW S, NEW list \in Seq(S), NEW old
  PROVE  /\ RemoveIf(list, old) \in Seq(S)
         /\ Len(RemoveIf(list, old)) <= Len(list)
         /\ Members(RemoveIf(list, old)) \subseteq Members(list) \ old
         /\ Distinct(list) => Distinct(RemoveIf(list, old))
<1> DEFINE N == Len(list)
           kept == CHOOSE f : IsKept(f, list, old, N)
<1>1. N \in Nat /\ \A i \in 1 .. N : list[i] \in S
  BY ElementOfSeq
<1>2. IsKept(kept, list, old, N)
  BY <1>1, KeptExists
<1>3. RemoveIf(list, old) = kept[N]
  BY DEF RemoveIf, IsKept
<1> HIDE DEF kept
<1>4. \A i \in 0 .. N :
        kept[i] = IF i = 0 THEN <<>>
                  ELSE IF list[i] \in old THEN kept[i - 1] ELSE Append(kept[i - 1], list[i])
  BY <1>2 DEF IsKept
<1> DEFINE P(i) == /\ kept[i] \in Seq(S) /\ Len(kept[i]) <= i
                   /\ \A n \in 1 .. Len(kept[i]) :
                        kept[i][n] \notin old /\ \E m \in 1 .. i : kept[i][n] = list[m]
                   /\ Distinct(list) => Distinct(kept[i])
           T == {i \in 0 .. N : ~P(i)}
<1>5. P(0)
  <2>1. kept[0] = <<>>
    BY <1>1, <1>4
  <2> QED
    BY <2>1 DEF Distinct
<1>6. ASSUME NEW i \in 1 .. N, P(i - 1) PROVE P(i)
  <2>1. CASE list[i] \in old
    <3>1. kept[i] = kept[i - 1]
      BY <1>4, <2>1
    <3> QED
      BY <1>6, <3>1
  <2>2. CASE list[i] \notin old
    <3> DEFINE before == kept[i - 1]
               after == kept[i]
    <3>1. after = Append(before, list[i])
      <4>1. i \in 0 .. N /\ i # 0
        BY <1>1
      <4> QED
        BY <1>4, <2>2, <4>1
    <3>2. before \in Seq(S) /\ list[i] \in S /\ Len(before) \in Nat /\ Len(before) <= i - 1
      BY <1>1, <1>6
    <3>3. /\ \A n \in 1 .. Len(before) :
               before[n] \notin old /\ \E m \in 1 .. (i - 1) : before[n] = list[m]
          /\ Distinct(list) => Distinct(before)
      BY <1>6
    <3> HIDE DEF before, after
    <3>4. /\ after \in Seq(S) /\ Len(after) = Len(before) + 1
          /\ after[Len(before) + 1] = list[i]
          /\ \A n \in 1 .. Len(before) : after[n] = before[n]
      BY <3>1, <3>2, AppendProperties
    <3>5. \A n \in 1 .. Len(after) :
            after[n] \notin old /\ \E m \in 1 .. i : after[n] = list[m]
      BY <2>2, <3>2, <3>3, <3>4
    <3>6. ASSUME Distinct(list) PROVE Distinct(after)
      <4>1. \A n \in 1 .. Len(before) : before[n] # list[i]
        BY <1>1, <3>2, <3>3, <3>6 DEF Distinct
      <4>2. Distinct(before)
        BY <3>3, <3>6
      <4> QED
        BY <3>2, <3>4, <4>1, <4>2 DEF Distinct
    <3> QED
      BY <3>2, <3>4, <3>5, <3>6 DEF after
  <2> QED
    BY <2>1, <2>2
<1>7. P(N)
  <2> HIDE DEF P
  <2>1. SUFFICES ASSUME T # {} PROVE FALSE
    BY <1>1
  <2>2. PICK i \in T : \A m \in T : i <= m
    <3>1. T \subseteq Nat
      BY <1>1
    <3> HIDE DEF T
    <3> QED
      BY <2>1, <3>1, LeastNatural
  <2>3. i \in 1 .. N /\ i - 1 \in 0 .. N /\ i - 1 \notin T
    BY <1>1, <1>5, <2>2
  <2> QED
    BY <1>6, <2>2, <2>3
<1> QED
  BY <1>1, <1>3, <1>7 DEF Members

-------------------------------------------------------------------------------
(* The invariant.                                                          *)

Calls == [kind : Kinds \cup {"none"}, key : Keys \cup {NoShare}, attempt : 0 .. 1,
          conn : Conns \cup {NoConn}, retry : BOOLEAN, denied : BOOLEAN]
HasConn == {"run", "release", "file"}
NoConnSteps == {"ready", "acquire", "connect", "forget"}

(* No connection is at two places of the pool.                             *)
MeetOnce(lists) ==
  \A k, l \in Keys : \A i \in 1 .. Len(lists[k]), j \in 1 .. Len(lists[l]) :
    lists[k][i] = lists[l][j] => k = l /\ i = j

(* The types of the pool alone.                                            *)
PoolOK(lists) == lists \in [Keys -> Seq(Conns)] /\ \A k \in Keys : Len(lists[k]) <= MaxIdle

(* What a step of one user has to bring about for Inv to hold after it.    *)
LEMMA OneUserSteps ==
  ASSUME Inv, NEW u \in Users,
         PoolOK(idle'), aged' \subseteq Idle', broken' \subseteq Conns,
         pc' \in [Users -> HasConn \cup NoConnSteps], call' \in [Users -> Calls],
         \A v \in Users \ {u} : call'[v] = call[v] /\ pc'[v] = pc[v],
         (call'[u].conn # NoConn) <=> (pc'[u] \in HasConn),
         pc'[u] # "ready" => call'[u].key \in Keys /\ call'[u].kind \in Kinds,
         \/ call'[u].conn \in {NoConn, call[u].conn}
         \/ call'[u].conn \notin Held \cup Idle',
         Idle' \subseteq Idle \cup ({call[u].conn} \ {NoConn, call'[u].conn}),
         MeetOnce(idle'),
         broken' \subseteq broken \cup ({call'[u].conn} \ {NoConn}),
         call[u].conn \in broken' => call'[u].conn = call[u].conn,
         Idle' \cap broken' = {},
         pc'[u] = "run" => call'[u].conn \notin broken'
  PROVE  Inv'
<1>1. TypeOK'
  BY DEF TypeOK, PoolOK, Calls, HasConn, NoConnSteps
<1>2. CallInv'
  BY DEF Inv, CallInv, HasConn
<1>3. /\ call \in [Users -> Calls]
      /\ \A v \in Users \ {u} : call[v].conn # NoConn => call[v].conn # call[u].conn
      /\ Idle \cap Held = {}
      /\ \A v \in Users : call[v].conn # NoConn => call[v].conn \in Held
  BY DEF Inv, TypeOK, Calls, ExclusiveUse, Held
<1>4. \A v \in Users \ {u} : call'[v].conn # NoConn => call'[v].conn # call'[u].conn
  BY <1>3
<1>5. ExclusiveUse'
  <2>1. \A v, w \in Users : call'[v].conn # NoConn /\ call'[v].conn = call'[w].conn => v = w
    BY <1>3, <1>4 DEF Inv, ExclusiveUse
  <2>2. ASSUME NEW v \in Users, call'[v].conn # NoConn PROVE call'[v].conn \notin Idle'
    BY <1>3, <2>2
  <2>3. Idle' \cap Held' = {}
    BY <2>2 DEF Held
  <2> QED
    BY <2>1, <2>3 DEF ExclusiveUse, MeetOnce
<1>6. BrokenIsHeld'
  <2>1. ASSUME NEW c \in broken' PROVE \E v \in Users : call'[v].conn = c /\ c # NoConn
    <3>1. CASE c = call'[u].conn
      BY <3>1, EnoughConnections DEF Conns, NoConn
    <3>2. CASE c # call'[u].conn
      <4>1. PICK v \in Users : call[v].conn = c /\ c # NoConn
        BY <3>2 DEF Inv, BrokenIsHeld, Held
      <4> QED
        BY <3>2, <4>1
    <3> QED
      BY <3>1, <3>2
  <2> QED
    BY <2>1 DEF BrokenIsHeld, Held
<1>7. BrokenNeverReused'
  <2>1. ASSUME NEW v \in Users, pc'[v] = "run", v # u PROVE call'[v].conn \notin broken'
    <3>1. call'[v].conn # NoConn /\ call[v].conn \notin broken /\ call'[v].conn = call[v].conn
      BY <2>1 DEF Inv, CallInv, BrokenNeverReused
    <3> QED
      BY <1>4, <2>1, <3>1
  <2> QED
    BY <2>1 DEF BrokenNeverReused
<1> QED
  BY <1>1, <1>2, <1>5, <1>6, <1>7 DEF Inv

(* What Inv says of the pool and of one user.                              *)
LEMMA UserFacts ==
  ASSUME Inv, NEW u \in Users
  PROVE  /\ PoolOK(idle) /\ aged \subseteq Idle /\ broken \subseteq Conns /\ MeetOnce(idle)
         /\ pc \in [Users -> HasConn \cup NoConnSteps] /\ call \in [Users -> Calls]
         /\ call[u] \in Calls
         /\ call[u].conn \in Conns \cup {NoConn} /\ NoConn \notin Conns
         /\ (call[u].conn # NoConn) <=> (pc[u] \in HasConn)
         /\ pc[u] # "ready" => call[u].key \in Keys /\ call[u].kind \in Kinds
         /\ Idle \cap broken = {} /\ Idle \cap Held = {} /\ Idle \subseteq Conns
         /\ pc[u] = "run" => call[u].conn \notin broken
<1>1. /\ PoolOK(idle) /\ aged \subseteq Idle /\ broken \subseteq Conns
      /\ pc \in [Users -> HasConn \cup NoConnSteps] /\ call \in [Users -> Calls]
  BY DEF Inv, TypeOK, PoolOK, HasConn, NoConnSteps, Calls
<1>2. call[u].conn \in Conns \cup {NoConn} /\ NoConn \notin Conns
  BY <1>1, EnoughConnections DEF Calls, NoConn, Conns
<1>3. Idle \subseteq Conns
  BY <1>1, ElementOfSeq DEF Idle, Members, PoolOK
<1> QED
  BY <1>1, <1>2, <1>3 DEF Inv, CallInv, ExclusiveUse, MeetOnce, BrokenNeverReused, HasConn

(* A call that has no connection is well-typed.                            *)
LEMMA NoCallTyped ==
  /\ NoCall \in Calls
  /\ \A kind \in Kinds, k \in Keys :
       /\ [NoCall EXCEPT !.kind = kind, !.key = k] \in Calls
       /\ [NoCall EXCEPT !.kind = kind, !.key = k, !.attempt = 1] \in Calls
<1>1. NoCall \in Calls
  BY DEF NoCall, Calls
<1>2. ASSUME NEW kind \in Kinds, NEW k \in Keys
      PROVE  [NoCall EXCEPT !.kind = kind, !.key = k] \in Calls
  BY <1>1 DEF Calls
<1>3. ASSUME NEW kind \in Kinds, NEW k \in Keys
      PROVE  [NoCall EXCEPT !.kind = kind, !.key = k, !.attempt = 1] \in Calls
  <2>1. 1 \in 0 .. 1
    OBVIOUS
  <2> QED
    BY <1>1, <2>1 DEF Calls
<1> QED
  BY <1>1, <1>2, <1>3

(* Steps that leave the pool as it is.                                     *)
LEMMA CallKeeps ==
  ASSUME Inv, NEW u \in Users, NEW kind \in Kinds, NEW k \in Keys, Call(u, kind, k)
  PROVE  Inv'
<1>1. /\ call' = [call EXCEPT ![u] = [NoCall EXCEPT !.kind = kind, !.key = k]]
      /\ pc' = [pc EXCEPT ![u] = "acquire"] /\ UNCHANGED <<idle, aged, broken>> /\ pc[u] = "ready"
  BY DEF Call, Goto
<1>2. Idle' = Idle
  BY <1>1 DEF Idle
<1>3. [NoCall EXCEPT !.kind = kind, !.key = k] \in Calls
  BY NoCallTyped
<1>4. /\ call' \in [Users -> Calls] /\ call'[u].conn = NoConn /\ call'[u].kind = kind
      /\ call'[u].key = k /\ pc'[u] = "acquire"
      /\ \A v \in Users \ {u} : call'[v] = call[v] /\ pc'[v] = pc[v]
      /\ pc' \in [Users -> HasConn \cup NoConnSteps]
  BY <1>1, <1>3, UserFacts DEF NoCall, NoConnSteps
<1> QED
  BY <1>1, <1>2, <1>4, UserFacts, OneUserSteps DEF HasConn

(* Connects: the new connection's number is free. *)
LEMMA ConnectsKeeps ==
  ASSUME Inv, NEW u \in Users, NEW c \in Conns, Connects(u, c)
  PROVE  Inv'
<1>1. /\ call' = [call EXCEPT ![u].conn = c] /\ c \notin Idle \cup Held
      /\ pc' = [pc EXCEPT ![u] = "run"] /\ UNCHANGED <<idle, aged, broken>> /\ pc[u] = "connect"
  BY DEF Connects, Goto, Gone
<1>2. Idle' = Idle
  BY <1>1 DEF Idle
<1>3. /\ call' \in [Users -> Calls] /\ call'[u].conn = c /\ call'[u].kind = call[u].kind
      /\ call'[u].key = call[u].key /\ pc'[u] = "run"
      /\ \A v \in Users \ {u} : call'[v] = call[v] /\ pc'[v] = pc[v]
      /\ pc' \in [Users -> HasConn \cup NoConnSteps]
  BY <1>1, UserFacts DEF Calls, HasConn
<1>4. c \notin broken
  BY <1>1 DEF Inv, BrokenIsHeld
<1> QED
  BY <1>1, <1>2, <1>3, <1>4, UserFacts, OneUserSteps DEF HasConn

(* ConnectFails: nothing was taken. *)
LEMMA ConnectFailsKeeps ==
  ASSUME Inv, NEW u \in Users, NEW access \in BOOLEAN, ConnectFails(u, access)
  PROVE  Inv'
<1>1. UNCHANGED <<idle, aged, broken>> /\ pc[u] = "connect"
  BY DEF ConnectFails
<1>2. Idle' = Idle
  BY <1>1 DEF Idle
<1>3. \/ pc' = [pc EXCEPT ![u] = "forget"] /\ call' = call
      \/ pc' = [pc EXCEPT ![u] = "ready"] /\ call' = [call EXCEPT ![u] = NoCall]
  BY DEF ConnectFails, Goto
<1>4. /\ call' \in [Users -> Calls] /\ call'[u].conn = NoConn
      /\ pc'[u] \in {"forget", "ready"} /\ (pc'[u] = "forget" => call'[u] = call[u])
      /\ \A v \in Users \ {u} : call'[v] = call[v] /\ pc'[v] = pc[v]
      /\ pc' \in [Users -> HasConn \cup NoConnSteps]
  <2>1. CASE pc' = [pc EXCEPT ![u] = "forget"] /\ call' = call
    BY <1>1, <2>1, UserFacts DEF NoConnSteps, HasConn
  <2>2. CASE pc' = [pc EXCEPT ![u] = "ready"] /\ call' = [call EXCEPT ![u] = NoCall]
    <3>1. NoCall \in Calls /\ NoCall.conn = NoConn
      BY NoCallTyped DEF NoCall
    <3> QED
      BY <2>2, <3>1, UserFacts DEF NoConnSteps
  <2> QED
    BY <1>3, <2>1, <2>2
<1> QED
  BY <1>1, <1>2, <1>4, UserFacts, OneUserSteps DEF HasConn

(* The operation, and what happens to an open file: the connection stays   *)
(* with its user, broken or not.                                           *)
LEMMA OperationKeeps ==
  ASSUME Inv, NEW u \in Users,
         \/ OpSucceeds(u) \/ OpLosesConnection(u) \/ FileOpFails(u) \/ FileCloses(u)
         \/ \E access \in BOOLEAN : OpIsRefused(u, access)
  PROVE  Inv'
<1>1. UNCHANGED <<idle, aged>> /\ pc[u] \in {"run", "file"}
  BY DEF OpSucceeds, OpLosesConnection, FileOpFails, FileCloses, OpIsRefused
<1>2. Idle' = Idle
  BY <1>1 DEF Idle
<1>3. /\ call' \in [Users -> Calls] /\ call'[u].conn = call[u].conn
      /\ call'[u].key = call[u].key /\ call'[u].kind = call[u].kind
      /\ \A v \in Users \ {u} : call'[v] = call[v]
  <2>1. CASE call' = call
    BY <2>1, UserFacts
  <2>2. ASSUME NEW b \in BOOLEAN, call' = [call EXCEPT ![u].retry = b] PROVE <1>3!:
    BY <2>2, UserFacts DEF Calls
  <2>3. ASSUME NEW b \in BOOLEAN, call' = [call EXCEPT ![u].denied = b] PROVE <1>3!:
    BY <2>3, UserFacts DEF Calls
  <2> QED
    BY <2>1, <2>2, <2>3 DEF OpSucceeds, OpLosesConnection, FileOpFails, FileCloses, OpIsRefused,
       RetriesOnce, Forgets
<1>4. broken' = broken \/ broken' = broken \cup {call[u].conn}
  BY DEF OpSucceeds, OpLosesConnection, FileOpFails, FileCloses, OpIsRefused, Breaks
<1>5. /\ pc' \in [Users -> HasConn \cup NoConnSteps] /\ pc'[u] \in {"file", "release"}
      /\ \A v \in Users \ {u} : pc'[v] = pc[v]
  BY UserFacts DEF OpSucceeds, OpLosesConnection, FileOpFails, FileCloses, OpIsRefused, Goto, HasConn
<1>6. call[u].conn \in Conns /\ call[u].conn \notin Idle
  BY <1>1, UserFacts DEF HasConn, Held
<1>7. broken' \subseteq Conns /\ Idle' \cap broken' = {}
  BY <1>2, <1>4, <1>6, UserFacts
<1> QED
  BY <1>1, <1>2, <1>3, <1>4, <1>5, <1>6, <1>7, UserFacts, OneUserSteps DEF HasConn

-------------------------------------------------------------------------------
(* Steps under the pool's mutex.                                           *)

(* What Pool leaves of the other variables.                                *)
LEMMA PoolLeaves ==
  ASSUME NEW lists, NEW dropped, Pool(lists, dropped)
  PROVE  idle' = lists /\ aged' \subseteq Idle' /\ broken' \subseteq broken \ dropped
BY DEF Pool, Idle

(* A pool that only lost members is a pool.                                *)
LEMMA PoolShrinks ==
  ASSUME PoolOK(idle), MeetOnce(idle), NEW lists \in [Keys -> Seq(Conns)],
         \A k \in Keys : /\ Len(lists[k]) <= Len(idle[k])
                         /\ Members(lists[k]) \subseteq Members(idle[k])
                         /\ Distinct(lists[k])
  PROVE  /\ PoolOK(lists) /\ MeetOnce(lists)
         /\ UNION {Members(lists[k]) : k \in Keys} \subseteq Idle
<1>1. PoolOK(lists)
  <2> SUFFICES ASSUME NEW k \in Keys PROVE Len(lists[k]) <= MaxIdle
    BY DEF PoolOK
  <2>1. Len(lists[k]) \in Nat /\ Len(idle[k]) \in Nat /\ Len(idle[k]) <= MaxIdle
    BY DEF PoolOK
  <2> QED
    BY <2>1, PoolAssumption
<1>2. MeetOnce(lists)
  <2> SUFFICES ASSUME NEW k \in Keys, NEW l \in Keys, NEW i \in 1 .. Len(lists[k]),
                      NEW j \in 1 .. Len(lists[l]), lists[k][i] = lists[l][j]
               PROVE  k = l /\ i = j
    BY DEF MeetOnce
  <2>1. lists[k][i] \in Members(idle[k]) /\ lists[k][i] \in Members(idle[l])
    BY DEF Members
  <2>2. k = l
    BY <2>1 DEF Members, MeetOnce
  <2> QED
    BY <2>2 DEF Distinct
<1>3. UNION {Members(lists[k]) : k \in Keys} \subseteq Idle
  BY DEF Idle
<1> QED
  BY <1>1, <1>2, <1>3

(* ExpireLocked only takes connections out, every aged one among them.     *)
LEMMA ExpireShrinks ==
  ASSUME PoolOK(idle), MeetOnce(idle)
  PROVE  /\ ExpireLocked \in [Keys -> Seq(Conns)]
         /\ \A k \in Keys : /\ Len(ExpireLocked[k]) <= Len(idle[k])
                            /\ Members(ExpireLocked[k]) \subseteq Members(idle[k]) \ aged
                            /\ Distinct(ExpireLocked[k])
<1> SUFFICES ASSUME NEW k \in Keys
             PROVE  /\ RemoveIf(idle[k], aged) \in Seq(Conns)
                    /\ Len(RemoveIf(idle[k], aged)) <= Len(idle[k])
                    /\ Members(RemoveIf(idle[k], aged)) \subseteq Members(idle[k]) \ aged
                    /\ Distinct(RemoveIf(idle[k], aged))
  BY DEF ExpireLocked
<1>1. idle[k] \in Seq(Conns) /\ Distinct(idle[k])
  BY DEF PoolOK, MeetOnce, Distinct
<1> QED
  BY <1>1, RemoveIfResult

(* Taking the last connection of a list.                                   *)
LEMMA PopBackLeaves ==
  ASSUME NEW S, NEW list \in Seq(S), list # <<>>, Distinct(list)
  PROVE  /\ list[Len(list)] \in Members(list)
         /\ PopBack(list) \in Seq(S) /\ Len(PopBack(list)) <= Len(list)
         /\ Members(PopBack(list)) \subseteq Members(list) \ {list[Len(list)]}
         /\ Distinct(PopBack(list))
<1> DEFINE n == Len(list)
           rest == PopBack(list)
<1>1. n \in Nat /\ n # 0
  BY EmptySeq
<1>2. rest \in Seq(S) /\ Len(rest) = n - 1 /\ \A i \in 1 .. (n - 1) : rest[i] = list[i]
  <2>1. 1 \in Int /\ n - 1 \in Int /\ \A i \in 1 .. (n - 1) : list[i] \in S
    BY <1>1, ElementOfSeq
  <2>2. /\ rest \in Seq(S) /\ Len(rest) = (IF 1 <= n - 1 THEN n - 1 - 1 + 1 ELSE 0)
        /\ \A i \in 1 .. (n - 1 - 1 + 1) : rest[i] = list[1 + i - 1]
    <3> HIDE DEF n
    <3> QED
      BY <2>1, SubSeqProperties DEF PopBack, n
  <2> HIDE DEF n, rest
  <2>3. Len(rest) = n - 1
    BY <1>1, <2>2
  <2>4. ASSUME NEW i \in 1 .. (n - 1) PROVE rest[i] = list[i]
    <3>1. i \in 1 .. (n - 1 - 1 + 1) /\ 1 + i - 1 = i
      BY <1>1
    <3> QED
      BY <2>2, <3>1
  <2> QED
    BY <2>2, <2>3, <2>4
<1> HIDE DEF rest
<1>3. \A i \in 1 .. Len(rest) : rest[i] = list[i] /\ i \in 1 .. n /\ i # n
  BY <1>1, <1>2
<1>4. list[n] \in Members(list) /\ Members(rest) \subseteq Members(list) \ {list[n]}
  BY <1>1, <1>3 DEF Members, Distinct
<1>5. Distinct(rest)
  BY <1>1, <1>3 DEF Distinct
<1> QED
  BY <1>1, <1>2, <1>4, <1>5 DEF rest

(* AcquireIdle takes a connection from the pool, and leaves it there       *)
(* nowhere.                                                                *)
LEMMA AcquireIdleKeeps ==
  ASSUME Inv, NEW u \in Users, AcquireIdle(u)
  PROVE  Inv' /\ call'[u].conn \notin aged
<1> DEFINE k == call[u].key
           list == ExpireLocked[k]
           c == list[Len(list)]
           lists == [ExpireLocked EXCEPT ![k] = PopBack(list)]
<1>1. /\ pc[u] = "acquire" /\ list # <<>> /\ k \in Keys
      /\ call' = [call EXCEPT ![u].conn = c] /\ pc' = [pc EXCEPT ![u] = "run"]
      /\ Pool(lists, {})
  BY UserFacts DEF AcquireIdle, Goto
<1>2. PoolOK(idle) /\ MeetOnce(idle)
  BY UserFacts
<1>3. list \in Seq(Conns) /\ Distinct(list) /\ Members(list) \subseteq Members(idle[k]) \ aged
  BY <1>1, <1>2, ExpireShrinks
<1>4. /\ c \in Members(list) /\ PopBack(list) \in Seq(Conns)
      /\ Len(PopBack(list)) <= Len(list)
      /\ Members(PopBack(list)) \subseteq Members(list) \ {c} /\ Distinct(PopBack(list))
  <2> HIDE DEF list
  <2> QED
    BY <1>1, <1>3, PopBackLeaves
<1>5. c \in Idle /\ c \notin aged /\ c \in Conns /\ c \notin Held /\ c \notin broken
  BY <1>1, <1>3, <1>4, UserFacts DEF Idle
<1>6. /\ lists \in [Keys -> Seq(Conns)]
      /\ \A l \in Keys : lists[l] = IF l = k THEN PopBack(list) ELSE ExpireLocked[l]
  BY <1>1, <1>2, <1>4, ExpireShrinks
<1>7. ASSUME NEW l \in Keys
      PROVE  /\ Len(lists[l]) <= Len(idle[l]) /\ Members(lists[l]) \subseteq Members(idle[l])
             /\ Distinct(lists[l]) /\ c \notin Members(lists[l])
  <2>1. CASE l = k
    <3>1. Len(list) \in Nat /\ Len(PopBack(list)) \in Nat /\ Len(idle[k]) \in Nat
      BY <1>1, <1>2, <1>3, <1>4 DEF PoolOK
    <3>2. Len(list) <= Len(idle[k])
      BY <1>1, <1>2, ExpireShrinks
    <3>3. lists[l] = PopBack(list)
      BY <1>6, <2>1
    <3> HIDE DEF list, c, lists
    <3> QED
      BY <1>3, <1>4, <2>1, <3>1, <3>2, <3>3
  <2>2. CASE l # k
    <3>1. /\ Len(lists[l]) <= Len(idle[l]) /\ Members(lists[l]) \subseteq Members(idle[l])
          /\ Distinct(lists[l])
      BY <1>2, <1>6, <2>2, ExpireShrinks
    <3>2. c \in Members(idle[k])
      BY <1>3, <1>4
    <3>3. c \notin Members(idle[l])
      <4> HIDE DEF c
      <4> QED
        BY <1>1, <1>2, <2>2, <3>2 DEF Members, MeetOnce
    <3> QED
      BY <3>1, <3>3
  <2> QED
    BY <2>1, <2>2
<1> HIDE DEF lists, c, list
<1>8. /\ PoolOK(lists) /\ MeetOnce(lists) /\ idle' = lists /\ aged' \subseteq Idle'
      /\ broken' \subseteq broken
  BY <1>1, <1>2, <1>6, <1>7, PoolShrinks, PoolLeaves
<1>9. Idle' \subseteq Idle /\ c \notin Idle'
  BY <1>7, <1>8 DEF Idle
<1>10. /\ call' \in [Users -> Calls] /\ call'[u].conn = c /\ call'[u].kind = call[u].kind
       /\ call'[u].key = call[u].key /\ pc'[u] = "run"
       /\ \A v \in Users \ {u} : call'[v] = call[v] /\ pc'[v] = pc[v]
       /\ pc' \in [Users -> HasConn \cup NoConnSteps]
  BY <1>1, <1>5, UserFacts DEF Calls, HasConn
<1> HIDE DEF k
<1>11. Inv'
  BY <1>1, <1>5, <1>8, <1>9, <1>10, UserFacts, OneUserSteps DEF HasConn
<1> QED
  BY <1>5, <1>10, <1>11

(* AcquireNone and Forget take connections out of the pool, which are      *)
(* destroyed with it.                                                      *)
LEMMA AcquireNoneKeeps ==
  ASSUME Inv, NEW u \in Users, AcquireNone(u)
  PROVE  Inv'
<1>1. /\ pc[u] = "acquire" /\ call' = call /\ pc' = [pc EXCEPT ![u] = "connect"]
      /\ Pool(ExpireLocked, {})
  BY DEF AcquireNone, Goto
<1>2. PoolOK(idle) /\ MeetOnce(idle)
  BY UserFacts
<1>3. /\ PoolOK(ExpireLocked) /\ MeetOnce(ExpireLocked)
      /\ UNION {Members(ExpireLocked[k]) : k \in Keys} \subseteq Idle
  BY <1>2, ExpireShrinks, PoolShrinks
<1>4. idle' = ExpireLocked /\ aged' \subseteq Idle' /\ broken' \subseteq broken
  BY <1>1, PoolLeaves
<1>5. PoolOK(idle') /\ MeetOnce(idle') /\ Idle' \subseteq Idle
  BY <1>3, <1>4 DEF Idle
<1>6. /\ pc' \in [Users -> HasConn \cup NoConnSteps] /\ pc'[u] = "connect"
      /\ \A v \in Users \ {u} : pc'[v] = pc[v]
  BY <1>1, UserFacts DEF NoConnSteps
<1> QED
  BY <1>1, <1>4, <1>5, <1>6, UserFacts, OneUserSteps DEF HasConn

LEMMA ForgetKeeps ==
  ASSUME Inv, NEW u \in Users, Forget(u)
  PROVE  Inv'
<1> DEFINE lists == [k \in Keys |-> IF k = ForgottenKey(u) THEN <<>> ELSE idle[k]]
<1>1. /\ pc[u] = "forget" /\ call' = [call EXCEPT ![u] = NoCall]
      /\ pc' = [pc EXCEPT ![u] = "ready"] /\ Pool(lists, {})
  BY DEF Forget, Goto
<1>2. PoolOK(idle) /\ MeetOnce(idle)
  BY UserFacts
<1>3. /\ lists \in [Keys -> Seq(Conns)]
      /\ \A k \in Keys : /\ Len(lists[k]) <= Len(idle[k])
                         /\ Members(lists[k]) \subseteq Members(idle[k])
                         /\ Distinct(lists[k])
  BY <1>2 DEF PoolOK, MeetOnce, Distinct, Members
<1> HIDE DEF lists
<1>4. /\ PoolOK(lists) /\ MeetOnce(lists) /\ idle' = lists
      /\ UNION {Members(lists[k]) : k \in Keys} \subseteq Idle
      /\ aged' \subseteq Idle' /\ broken' \subseteq broken
  BY <1>1, <1>2, <1>3, PoolShrinks, PoolLeaves
<1>5. Idle' \subseteq Idle
  BY <1>4 DEF Idle
<1>6. NoCall \in Calls /\ NoCall.conn = NoConn
  BY NoCallTyped DEF NoCall
<1>7. /\ pc' \in [Users -> HasConn \cup NoConnSteps] /\ pc'[u] = "ready"
      /\ call' \in [Users -> Calls] /\ call'[u].conn = NoConn
      /\ \A v \in Users \ {u} : pc'[v] = pc[v] /\ call'[v] = call[v]
  BY <1>1, <1>6, UserFacts DEF NoConnSteps
<1> QED
  BY <1>1, <1>4, <1>5, <1>7, UserFacts, OneUserSteps DEF HasConn

(* Release gives up the connection: whole and with room for it to the      *)
(* pool, otherwise to nobody.                                              *)
LEMMA ReleaseKeeps ==
  ASSUME Inv, NEW u \in Users, Release(u)
  PROVE  Inv'
<1> DEFINE k == call[u].key
           c == call[u].conn
<1>1. /\ pc[u] = "release" /\ k \in Keys /\ call[u].kind \in Kinds
      /\ c \in Conns /\ c \in Held /\ c \notin Idle
  BY UserFacts DEF Release, HasConn, Held
<1>2. /\ pc' \in [Users -> HasConn \cup NoConnSteps] /\ call' \in [Users -> Calls]
      /\ \A v \in Users \ {u} : pc'[v] = pc[v] /\ call'[v] = call[v]
      /\ call'[u].conn = NoConn /\ pc'[u] \in NoConnSteps
      /\ pc'[u] # "ready" => call'[u].key \in Keys /\ call'[u].kind \in Kinds
  <2>1. CASE /\ pc' = [pc EXCEPT ![u] = "acquire"]
             /\ call' = [call EXCEPT ![u] = [NoCall EXCEPT !.kind = call[u].kind, !.key = k,
                                                           !.attempt = 1]]
    <3> DEFINE r == [NoCall EXCEPT !.kind = call[u].kind, !.key = k, !.attempt = 1]
    <3>1. r \in Calls
      BY <1>1, NoCallTyped
    <3>2. r.conn = NoConn /\ r.key = k /\ r.kind = call[u].kind
      BY DEF NoCall
    <3> HIDE DEF r
    <3> QED
      BY <1>1, <2>1, <3>1, <3>2, UserFacts DEF NoConnSteps, r
  <2>2. CASE pc' = [pc EXCEPT ![u] = "forget"] /\ call' = [call EXCEPT ![u].conn = NoConn]
    BY <1>1, <2>2, UserFacts DEF NoConnSteps, Calls
  <2>3. CASE pc' = [pc EXCEPT ![u] = "ready"] /\ call' = [call EXCEPT ![u] = NoCall]
    <3>1. NoCall \in Calls /\ NoCall.conn = NoConn
      BY NoCallTyped DEF NoCall
    <3> QED
      BY <2>3, <3>1, UserFacts DEF NoConnSteps
  <2> QED
    BY <2>1, <2>2, <2>3 DEF Release, Goto
<1>3. CASE c \in broken \/ ~HasRoom(u)
  <2>1. Pool(idle, {c})
    BY <1>3 DEF Release, GoesBack
  <2>2. idle' = idle /\ aged' \subseteq Idle' /\ broken' \subseteq broken \ {c}
    BY <2>1, PoolLeaves
  <2>3. Idle' = Idle
    BY <2>2 DEF Idle
  <2> QED
    BY <1>1, <1>2, <2>2, <2>3, UserFacts, OneUserSteps DEF HasConn, NoConnSteps
<1>4. CASE c \notin broken /\ HasRoom(u)
  <2> DEFINE lists == [idle EXCEPT ![k] = Append(@, c)]
  <2>1. Pool(lists, {})
    BY <1>4 DEF Release, GoesBack
  <2>2. idle' = lists /\ aged' \subseteq Idle' /\ broken' \subseteq broken
    BY <2>1, PoolLeaves
  <2>3. /\ idle[k] \in Seq(Conns) /\ Len(idle[k]) \in Nat /\ Len(idle[k]) < MaxIdle
        /\ idle \in [Keys -> Seq(Conns)]
    BY <1>1, <1>4, UserFacts DEF HasRoom, PoolOK
  <2> DEFINE n == Len(idle[k])
             list == Append(idle[k], c)
  <2>4. /\ list \in Seq(Conns) /\ Len(list) = n + 1 /\ list[n + 1] = c
        /\ \A i \in 1 .. n : list[i] = idle[k][i]
    BY <1>1, <2>3, AppendProperties
  <2>5. \A l \in Keys : lists[l] = IF l = k THEN list ELSE idle[l]
    BY <2>3
  <2> HIDE DEF list
  <2>6. PoolOK(lists)
    BY <1>1, <2>3, <2>4, <2>5, UserFacts, PoolAssumption DEF PoolOK, list
  <2> HIDE DEF lists
  <2>7. \A l \in Keys : \A i \in 1 .. Len(lists[l]) :
          \/ l = k /\ i = n + 1 /\ lists[l][i] = c
          \/ i \in 1 .. Len(idle[l]) /\ lists[l][i] = idle[l][i] /\ lists[l][i] # c
    <3>1. \A l \in Keys : \A i \in 1 .. Len(idle[l]) : idle[l][i] # c
      BY <1>1 DEF Idle, Members
    <3> HIDE DEF c
    <3> QED
      BY <1>1, <2>3, <2>4, <2>5, <3>1
  <2>8. MeetOnce(lists)
    <3>1. MeetOnce(idle)
      BY UserFacts
    <3> HIDE DEF c, n
    <3> QED
      BY <2>7, <3>1 DEF MeetOnce
  <2>9. Idle' \subseteq Idle \cup {c}
    BY <2>2, <2>7 DEF Idle, Members
  <2>10. Idle' \cap broken' = {}
    BY <1>4, <2>2, <2>9, UserFacts
  <2>11. c \notin broken'
    BY <1>4, <2>2
  <2> QED
    BY <1>1, <1>2, <2>2, <2>6, <2>8, <2>9, <2>10, <2>11, UserFacts, OneUserSteps
       DEF HasConn, NoConnSteps
<1> QED
  BY <1>3, <1>4

-------------------------------------------------------------------------------
(* TimePasses ages a connection of the pool. *)
LEMMA TimePassesKeeps ==
  ASSUME Inv, NEW c \in Conns, TimePasses(c)
  PROVE  Inv'
<1>1. Idle' = Idle /\ Held' = Held
  BY DEF TimePasses, Idle, Held
<1> QED
  BY <1>1 DEF TimePasses, Inv, TypeOK, CallInv, BrokenIsHeld, ExclusiveUse, BrokenNeverReused

(* Init sets up the invariant. *)
LEMMA InitInv == Init => Inv
<1> SUFFICES ASSUME Init PROVE Inv
  OBVIOUS
<1>1. Idle = {} /\ Held = {}
  BY DEF Init, Idle, Members, Held, NoCall
<1>2. TypeOK
  <2>1. call \in [Users -> Calls]
    BY NoCallTyped DEF Init
  <2> QED
    BY <2>1, PoolAssumption DEF Init, TypeOK, Calls
<1>3. CallInv /\ BrokenIsHeld /\ ExclusiveUse /\ BrokenNeverReused
  BY <1>1 DEF Init, NoCall, CallInv, BrokenIsHeld, ExclusiveUse, BrokenNeverReused
<1> QED
  BY <1>2, <1>3 DEF Inv

(* Every step keeps the invariant. *)
LEMMA NextInv == Inv /\ [Next]_vars => Inv'
<1> SUFFICES ASSUME Inv, [Next]_vars PROVE Inv'
  OBVIOUS
<1>1. ASSUME NEW u \in Users, UserStep(u) PROVE Inv'
  BY <1>1, AcquireIdleKeeps, AcquireNoneKeeps, ReleaseKeeps, ForgetKeeps, ConnectsKeeps,
     OperationKeeps, ConnectFailsKeeps DEF UserStep
<1>2. ASSUME NEW u \in Users, FileOpFails(u) \/ FileCloses(u) PROVE Inv'
  BY <1>2, OperationKeeps
<1>3. CASE UNCHANGED vars
  <2>1. Idle' = Idle /\ Held' = Held
    BY <1>3 DEF vars, Idle, Held
  <2> QED
    BY <1>3, <2>1 DEF vars, Inv, TypeOK, CallInv, BrokenIsHeld, ExclusiveUse, BrokenNeverReused
<1> QED
  BY <1>1, <1>2, <1>3, CallKeeps, TimePassesKeeps DEF Next

(* The pool, the calls and the marks on connections agree in every         *)
(* reachable state, for any users, shares and size of the pool.            *)
THEOREM PoolInvariant == Spec => []Inv
  BY InitInv, NextInv, PTL DEF Spec

(* Two threads never use one libsmb2 context, and none uses a context that *)
(* another could take from the pool: Acquire and Release hand it over      *)
(* whole.                                                                  *)
THEOREM ContextsAreExclusive == Spec => []ExclusiveUse
<1>1. Inv => ExclusiveUse
  BY DEF Inv
<1> QED
  BY <1>1, PoolInvariant, PTL

(* A connection that Fail or MarkBroken marked never comes back, neither   *)
(* through the pool nor under a new session's number.                      *)
THEOREM BrokenIsGone == Spec => []BrokenNeverReused
<1>1. Inv => BrokenNeverReused
  BY DEF Inv
<1> QED
  BY <1>1, PoolInvariant, PTL

(* Acquire never hands out a connection that was idle for longer than      *)
(* kIdleSeconds, whichever key's list ExpireLocked saw it in.              *)
THEOREM OnlyFreshConnections == Spec => ExpiredNotReused
<1> DEFINE Fresh == \A u \in Users :
             pc[u] = "acquire" /\ pc'[u] = "run" => call'[u].conn \notin aged
<1>1. Inv /\ [Next]_vars => [Fresh]_vars
  <2> SUFFICES ASSUME Inv, Next, NEW u \in Users, pc[u] = "acquire", pc'[u] = "run"
               PROVE  call'[u].conn \notin aged
    OBVIOUS
  <2>1. pc \in [Users -> HasConn \cup NoConnSteps]
    BY UserFacts
  <2>2. AcquireIdle(u)
    BY <2>1 DEF Next, UserStep, AcquireIdle, AcquireNone, Release, Forget, Connects, OpSucceeds,
       OpLosesConnection, ConnectFails, OpIsRefused, FileOpFails, FileCloses, Call, TimePasses, Goto
  <2> QED
    BY <2>2, AcquireIdleKeeps
<1> QED
  BY <1>1, PoolInvariant, PTL DEF Spec, ExpiredNotReused
===============================================================================
