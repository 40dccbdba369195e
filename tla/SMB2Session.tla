------------------------------ MODULE SMB2Session ------------------------------
(***************************************************************************)
(* The SMB2 connection pool and its users (filesystem/SMB2Session.cpp,     *)
(* SMB2File.cpp, SMB2Directory.cpp).  libsmb2 contexts are not             *)
(* thread-safe: a thread takes a connection out of the pool, runs one      *)
(* operation on it, or keeps it for as long as a file is open, and gives   *)
(* it back.  A connection whose session failed is broken and must not come *)
(* back.  Only the pool's own steps hold its mutex; connecting and every   *)
(* request run without it.                                                 *)
(*                                                                         *)
(* External: libsmb2 and the server, which may answer a request, refuse    *)
(* it, drop the session or not answer in time.                             *)
(***************************************************************************)
EXTENDS Integers, Sequences, FiniteSets

CONSTANTS
  Users,    \* threads that use smb://
  NConns,   \* bound: connections at one time
  Shares,   \* ConnectionKey: one per host, share and user
  MaxIdle,  \* 4 in Release
  Kinds     \* the calls the users make, of AllKinds

(* ListShares connects to IPC$.  NoShare is the key of a target that names *)
(* no share.                                                               *)
Ipc == "IPC$"
NoShare == ""
Keys == Shares \cup {Ipc}
Conns == 1 .. NConns

(* A call that Kodi's file interface makes: a StatPath, rename, mkdir...   *)
(* (stat), a GetDirectory of a folder (list) or of a server (shares), or   *)
(* an Open (open).                                                         *)
AllKinds == {"stat", "list", "shares", "open"}

ASSUME PoolAssumption ==
  /\ MaxIdle \in Nat \ {0} /\ Kinds \subseteq AllKinds
  /\ Ipc \notin Shares /\ NoShare \notin Shares
  /\ IsFiniteSet(Users) /\ IsFiniteSet(Shares)
ASSUME EnoughConnections ==
  NConns \in Nat /\ NConns >= Cardinality(Users) + MaxIdle * Cardinality(Keys)

VARIABLES
  idle,     \* m_idle: for each key a stack of connections
  aged,     \* the idle connections last used more than kIdleSeconds ago
  broken,   \* the connections whose m_broken is set
  pc,       \* where each user's call stands
  call      \* its locals

vars == <<idle, aged, broken, pc, call>>

NoConn == 0
NoCall == [kind |-> "none", key |-> NoShare, attempt |-> 0, conn |-> NoConn,
           retry |-> FALSE, denied |-> FALSE]
Members(list) == {list[i] : i \in 1 .. Len(list)}
Idle == UNION {Members(idle[k]) : k \in Keys}
Held == {call[u].conn : u \in Users} \ {NoConn}
Gone == Conns \ (Idle \cup Held)

(* Every variable has its type.                                            *)
TypeOK ==
  /\ idle \in [Keys -> Seq(Conns)]
  /\ \A k \in Keys : Len(idle[k]) <= MaxIdle
  /\ aged \subseteq Idle
  /\ broken \subseteq Conns
  /\ pc \in [Users -> {"ready", "acquire", "connect", "run", "release", "forget", "file"}]
  /\ call \in [Users -> [kind : Kinds \cup {"none"}, key : Keys \cup {NoShare}, attempt : 0 .. 1,
                         conn : Conns \cup {NoConn}, retry : BOOLEAN,
                         denied : BOOLEAN]]

Init ==
  /\ idle = [k \in Keys |-> <<>>]
  /\ aged = {}
  /\ broken = {}
  /\ pc = [u \in Users |-> "ready"]
  /\ call = [u \in Users |-> NoCall]

Goto(u, step) == pc' = [pc EXCEPT ![u] = step]

(* A step that leaves the pool as `list` and `dropped` in nobody's hands:  *)
(* connections the pool no longer has are destroyed with it.               *)
Pool(list, dropped) ==
  LET left == UNION {Members(list[k]) : k \in Keys}
  IN /\ idle' = list
     /\ aged' = aged \cap left
     /\ broken' = broken \ (((Idle \ left) \ Held') \cup dropped)

-------------------------------------------------------------------------------
(* The pool.                                                               *)

(* std::remove_if and erase: the list without some of its members, the     *)
(* others in their order; kept[i] is what the first i of them leave.       *)
RemoveIf(list, old) ==
  LET kept[i \in 0 .. Len(list)] ==
        IF i = 0 THEN <<>>
        ELSE IF list[i] \in old THEN kept[i - 1] ELSE Append(kept[i - 1], list[i])
  IN kept[Len(list)]

(* ExpireLocked: connections idle for too long go, whatever their key.     *)
ExpireNothing == idle
ExpireLocked == [k \in Keys |-> RemoveIf(idle[k], aged)]

(* Acquire, under the mutex: the connection released last, or none.        *)
CopyBack(list) == list
PopBack(list) == SubSeq(list, 1, Len(list) - 1)
AcquireIdle(u) ==
  LET k == call[u].key
      list == ExpireLocked[k]
  IN /\ pc[u] = "acquire" /\ list # <<>>
     /\ call' = [call EXCEPT ![u].conn = list[Len(list)]]
     /\ Pool([ExpireLocked EXCEPT ![k] = PopBack(list)], {})
     /\ Goto(u, "run")

AcquireNone(u) ==
  /\ pc[u] = "acquire" /\ ExpireLocked[call[u].key] = <<>>
  /\ UNCHANGED call
  /\ Pool(ExpireLocked, {})
  /\ Goto(u, "connect")

(* The rest of Acquire, without the mutex: a new session.  A connection's  *)
(* number is the lowest that no other one has.                             *)
Connects(u, c) ==
  /\ pc[u] = "connect"
  /\ c \in Gone /\ \A d \in Gone : c <= d
  /\ call' = [call EXCEPT ![u].conn = c]
  /\ Goto(u, "run")
  /\ UNCHANGED <<idle, aged, broken>>

(* The server refuses, or does not answer within 20 seconds; GetDirectory  *)
(* forgets a target that denied it access.                                 *)
Forgets(u, access) == access /\ call[u].kind \in {"list", "shares"}
ConnectFails(u, access) ==
  /\ pc[u] = "connect"
  /\ IF Forgets(u, access)
     THEN Goto(u, "forget") /\ UNCHANGED call
     ELSE Goto(u, "ready") /\ call' = [call EXCEPT ![u] = NoCall]
  /\ UNCHANGED <<idle, aged, broken>>

(* Release: a broken connection, or one too many, is destroyed.            *)
GoesBackAlways(u) == TRUE
GoesBack(u) == ~(call[u].conn \in broken)
HasRoomForOneMore(u) == Len(idle[call[u].key]) <= MaxIdle
HasRoom(u) == Len(idle[call[u].key]) < MaxIdle
Release(u) ==
  LET k == call[u].key
      c == call[u].conn
      back == GoesBack(u) /\ HasRoom(u)
  IN /\ pc[u] = "release"
     /\ IF call[u].retry
        THEN /\ Goto(u, "acquire")
             /\ call' = [call EXCEPT ![u] = [NoCall EXCEPT !.kind = call[u].kind, !.key = k,
                                                           !.attempt = 1]]
        ELSE IF call[u].denied
        THEN Goto(u, "forget") /\ call' = [call EXCEPT ![u].conn = NoConn]
        ELSE Goto(u, "ready") /\ call' = [call EXCEPT ![u] = NoCall]
     /\ IF back
        THEN Pool([idle EXCEPT ![k] = Append(@, c)], {})
        ELSE Pool(idle, {c})

(* Forget.  For a list of shares the target names no share, and its key is *)
(* not the one ListShares connected with.                                  *)
ForgottenKey(u) == IF call[u].kind = "shares" THEN NoShare ELSE call[u].key
Forget(u) ==
  /\ pc[u] = "forget"
  /\ call' = [call EXCEPT ![u] = NoCall]
  /\ Pool([k \in Keys |-> IF k = ForgottenKey(u) THEN <<>> ELSE idle[k]], {})
  /\ Goto(u, "ready")

-------------------------------------------------------------------------------
(* Calls: WithConnection and OpenFile::Open.                               *)

Call(u, kind, k) ==
  /\ pc[u] = "ready"
  /\ IF kind = "shares" THEN k = Ipc ELSE k \in Shares
  /\ call' = [call EXCEPT ![u] = [NoCall EXCEPT !.kind = kind, !.key = k]]
  /\ Goto(u, "acquire")
  /\ UNCHANGED <<idle, aged, broken>>

(* The operation succeeds; a file that was opened keeps the connection.    *)
OpSucceeds(u) ==
  /\ pc[u] = "run"
  /\ Goto(u, IF call[u].kind = "open" THEN "file" ELSE "release")
  /\ UNCHANGED <<idle, aged, broken, call>>

(* The server answers with an error.                                       *)
OpIsRefused(u, access) ==
  /\ pc[u] = "run"
  /\ call' = [call EXCEPT ![u].denied = Forgets(u, access)]
  /\ Goto(u, "release")
  /\ UNCHANGED <<idle, aged, broken>>

(* The session fails: Fail (or MarkBroken) breaks the connection.  The     *)
(* call is tried once more.                                                *)
Breaks(c) == broken' = broken \cup {c}
RetriesAlways(u) == TRUE
RetriesOnce(u) == call[u].attempt = 0
OpLosesConnection(u) ==
  /\ pc[u] = "run"
  /\ Breaks(call[u].conn)
  /\ call' = [call EXCEPT ![u].retry = RetriesOnce(u)]
  /\ Goto(u, "release")
  /\ UNCHANGED <<idle, aged>>

-------------------------------------------------------------------------------
(* An open file: OpenFile::Read, Write and Fstat fail; its destructor.     *)

FileOpFails(u) ==
  /\ pc[u] = "file"
  /\ call[u].conn \notin broken
  /\ Breaks(call[u].conn)
  /\ UNCHANGED <<idle, aged, pc, call>>

(* smb2_close's result is ignored: a failed one leaves no mark.            *)
FileCloses(u) ==
  /\ pc[u] = "file"
  /\ Goto(u, "release")
  /\ UNCHANGED <<idle, aged, broken, call>>

(* External: a connection has been idle for kIdleSeconds.                  *)
TimePasses(c) ==
  /\ c \in Idle \ aged
  /\ aged' = aged \cup {c}
  /\ UNCHANGED <<idle, broken, pc, call>>

UserStep(u) ==
  \/ AcquireIdle(u) \/ AcquireNone(u) \/ Release(u) \/ Forget(u)
  \/ \E c \in Conns : Connects(u, c)
  \/ OpSucceeds(u) \/ OpLosesConnection(u)
  \/ \E access \in BOOLEAN : ConnectFails(u, access) \/ OpIsRefused(u, access)

Next ==
  \/ \E u \in Users : \/ UserStep(u) \/ FileOpFails(u) \/ FileCloses(u)
                      \/ \E kind \in Kinds, k \in Keys : Call(u, kind, k)
  \/ \E c \in Conns : TimePasses(c)

Spec == Init /\ [][Next]_vars

(* Every request ends: libsmb2 has a timeout of 30 seconds, ServiceUntil a *)
(* deadline.  A file stays open for as long as its user likes.             *)
FairSpec == Spec /\ \A u \in Users : WF_vars(UserStep(u))
-------------------------------------------------------------------------------
(* Properties.                                                             *)

(* "Every user takes a connection out of the pool exclusively": no two     *)
(* users share a libsmb2 context, and none uses one the pool has.          *)
ExclusiveUse ==
  /\ \A u, v \in Users : call[u].conn # NoConn /\ call[u].conn = call[v].conn => u = v
  /\ Idle \cap Held = {}
  /\ \A k, l \in Keys : \A i \in 1 .. Len(idle[k]), j \in 1 .. Len(idle[l]) :
       idle[k][i] = idle[l][j] => k = l /\ i = j

(* No connection that an operation broke is in the pool, or in the hands   *)
(* of a call that has not used it yet.                                     *)
BrokenNeverReused ==
  /\ Idle \cap broken = {}
  /\ \A u \in Users : pc[u] = "run" => call[u].conn \notin broken

(* A call does not get a connection that was idle for too long, whichever  *)
(* thread's call looked at the pool last.                                  *)
ExpiredNotReused ==
  [][\A u \in Users : pc[u] = "acquire" /\ pc'[u] = "run" => call'[u].conn \notin aged]_vars

(* Every call returns, and gives up after its second connection.           *)
CallsEnd == \A u \in Users : pc[u] = "acquire" ~> pc[u] \in {"ready", "file"}
===============================================================================
