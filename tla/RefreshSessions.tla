--------------------------- MODULE RefreshSessions ---------------------------
(***************************************************************************)
(* Sign-ins as the Studio keeps them: the table of refresh sessions and    *)
(* the requests that issue, rotate and revoke them, each in a READ         *)
(* COMMITTED transaction that locks the row of the token it presents.      *)
(*                                                                         *)
(* A token is the number of its row, 0 stands for no token.  A sender has  *)
(* one request at a time; it may give up the answer, while the transaction *)
(* goes on.  TokenFile and BrowserTabs are the two kinds of senders.       *)
(***************************************************************************)
EXTENDS Integers, Sequences, FiniteSets

CONSTANTS Senders,
          MaxTokens,  \* bound: refresh tokens ever issued
          Lapses      \* may thirty days pass before a token is presented?

ASSUME SessionsAssumption == MaxTokens \in Nat /\ Lapses \in BOOLEAN

VARIABLES rows,  \* auth_sessions, in the order they were issued
          tx     \* the request of every sender

server == <<rows, tx>>

Ops == {"login", "refresh", "logout"}

(* revocation_reason: logout and expiry make no difference below.          *)
Row == [family : Nat, rotated : BOOLEAN, revoked : {"no", "over", "reuse"}]

Tx == [phase : {"none", "sent", "locked", "sweeping", "answered"}, op : Ops,
       token : Nat, sees : SUBSET Nat, answer : {"ok", "refused", "failed"}, fresh : Nat]

NoTx == [phase |-> "none", op |-> "login", token |-> 0, sees |-> {},
         answer |-> "ok", fresh |-> 0]

ServerInit == rows = <<>> /\ tx = [s \in Senders |-> NoTx]

Issued(family) == [family |-> family, rotated |-> FALSE, revoked |-> "no"]

Active(t) == ~ rows[t].rotated /\ rows[t].revoked = "no"

-----------------------------------------------------------------------------
(* Requests.  The senders decide when to send and what they make of the    *)
(* answer.                                                                 *)

(* bound: every request under way finds room for the token it may issue    *)
Room ==
  Len(rows) + Cardinality({s \in Senders : /\ tx[s].op \in {"login", "refresh"}
                                          /\ tx[s].phase \in {"sent", "locked"}}) < MaxTokens

Send(s, op, token) ==
  /\ tx[s].phase = "none"
  /\ op # "logout" => Room
  /\ tx' = [tx EXCEPT ![s] = [NoTx EXCEPT !.phase = "sent", !.op = op, !.token = token]]
  /\ UNCHANGED rows

(* The sender takes the answer, or the request never arrives.              *)
Taken(s) == tx' = [tx EXCEPT ![s] = NoTx] /\ UNCHANGED rows

Answered(s, answer, fresh) ==
  tx' = [tx EXCEPT ![s].phase = "answered", ![s].answer = answer, ![s].fresh = fresh,
                   ![s].sees = {}]

-----------------------------------------------------------------------------
(* Transactions.                                                           *)

(* login: a family of its own.                                             *)
Issue(s) ==
  /\ tx[s].phase = "sent"
  /\ tx[s].op = "login"
  /\ rows' = Append(rows, Issued(Len(rows) + 1))
  /\ Answered(s, "ok", Len(rows) + 1)

(* INVALID, and a logout without a cookie.                                 *)
NoSuchToken(s) ==
  /\ tx[s].phase = "sent"
  /\ tx[s].op \in {"refresh", "logout"}
  /\ tx[s].token = 0
  /\ Answered(s, IF tx[s].op = "logout" THEN "ok" ELSE "refused", 0)
  /\ UNCHANGED rows

Holds(s, t) == tx[s].phase \in {"locked", "sweeping"} /\ tx[s].token = t

(* get_by_digest_for_update reads the row again once it has the lock.      *)
LockRow(s) ==
  /\ tx[s].phase = "sent"
  /\ tx[s].op \in {"refresh", "logout"}
  /\ tx[s].token # 0
  /\ \A o \in Senders : ~ Holds(o, tx[s].token)
  /\ tx' = [tx EXCEPT ![s].phase = "locked"]
  /\ UNCHANGED rows

Refreshing(s) == tx[s].phase = "locked" /\ tx[s].op = "refresh"

(* MUTANT of Rotated: the presented token is not marked.                   *)
RotatedUnmarked(t) == Append(rows, Issued(rows[t].family))

Rotated(t) == Append([rows EXCEPT ![t].rotated = TRUE], Issued(rows[t].family))

(* MUTANT of UsedUp: a revoked token still counts.                         *)
UsedUpByRotation(t) == rows[t].rotated

UsedUp(t) == rows[t].rotated \/ rows[t].revoked # "no"

Rotate(s) ==
  /\ Refreshing(s)
  /\ ~ UsedUp(tx[s].token)
  /\ rows' = Rotated(tx[s].token)
  /\ Answered(s, "ok", Len(rows) + 1)

Lapse(s) ==
  /\ Lapses
  /\ Refreshing(s)
  /\ ~ UsedUp(tx[s].token)
  /\ rows' = [rows EXCEPT ![tx[s].token].revoked = "over"]
  /\ Answered(s, "refused", 0)

(* REUSE_DETECTED.  The UPDATE of revoke_family works on the rows its      *)
(* snapshot holds: a replacement that is committed later escapes it.       *)
Detect(s) ==
  /\ Refreshing(s)
  /\ UsedUp(tx[s].token)
  /\ tx' = [tx EXCEPT ![s].phase = "sweeping",
                      ![s].sees = {r \in DOMAIN rows :
                                     /\ rows[r].family = rows[tx[s].token].family
                                     /\ rows[r].revoked = "no"}]
  /\ UNCHANGED rows

(* It waits for every row that another transaction has locked, and looks   *)
(* at that row again.                                                      *)
Sweep(s) ==
  /\ tx[s].phase = "sweeping"
  /\ \A o \in Senders \ {s} : \A r \in tx[s].sees : ~ Holds(o, r)
  /\ rows' = [r \in DOMAIN rows |->
                IF r \in tx[s].sees /\ rows[r].revoked = "no"
                THEN [rows[r] EXCEPT !.revoked = "reuse"] ELSE rows[r]]
  /\ Answered(s, "refused", 0)

(* The transaction fails and is rolled back, as when two sweeps of one     *)
(* family wait for each other's row: the API answers 500.                  *)
RolledBack(s) ==
  /\ tx[s].phase \in {"sent", "locked", "sweeping"}
  /\ Answered(s, "failed", 0)
  /\ UNCHANGED rows

(* revoke: only a token that is still active; 204 in any case.             *)
Revoke(s) ==
  /\ tx[s].phase = "locked"
  /\ tx[s].op = "logout"
  /\ rows' = IF Active(tx[s].token) THEN [rows EXCEPT ![tx[s].token].revoked = "over"]
                                    ELSE rows
  /\ Answered(s, "ok", 0)

Serve(s) ==
  \/ Issue(s) \/ NoSuchToken(s) \/ LockRow(s) \/ Rotate(s) \/ Lapse(s)
  \/ Detect(s) \/ Sweep(s) \/ RolledBack(s) \/ Revoke(s)

-----------------------------------------------------------------------------
(* Properties.                                                             *)

ServerTypeOK ==
  /\ rows \in Seq(Row)
  /\ tx \in [Senders -> Tx]
  /\ \A s \in Senders : tx[s].token \in 0..Len(rows) /\ tx[s].fresh \in 0..Len(rows)

(* A sign-in never forks: of the tokens of a family only the latest can    *)
(* be good, whatever is presented at the same time.                        *)
OneLivePerFamily ==
  \A r, q \in DOMAIN rows : rows[r].family = rows[q].family /\ r < q => ~ Active(r)

Dead(f) == \A r \in DOMAIN rows : rows[r].family = f => ~ Active(r)

(* A sign-in that is over stays over: after a logout, an expiry or a       *)
(* detected reuse has left a family without a good token, no request that  *)
(* was still under way gives it a new one.                                 *)
DeadFamilyStaysDead ==
  [][\A r \in DOMAIN rows : Dead(rows[r].family) => Dead(rows[r].family)']_rows
=============================================================================
