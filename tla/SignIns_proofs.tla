--------------------------- MODULE SignIns_proofs ---------------------------
(***************************************************************************)
(* Theorems about SignIns for every set of commands, tabs and senders, any *)
(* number of tokens and any choice of faults.                              *)
(***************************************************************************)
EXTENDS SignIns, TLAPS

-----------------------------------------------------------------------------

(***************************************************************************)
(* The Studio.                                                             *)
(***************************************************************************)

(* A family is named after its first token, and a transaction that goes on *)
(* after the row lock has a token.                                         *)
FamiliesNamed == \A r \in DOMAIN rows : rows[r].family \in 1..r

TokenLocked ==
  \A s \in Senders : tx[s].phase \in {"locked", "sweeping"} => tx[s].token # 0

ServerInv == ServerTypeOK /\ FamiliesNamed /\ TokenLocked

(* What a step may do to the table: every old row keeps its family and     *)
(* becomes good no more, and a new row begins a family or takes the place  *)
(* of the good row of one.                                                 *)
RowsGrow ==
  /\ rows' \in Seq(Row)
  /\ \A r \in DOMAIN rows :
       /\ r \in DOMAIN rows'
       /\ rows'[r].family = rows[r].family
       /\ Active(r)' => Active(r)
  /\ \/ Len(rows') = Len(rows)
     \/ /\ Len(rows') = Len(rows) + 1
        /\ \/ rows'[Len(rows')].family = Len(rows')
           \/ \E t \in DOMAIN rows : /\ rows'[Len(rows')].family = rows[t].family
                                     /\ Active(t)
                                     /\ ~ Active(t)'

LEMMA RowType ==
  ASSUME ServerInv, NEW r \in DOMAIN rows
  PROVE  /\ r \in 1..Len(rows)
         /\ rows[r] \in Row
         /\ rows[r].family \in 1..r
BY DEF ServerInv, ServerTypeOK, FamiliesNamed

LEMMA LockedToken ==
  ASSUME ServerInv, NEW s \in Senders, tx[s].phase \in {"locked", "sweeping"}
  PROVE  tx[s].token \in DOMAIN rows
BY DEF ServerInv, ServerTypeOK, TokenLocked

LEMMA IssuedType ==
  ASSUME NEW f \in Nat
  PROVE  /\ Issued(f) \in Row
         /\ Issued(f).family = f
BY DEF Issued, Row

(* A row whose revocation changes is another row of the same family. *)
LEMMA RowsChanged ==
  ASSUME ServerInv,
         NEW changed \in [DOMAIN rows -> Row],
         \A r \in DOMAIN rows :
           /\ changed[r].family = rows[r].family
           /\ changed[r].rotated = rows[r].rotated
           /\ changed[r].revoked = "no" => rows[r].revoked = "no",
         rows' = changed
  PROVE  RowsGrow
<1>1. DOMAIN rows = 1..Len(rows) /\ Len(rows) \in Nat
  BY DEF ServerInv, ServerTypeOK
<1>2. rows' \in Seq(Row) /\ Len(rows') = Len(rows) /\ DOMAIN rows' = DOMAIN rows
  BY <1>1
<1>3. ASSUME NEW r \in DOMAIN rows, Active(r)' PROVE Active(r)
  BY <1>3 DEF Active
<1> QED BY <1>2, <1>3 DEF RowsGrow

LEMMA RowsKept ==
  ASSUME ServerInv, UNCHANGED rows
  PROVE  RowsGrow
BY DEF ServerInv, ServerTypeOK, RowsGrow, Active

LEMMA IssueGrows ==
  ASSUME ServerInv, NEW s \in Senders, Issue(s)
  PROVE  RowsGrow
<1>1. rows \in Seq(Row) /\ Len(rows) \in Nat /\ DOMAIN rows = 1..Len(rows)
  BY DEF ServerInv, ServerTypeOK
<1>2. rows' = Append(rows, Issued(Len(rows) + 1))
  BY DEF Issue
<1>3. Issued(Len(rows) + 1) \in Row /\ Issued(Len(rows) + 1).family = Len(rows) + 1
  BY <1>1, IssuedType
<1>4. /\ rows' \in Seq(Row)
      /\ Len(rows') = Len(rows) + 1
      /\ rows'[Len(rows) + 1] = Issued(Len(rows) + 1)
      /\ \A r \in DOMAIN rows : r \in DOMAIN rows' /\ rows'[r] = rows[r]
  BY <1>1, <1>2, <1>3
<1> QED BY <1>3, <1>4 DEF RowsGrow, Active

(* A token is marked and replaced. *)
LEMMA RotatedRow ==
  ASSUME ServerInv, NEW t \in DOMAIN rows, Active(t), rows' = Rotated(t)
  PROVE  RowsGrow
<1> DEFINE marked == [rows EXCEPT ![t].rotated = TRUE]
<1>1. rows \in Seq(Row) /\ Len(rows) \in Nat /\ DOMAIN rows = 1..Len(rows)
  BY DEF ServerInv, ServerTypeOK
<1>2. rows[t] \in Row /\ rows[t].family \in Nat
  BY RowType DEF Row
<1>3. /\ marked \in Seq(Row)
      /\ Len(marked) = Len(rows)
      /\ \A r \in DOMAIN rows : r # t => marked[r] = rows[r]
      /\ marked[t].family = rows[t].family
      /\ marked[t].rotated = TRUE
  <2>1. marked[t] = [rows[t] EXCEPT !.rotated = TRUE]
    BY <1>1
  <2>2. marked[t] \in Row /\ marked[t].family = rows[t].family /\ marked[t].rotated = TRUE
    BY <1>2, <2>1 DEF Row
  <2>3. \A r \in DOMAIN rows : r # t => marked[r] = rows[r]
    BY <1>1
  <2> QED BY <1>1, <2>2, <2>3
<1>4. Issued(rows[t].family) \in Row /\ Issued(rows[t].family).family = rows[t].family
  BY <1>2, IssuedType
<1>5. rows' = Append(marked, Issued(rows[t].family))
  BY DEF Rotated
<1> HIDE DEF marked
<1>6. /\ rows' \in Seq(Row)
      /\ Len(rows') = Len(rows) + 1
      /\ rows'[Len(rows) + 1] = Issued(rows[t].family)
      /\ \A r \in DOMAIN rows : r \in DOMAIN rows' /\ rows'[r] = marked[r]
  BY SMTT(20), <1>1, <1>3, <1>4, <1>5
<1>7. ~ Active(t)'
  BY <1>3, <1>6 DEF Active
<1>8. ASSUME NEW r \in DOMAIN rows
      PROVE  rows'[r].family = rows[r].family /\ (Active(r)' => Active(r))
  <2>1. CASE r = t
    BY <1>3, <1>6, <2>1
  <2>2. CASE r # t
    BY <1>3, <1>6, <2>2 DEF Active
  <2> QED BY <2>1, <2>2
<1> QED BY <1>4, <1>6, <1>7, <1>8 DEF RowsGrow

(* A row is revoked, whatever it was before. *)
LEMMA RevokedRow ==
  ASSUME ServerInv, NEW t \in DOMAIN rows, NEW why \in {"over", "reuse"},
         rows' = [rows EXCEPT ![t].revoked = why]
  PROVE  RowsGrow
<1>1. rows \in Seq(Row) /\ DOMAIN rows = 1..Len(rows)
  BY DEF ServerInv, ServerTypeOK
<1>2. \A r \in DOMAIN rows : rows[r] \in Row
  BY RowType
<1>3. [rows EXCEPT ![t].revoked = why] \in [DOMAIN rows -> Row]
  BY <1>1, <1>2 DEF Row
<1>4. ASSUME NEW r \in DOMAIN rows
      PROVE  /\ rows'[r].family = rows[r].family
             /\ rows'[r].rotated = rows[r].rotated
             /\ rows'[r].revoked = "no" => rows[r].revoked = "no"
  BY <1>2 DEF Row
<1> QED BY <1>3, <1>4, RowsChanged

LEMMA SweepGrows ==
  ASSUME ServerInv, NEW s \in Senders, Sweep(s)
  PROVE  RowsGrow
<1> DEFINE swept == [r \in DOMAIN rows |->
                       IF r \in tx[s].sees /\ rows[r].revoked = "no"
                       THEN [rows[r] EXCEPT !.revoked = "reuse"] ELSE rows[r]]
<1>1. rows' = swept
  BY DEF Sweep
<1>2. ASSUME NEW r \in DOMAIN rows
      PROVE  /\ swept[r] \in Row
             /\ swept[r].family = rows[r].family
             /\ swept[r].rotated = rows[r].rotated
             /\ swept[r].revoked = "no" => rows[r].revoked = "no"
  <2>1. rows[r] \in Row
    BY RowType
  <2>2. CASE r \in tx[s].sees /\ rows[r].revoked = "no"
    BY <2>1, <2>2 DEF Row
  <2>3. CASE ~ (r \in tx[s].sees /\ rows[r].revoked = "no")
    BY <2>1, <2>3
  <2> QED BY <2>2, <2>3
<1>3. swept \in [DOMAIN rows -> Row]
  BY <1>2
<1> HIDE DEF swept
<1> QED BY <1>1, <1>2, <1>3, RowsChanged

LEMMA ServeGrows ==
  ASSUME ServerInv, NEW s \in Senders, Serve(s)
  PROVE  RowsGrow
<1>1. CASE Issue(s)
  BY <1>1, IssueGrows
<1>2. CASE NoSuchToken(s) \/ LockRow(s) \/ Detect(s) \/ RolledBack(s)
  BY <1>2, RowsKept DEF NoSuchToken, LockRow, Detect, RolledBack
<1>3. CASE Rotate(s)
  BY <1>3, LockedToken, RotatedRow DEF Rotate, Refreshing, UsedUp, Active
<1>4. CASE Lapse(s)
  BY <1>4, LockedToken, RevokedRow DEF Lapse, Refreshing
<1>5. CASE Sweep(s)
  BY <1>5, SweepGrows
<1>6. CASE Revoke(s)
  <2>1. CASE Active(tx[s].token)
    BY <1>6, <2>1, LockedToken, RevokedRow DEF Revoke
  <2>2. CASE ~ Active(tx[s].token)
    BY <1>6, <2>2, RowsKept DEF Revoke
  <2> QED BY <2>1, <2>2
<1> QED BY <1>1, <1>2, <1>3, <1>4, <1>5, <1>6 DEF Serve

-----------------------------------------------------------------------------

(***************************************************************************)
(* Requests.                                                               *)
(***************************************************************************)

LEMMA NoTxType == NoTx \in Tx
BY DEF NoTx, Tx, Ops

LEMMA SendKeeps ==
  ASSUME ServerInv, NEW s \in Senders, NEW op \in Ops, NEW token \in 0..Len(rows),
         Send(s, op, token)
  PROVE  ServerInv'
<1>1. rows \in Seq(Row) /\ Len(rows) \in Nat
  BY DEF ServerInv, ServerTypeOK
<1>2. [NoTx EXCEPT !.phase = "sent", !.op = op, !.token = token] \in Tx
  <2>1. token \in Nat
    BY <1>1
  <2> QED BY <2>1, NoTxType DEF Tx
<1>3. /\ tx' \in [Senders -> Tx]
      /\ \A o \in Senders \ {s} : tx'[o] = tx[o]
      /\ tx'[s].token = token /\ tx'[s].fresh = 0 /\ tx'[s].phase = "sent"
  BY <1>2 DEF Send, ServerInv, ServerTypeOK, NoTx
<1> QED BY <1>1, <1>3 DEF Send, ServerInv, ServerTypeOK, FamiliesNamed, TokenLocked

LEMMA TakenKeeps ==
  ASSUME ServerInv, NEW s \in Senders, Taken(s)
  PROVE  ServerInv'
<1>1. rows \in Seq(Row) /\ Len(rows) \in Nat
  BY DEF ServerInv, ServerTypeOK
<1>2. /\ tx' \in [Senders -> Tx]
      /\ \A o \in Senders \ {s} : tx'[o] = tx[o]
      /\ tx'[s].token = 0 /\ tx'[s].fresh = 0 /\ tx'[s].phase = "none"
  BY NoTxType DEF Taken, ServerInv, ServerTypeOK, NoTx
<1> QED BY <1>1, <1>2 DEF Taken, ServerInv, ServerTypeOK, FamiliesNamed, TokenLocked

LEMMA OneMore ==
  ASSUME NEW m \in Nat, NEW n \in Nat
  PROVE  /\ n = m + 1 => n # m
         /\ n = m \/ n = m + 1 => m <= n
         /\ (n = m \/ n = m + 1) /\ m # n => n = m + 1
         /\ \A r \in 1..n : (n = m \/ n = m + 1) /\ r \notin 1..m => r = n /\ n = m + 1
OBVIOUS

(* A table that has grown still has the tokens and the families it had.    *)
LEMMA FamiliesStayNamed ==
  ASSUME ServerInv, RowsGrow
  PROVE  FamiliesNamed' /\ Len(rows) <= Len(rows') /\ Len(rows) \in Nat /\ Len(rows') \in Nat
<1>1. /\ rows \in Seq(Row) /\ Len(rows) \in Nat /\ DOMAIN rows = 1..Len(rows)
      /\ rows' \in Seq(Row) /\ Len(rows') \in Nat /\ DOMAIN rows' = 1..Len(rows')
  BY DEF ServerInv, ServerTypeOK, RowsGrow
<1>0. Len(rows) \in Nat /\ Len(rows') \in Nat
  BY <1>1
<1>2. Len(rows') = Len(rows) \/ Len(rows') = Len(rows) + 1
  BY DEF RowsGrow
<1>3. ASSUME Len(rows') = Len(rows) + 1
      PROVE  \/ rows'[Len(rows')].family = Len(rows')
             \/ \E t \in DOMAIN rows : rows'[Len(rows')].family = rows[t].family
  <2>1. ~ (Len(rows') = Len(rows))
    BY <1>0, <1>3, OneMore, Zenon
  <2>2. \/ Len(rows') = Len(rows)
        \/ rows'[Len(rows')].family = Len(rows')
        \/ \E t \in DOMAIN rows : rows'[Len(rows')].family = rows[t].family
    BY Zenon DEF RowsGrow
  <2> QED BY <2>1, <2>2
<1>4. ASSUME NEW r \in 1..Len(rows') PROVE rows'[r].family \in 1..r
  <2>1. CASE r \in 1..Len(rows)
    <3>1. rows[r].family \in 1..r /\ rows'[r].family = rows[r].family
      BY <1>1, <2>1, Zenon DEF ServerInv, FamiliesNamed, RowsGrow
    <3> QED BY <3>1
  <2>2. CASE r \notin 1..Len(rows)
    <3>1. r = Len(rows') /\ Len(rows') = Len(rows) + 1
      BY <1>0, <1>2, <1>4, <2>2, OneMore, Zenon
    <3>2. CASE rows'[r].family = r
      BY <1>1, <3>1, <3>2
    <3>3. CASE \E t \in DOMAIN rows : rows'[r].family = rows[t].family
      <4>1. PICK t \in DOMAIN rows : rows'[r].family = rows[t].family
        BY <3>3
      <4>2. t \in 1..Len(rows) /\ rows[t].family \in 1..t
        BY RowType
      <4>3. rows[t].family \in 1..r
        BY <1>1, <3>1, <4>2
      <4> QED BY <4>1, <4>3
    <3> QED BY <1>3, <3>1, <3>2, <3>3
  <2> QED BY <2>1, <2>2
<1>5. FamiliesNamed'
  <2>1. DOMAIN rows' = 1..Len(rows') BY <1>1
  <2> QED BY <1>4, <2>1, Zenon DEF FamiliesNamed
<1> QED BY <1>0, <1>2, <1>5, OneMore, Zenon

LEMMA AnsweredKeeps ==
  ASSUME ServerInv, RowsGrow, NEW s \in Senders, NEW answer \in {"ok", "refused", "failed"},
         NEW fresh \in 0..Len(rows'), Answered(s, answer, fresh)
  PROVE  ServerInv'
<1>1. FamiliesNamed' /\ Len(rows) <= Len(rows') /\ Len(rows) \in Nat /\ Len(rows') \in Nat
  BY FamiliesStayNamed
<1>2. tx[s] \in Tx
  BY DEF ServerInv, ServerTypeOK
<1>3. /\ tx' \in [Senders -> Tx]
      /\ \A o \in Senders \ {s} : tx'[o] = tx[o]
      /\ tx'[s].token = tx[s].token /\ tx'[s].fresh = fresh /\ tx'[s].phase = "answered"
  <2> DEFINE new == [tx[s] EXCEPT !.phase = "answered", !.answer = answer, !.fresh = fresh,
                                  !.sees = {}]
  <2>0. fresh \in Nat
    BY <1>1
  <2>1. new \in Tx
    BY <1>2, <2>0 DEF Tx
  <2>3. new.token = tx[s].token /\ new.fresh = fresh /\ new.phase = "answered"
    BY <1>2 DEF Tx
  <2>2. tx \in [Senders -> Tx] /\ tx' = [tx EXCEPT ![s] = new]
    BY DEF Answered, ServerInv, ServerTypeOK
  <2> HIDE DEF new
  <2> QED BY <2>1, <2>2, <2>3
<1>4. \A o \in Senders : tx[o].token \in 0..Len(rows) /\ tx[o].fresh \in 0..Len(rows)
  BY DEF ServerInv, ServerTypeOK
<1>5. \A o \in Senders : tx'[o].token \in 0..Len(rows') /\ tx'[o].fresh \in 0..Len(rows')
  BY <1>1, <1>3, <1>4
<1> QED BY <1>1, <1>3, <1>5 DEF ServerInv, ServerTypeOK, TokenLocked, RowsGrow

LEMMA LockingKeeps ==
  ASSUME ServerInv, NEW s \in Senders, UNCHANGED rows,
         tx' \in [Senders -> Tx], \A o \in Senders \ {s} : tx'[o] = tx[o],
         tx'[s].token = tx[s].token, tx'[s].fresh = tx[s].fresh, tx[s].token # 0
  PROVE  ServerInv'
<1>1. \A o \in Senders : tx'[o].token = tx[o].token /\ tx'[o].fresh = tx[o].fresh
  OBVIOUS
<1>2. ServerTypeOK'
  BY <1>1 DEF ServerInv, ServerTypeOK
<1>3. FamiliesNamed'
  BY DEF ServerInv, FamiliesNamed
<1>4. TokenLocked'
  BY DEF ServerInv, TokenLocked
<1> QED BY <1>2, <1>3, <1>4 DEF ServerInv

LEMMA ServeKeeps ==
  ASSUME ServerInv, NEW s \in Senders, Serve(s)
  PROVE  ServerInv' /\ RowsGrow
<1>0. RowsGrow
  BY ServeGrows
<1>1. /\ Len(rows) \in Nat /\ Len(rows') \in Nat /\ Len(rows) <= Len(rows')
      /\ rows \in Seq(Row) /\ tx[s] \in Tx
  BY <1>0, FamiliesStayNamed DEF ServerInv, ServerTypeOK
<1>2. CASE Issue(s)
  <2>1. Len(rows') = Len(rows) + 1
    BY <1>1, <1>2 DEF Issue
  <2>2. Len(rows) + 1 \in 0..Len(rows')
    BY <1>1, <2>1
  <2> QED BY <1>0, <1>2, <2>2, AnsweredKeeps DEF Issue
<1>3. CASE Rotate(s)
  <2>1. Len(rows') = Len(rows) + 1
    BY <1>1, <1>3 DEF Rotate, Rotated
  <2>2. Len(rows) + 1 \in 0..Len(rows')
    BY <1>1, <2>1
  <2> QED BY <1>0, <1>3, <2>2, AnsweredKeeps DEF Rotate
<1>4. CASE NoSuchToken(s)
  BY <1>0, <1>1, <1>4, AnsweredKeeps DEF NoSuchToken
<1>5. CASE Lapse(s) \/ Sweep(s) \/ RolledBack(s) \/ Revoke(s)
  BY <1>0, <1>1, <1>5, AnsweredKeeps DEF Lapse, Sweep, RolledBack, Revoke
<1>6. CASE LockRow(s)
  <2>1. /\ tx' \in [Senders -> Tx] /\ UNCHANGED rows
        /\ \A o \in Senders \ {s} : tx'[o] = tx[o]
        /\ tx'[s].token = tx[s].token /\ tx'[s].fresh = tx[s].fresh /\ tx[s].token # 0
    <3> DEFINE new == [tx[s] EXCEPT !.phase = "locked"]
    <3>1. new \in Tx
      BY <1>1 DEF Tx
    <3>3. new.token = tx[s].token /\ new.fresh = tx[s].fresh
      BY <1>1 DEF Tx
    <3>2. tx \in [Senders -> Tx] /\ tx' = [tx EXCEPT ![s] = new]
      BY <1>6 DEF LockRow, ServerInv, ServerTypeOK
    <3> HIDE DEF new
    <3>4. UNCHANGED rows /\ tx[s].token # 0
      BY <1>6 DEF LockRow
    <3> QED BY <3>1, <3>2, <3>3, <3>4
  <2> QED BY <1>0, <2>1, LockingKeeps
<1>7. CASE Detect(s)
  <2> DEFINE family == {r \in DOMAIN rows : /\ rows[r].family = rows[tx[s].token].family
                                            /\ rows[r].revoked = "no"}
             new == [tx[s] EXCEPT !.phase = "sweeping", !.sees = family]
  <2>1. family \in SUBSET Nat
    BY <1>1
  <2>2. /\ tx' \in [Senders -> Tx] /\ UNCHANGED rows
        /\ \A o \in Senders \ {s} : tx'[o] = tx[o]
        /\ tx'[s].token = tx[s].token /\ tx'[s].fresh = tx[s].fresh /\ tx[s].phase = "locked"
    <3>1. tx \in [Senders -> Tx] /\ tx' = [tx EXCEPT ![s] = new]
      BY <1>7 DEF Detect, ServerInv, ServerTypeOK
    <3> HIDE DEF family
    <3>2. new \in Tx
      BY <1>1, <2>1 DEF Tx
    <3>3. new.token = tx[s].token /\ new.fresh = tx[s].fresh
      BY <1>1 DEF Tx
    <3>4. UNCHANGED rows /\ tx[s].phase = "locked"
      BY <1>7 DEF Detect, Refreshing
    <3> HIDE DEF new
    <3> QED BY <3>1, <3>2, <3>3, <3>4
  <2>3. tx[s].token # 0
    BY <2>2 DEF ServerInv, TokenLocked
  <2> QED BY <1>0, <2>2, <2>3, LockingKeeps
<1> QED BY <1>0, <1>2, <1>3, <1>4, <1>5, <1>6, <1>7 DEF Serve

-----------------------------------------------------------------------------

(***************************************************************************)
(* The terminal.  None of its steps touches the table.                     *)
(***************************************************************************)

SignInsKnown == [refresh : 0..Len(rows), access : 0..Len(rows)]

Places == {"idle", "signing", "acquire", "unlink", "held", "waiting",
           "saving", "forgetting", "releasing", "unlocking"}

TerminalTypeOK ==
  /\ entry \in SignInsKnown
  /\ lock \in [owner : Processes \union {NoOne}, stale : BOOLEAN]
  /\ pc \in [Processes -> Places]
  /\ goal \in [Processes -> Goals]
  /\ mem \in [Processes -> SignInsKnown]

LEMMA SignedOutKnown ==
  ASSUME ServerInv
  PROVE  /\ SignedOut \in SignInsKnown
         /\ \A e \in SignInsKnown : AfterLoss(e) \in SignInsKnown
         /\ \A s \in Senders : /\ tx[s].fresh \in 0..Len(rows)
                               /\ [refresh |-> tx[s].fresh, access |-> tx[s].fresh] \in SignInsKnown
<1>1. Len(rows) \in Nat /\ 0 \in 0..Len(rows)
  BY DEF ServerInv, ServerTypeOK
<1>2. \A s \in Senders : tx[s].fresh \in 0..Len(rows)
  BY DEF ServerInv, ServerTypeOK
<1> QED BY <1>1, <1>2 DEF SignedOut, SignInsKnown, AfterLoss

LEMMA EndsTyped ==
  ASSUME ServerInv, TerminalTypeOK, NEW p \in Processes, Ends(p)
  PROVE  /\ pc' \in [Processes -> Places]
         /\ goal' \in [Processes -> Goals]
         /\ mem' \in [Processes -> SignInsKnown]
BY SignedOutKnown DEF TerminalTypeOK, Ends, To, Places, Goals

LEMMA ToTyped ==
  ASSUME TerminalTypeOK, NEW p \in Processes, NEW place \in Places, To(p, place)
  PROVE  pc' \in [Processes -> Places]
BY DEF TerminalTypeOK, To

(* Commands that leave the Studio alone. *)
LEMMA AloneKeeps ==
  ASSUME ServerInv, TerminalTypeOK, NEW p \in Processes,
         \/ NeedRenewal(p) \/ SignOut(p) \/ TryLock(p) \/ SeeStale(p) \/ Unlink(p) \/ GiveUp(p)
         \/ Release(p) \/ Unlock(p) \/ NothingToRenew(p) \/ Unreached(p) \/ SaveSignIn(p)
         \/ Save(p) \/ Forget(p) \/ GatewayFails(p) \/ AnswerLost(p) \/ SignInLost(p)
         \/ SignOutEnds(p) \/ Crash(p)
  PROVE  UNCHANGED server /\ TerminalTypeOK'
<1>0. SignInsKnown' = SignInsKnown \/ rows' # rows
  BY DEF SignInsKnown
<1>1. CASE NeedRenewal(p)
  BY <1>0, <1>1, ToTyped DEF NeedRenewal, Start, server, TerminalTypeOK, Places, Goals
<1>2. CASE SignOut(p)
  BY <1>0, <1>2, ToTyped DEF SignOut, Start, server, TerminalTypeOK, Places, Goals
<1>3. CASE TryLock(p)
  BY <1>0, <1>3, ToTyped DEF TryLock, server, TerminalTypeOK, Places
<1>4. CASE SeeStale(p)
  BY <1>0, <1>4, ToTyped DEF SeeStale, server, TerminalTypeOK, Places
<1>5. CASE Unlink(p)
  BY <1>0, <1>5, ToTyped DEF Unlink, Free, server, TerminalTypeOK, Places
<1>6. CASE GiveUp(p) \/ SignInLost(p)
  BY <1>0, <1>6, EndsTyped DEF GiveUp, SignInLost, server, TerminalTypeOK
<1>7. CASE Release(p)
  <2>1. CASE lock.owner = p
    BY <1>0, <1>7, <2>1, ToTyped DEF Release, server, TerminalTypeOK, Places
  <2>2. CASE lock.owner # p
    BY <1>0, <1>7, <2>2, EndsTyped DEF Release, server, TerminalTypeOK
  <2> QED BY <2>1, <2>2
<1>8. CASE Unlock(p)
  BY <1>0, <1>8, EndsTyped DEF Unlock, Free, server, TerminalTypeOK
<1>9. CASE NothingToRenew(p) \/ Unreached(p)
  BY <1>0, <1>9, ToTyped DEF NothingToRenew, Unreached, server, TerminalTypeOK, Places
<1>10. CASE SaveSignIn(p)
  BY <1>0, <1>10, ToTyped DEF SaveSignIn, server, TerminalTypeOK, Places
<1>11. CASE Save(p)
  BY <1>0, <1>11, ToTyped DEF Save, server, TerminalTypeOK, Places
<1>12. CASE Forget(p)
  BY <1>0, <1>12, ToTyped, SignedOutKnown DEF Forget, server, TerminalTypeOK, Places
<1>13. CASE GatewayFails(p)
  BY <1>0, <1>13, ToTyped DEF GatewayFails, server, TerminalTypeOK, Places
<1>14. CASE AnswerLost(p)
  BY <1>0, <1>14, ToTyped, SignedOutKnown DEF AnswerLost, Keep, server, TerminalTypeOK, Places
<1>15. CASE SignOutEnds(p)
  BY <1>0, <1>15, ToTyped DEF SignOutEnds, server, TerminalTypeOK, Places
<1>16. CASE Crash(p)
  BY <1>0, <1>16, EndsTyped DEF Crash, server, TerminalTypeOK
<1> QED BY <1>1, <1>2, <1>3, <1>4, <1>5, <1>6, <1>7, <1>8, <1>9, <1>10, <1>11, <1>12, <1>13,
           <1>14, <1>15, <1>16

(* Commands that send a request. *)
LEMMA AskingKeeps ==
  ASSUME ServerInv, TerminalTypeOK, NEW p \in Processes,
         SignIn(p) \/ Renew(p) \/ SendSignOut(p)
  PROVE  UNCHANGED rows /\ ServerInv' /\ TerminalTypeOK'
<1>0. /\ p \in Senders
      /\ Len(rows) \in Nat /\ 0 \in 0..Len(rows)
      /\ entry.refresh \in 0..Len(rows)
  BY FileAssumption DEF ServerInv, ServerTypeOK, TerminalTypeOK, SignInsKnown
<1>1. CASE SignIn(p)
  <2>1. UNCHANGED rows /\ ServerInv'
    BY <1>0, <1>1, SendKeeps DEF SignIn, Send, Ops
  <2>2. SignInsKnown' = SignInsKnown
    BY <2>1 DEF SignInsKnown
  <2> QED BY <1>1, <2>1, <2>2, ToTyped DEF SignIn, Start, TerminalTypeOK, Places, Goals
<1>2. CASE Renew(p)
  <2>1. UNCHANGED rows /\ ServerInv'
    BY <1>0, <1>2, SendKeeps DEF Renew, ToRenew, Send, Ops
  <2>2. SignInsKnown' = SignInsKnown
    BY <2>1 DEF SignInsKnown
  <2> QED BY <1>2, <2>1, <2>2, ToTyped DEF Renew, ToRenew, TerminalTypeOK, Places
<1>3. CASE SendSignOut(p)
  <2>1. UNCHANGED rows /\ ServerInv'
    <3>1. CASE entry.refresh # 0
      BY <1>0, <1>3, <3>1, SendKeeps DEF SendSignOut, Send, Ops
    <3>2. CASE entry.refresh = 0
      BY <1>3, <3>2 DEF SendSignOut, server, ServerInv, ServerTypeOK, FamiliesNamed, TokenLocked
    <3> QED BY <3>1, <3>2
  <2>2. SignInsKnown' = SignInsKnown
    BY <2>1 DEF SignInsKnown
  <2>3. \E place \in Places : To(p, place)
    BY <1>3 DEF SendSignOut, Places
  <2> QED BY <1>3, <2>1, <2>2, <2>3, ToTyped DEF SendSignOut, TerminalTypeOK
<1> QED BY <1>1, <1>2, <1>3

(* Commands that take an answer. *)
LEMMA TakingKeeps ==
  ASSUME ServerInv, TerminalTypeOK, NEW p \in Processes,
         Renewed(p) \/ RenewalRefused(p) \/ RenewalFailed(p) \/ SignedInAnswer(p) \/ Dropped(p)
  PROVE  UNCHANGED rows /\ ServerInv' /\ TerminalTypeOK'
<1>0. p \in Senders
  BY FileAssumption
<1>1. Taken(p)
  BY DEF Renewed, RenewalRefused, RenewalFailed, SignedInAnswer, Dropped, Reply
<1>2. UNCHANGED rows /\ ServerInv'
  BY <1>0, <1>1, TakenKeeps DEF Taken
<1>3. SignInsKnown' = SignInsKnown
  BY <1>2 DEF SignInsKnown
<1>4. CASE Renewed(p)
  <2>1. PICK parts \in SUBSET {"refresh", "access"} :
          Keep(p, [k \in {"refresh", "access"} |-> IF k \in parts THEN tx[p].fresh ELSE 0])
    BY <1>4 DEF Renewed
  <2> DEFINE kept == [k \in {"refresh", "access"} |-> IF k \in parts THEN tx[p].fresh ELSE 0]
  <2>2. kept \in SignInsKnown
    BY <1>0, SignedOutKnown DEF SignInsKnown, ServerInv, ServerTypeOK
  <2> HIDE DEF kept
  <2>3. mem' \in [Processes -> SignInsKnown]
    BY <2>1, <2>2 DEF Keep, TerminalTypeOK, kept
  <2> QED BY <1>2, <1>3, <1>4, <2>3, ToTyped DEF Renewed, TerminalTypeOK, Places
<1>5. CASE RenewalRefused(p)
  BY <1>2, <1>3, <1>5, ToTyped, SignedOutKnown DEF RenewalRefused, Keep, TerminalTypeOK, Places
<1>6. CASE RenewalFailed(p)
  BY <1>2, <1>3, <1>6, ToTyped DEF RenewalFailed, TerminalTypeOK, Places
<1>7. CASE SignedInAnswer(p)
  BY <1>0, <1>2, <1>3, <1>7, ToTyped, SignedOutKnown
     DEF SignedInAnswer, Keep, TerminalTypeOK, Places
<1>8. CASE Dropped(p)
  BY <1>2, <1>3, <1>8 DEF Dropped, terminal, TerminalTypeOK
<1> QED BY <1>4, <1>5, <1>6, <1>7, <1>8

LEMMA CommandKeeps ==
  ASSUME ServerInv, TerminalTypeOK, NEW p \in Processes, Command(p)
  PROVE  UNCHANGED rows /\ ServerInv' /\ TerminalTypeOK'
<1>1. UNCHANGED server => UNCHANGED rows /\ ServerInv'
  BY DEF server, ServerInv, ServerTypeOK, FamiliesNamed, TokenLocked
<1> QED BY <1>1, AloneKeeps, AskingKeeps, TakingKeeps DEF Command

(***************************************************************************)
(* The browser.  Nor do its steps.                                         *)
(***************************************************************************)

BrowserTypeOK ==
  /\ cookie \in 0..Len(rows)
  /\ access \in [Tabs -> 0..Len(rows)]

LEMMA TabKeeps ==
  ASSUME ServerInv, BrowserTypeOK, NEW t \in Tabs, Tab(t)
  PROVE  UNCHANGED rows /\ ServerInv' /\ BrowserTypeOK'
<1>0. /\ Refresher[t] \in Senders /\ Gate[t] \in Senders
      /\ 0 \in 0..Len(rows)
      /\ \A s \in Senders : tx[s].fresh \in 0..Len(rows)
  BY TabsAssumption, SignedOutKnown DEF ServerInv, ServerTypeOK
<1>1. CASE LogIn(t) \/ Refresh(t) \/ LogOut(t)
  <2>1. \E s \in Senders, op \in Ops, token \in 0..Len(rows) : Send(s, op, token)
    BY <1>0, <1>1 DEF LogIn, Refresh, LogOut, Ops, BrowserTypeOK
  <2>2. UNCHANGED rows /\ ServerInv'
    BY <2>1, SendKeeps DEF Send
  <2>3. cookie' = cookie /\ access' \in [Tabs -> 0..Len(rows)]
    BY <1>0, <1>1 DEF LogIn, Refresh, LogOut, Clear, browser, BrowserTypeOK
  <2> QED BY <2>2, <2>3 DEF BrowserTypeOK
<1>2. CASE ~ (LogIn(t) \/ Refresh(t) \/ LogOut(t))
  <2>1. \E s \in Senders : Taken(s)
    BY <1>0, <1>2 DEF Tab, Refreshed, RefreshRefused, RefreshFailed, LoggedIn, LoggedOut,
                      GateFailed, Lost, Got
  <2>2. UNCHANGED rows /\ ServerInv'
    BY <2>1, TakenKeeps DEF Taken
  <2>3. cookie' \in 0..Len(rows) /\ access' \in [Tabs -> 0..Len(rows)]
    <3>1. CASE Refreshed(t) \/ LoggedIn(t)
      BY <1>0, <3>1 DEF Refreshed, LoggedIn, Apply, BrowserTypeOK
    <3>2. CASE ~ (Refreshed(t) \/ LoggedIn(t))
      BY <1>0, <1>2, <3>2 DEF Tab, RefreshRefused, RefreshFailed, LoggedOut, GateFailed, Lost,
                              Clear, BrowserTypeOK
    <3> QED BY <3>1, <3>2
  <2> QED BY <2>2, <2>3 DEF BrowserTypeOK
<1> QED BY <1>1, <1>2

-----------------------------------------------------------------------------

(***************************************************************************)
(* The whole.                                                              *)
(***************************************************************************)

IInv == ServerInv /\ TerminalTypeOK /\ BrowserTypeOK

(* The tokens that are known stay known while the table grows.             *)
LEMMA KnownGrows ==
  ASSUME IInv, RowsGrow, UNCHANGED <<terminal, browser>>
  PROVE  TerminalTypeOK' /\ BrowserTypeOK'
<1>1. Len(rows) \in Nat /\ Len(rows') \in Nat /\ Len(rows) <= Len(rows')
  BY FamiliesStayNamed DEF IInv
<1>2. 0..Len(rows) \subseteq 0..Len(rows')
  BY <1>1
<1>3. SignInsKnown \subseteq SignInsKnown'
  BY <1>2 DEF SignInsKnown
<1>4. TerminalTypeOK /\ BrowserTypeOK
  BY DEF IInv
<1>5. TerminalTypeOK'
  BY <1>3, <1>4 DEF TerminalTypeOK, terminal
<1>6. BrowserTypeOK'
  BY <1>2, <1>4 DEF BrowserTypeOK, browser
<1> QED BY <1>5, <1>6

LEMMA InitIInv == Init => IInv
<1> SUFFICES ASSUME Init PROVE IInv
  OBVIOUS
<1>1. rows = <<>> /\ tx = [s \in Senders |-> NoTx]
  BY DEF Init, ServerInit
<1>2. rows \in Seq(Row) /\ Len(rows) = 0 /\ DOMAIN rows = {}
  BY <1>1
<1>3. ServerInv
  BY <1>1, <1>2, NoTxType DEF ServerInv, ServerTypeOK, FamiliesNamed, TokenLocked, NoTx
<1>4. TerminalTypeOK
  BY <1>3, SignedOutKnown
     DEF Init, TerminalInit, TerminalTypeOK, Free, Places, Goals
<1>5. BrowserTypeOK
  BY <1>2 DEF Init, BrowserInit, BrowserTypeOK
<1> QED BY <1>3, <1>4, <1>5 DEF IInv

LEMMA NextIInv ==
  ASSUME IInv, [Next]_vars
  PROVE  IInv' /\ RowsGrow
<1>0. ServerInv /\ TerminalTypeOK /\ BrowserTypeOK
  BY DEF IInv
<1>1. CASE \E s \in Senders : Serve(s) /\ UNCHANGED <<terminal, trouble, browser>>
  BY <1>0, <1>1, ServeKeeps, KnownGrows DEF IInv
<1>2. CASE (\E p \in Processes : Command(p)) /\ UNCHANGED browser
  <2>1. UNCHANGED rows /\ ServerInv' /\ TerminalTypeOK'
    BY <1>0, <1>2, CommandKeeps
  <2>2. BrowserTypeOK'
    BY <1>0, <1>2, <2>1 DEF BrowserTypeOK, browser
  <2> QED BY <1>0, <2>1, <2>2, RowsKept DEF IInv
<1>3. CASE LockAges /\ UNCHANGED browser
  <2>1. UNCHANGED server
    BY <1>3 DEF LockAges
  <2>2. UNCHANGED rows /\ ServerInv'
    BY <1>0, <2>1 DEF server, ServerInv, ServerTypeOK, FamiliesNamed, TokenLocked
  <2>3. lock' \in [owner : Processes \union {NoOne}, stale : BOOLEAN]
    BY <1>0, <1>3 DEF LockAges, TerminalTypeOK
  <2>4. SignInsKnown' = SignInsKnown
    BY <2>2 DEF SignInsKnown
  <2>5. TerminalTypeOK'
    BY <1>0, <1>3, <2>3, <2>4 DEF LockAges, TerminalTypeOK
  <2>6. BrowserTypeOK'
    BY <1>0, <1>3, <2>2 DEF BrowserTypeOK, browser
  <2> QED BY <1>0, <2>2, <2>5, <2>6, RowsKept DEF IInv
<1>4. CASE (\E t \in Tabs : Tab(t)) /\ UNCHANGED <<terminal, trouble>>
  <2>1. UNCHANGED rows /\ ServerInv' /\ BrowserTypeOK'
    BY <1>0, <1>4, TabKeeps
  <2>2. SignInsKnown' = SignInsKnown
    BY <2>1 DEF SignInsKnown
  <2>3. TerminalTypeOK'
    BY <1>0, <1>4, <2>2 DEF TerminalTypeOK, terminal
  <2> QED BY <1>0, <2>1, <2>3, RowsKept DEF IInv
<1>5. CASE UNCHANGED vars
  <2>1. UNCHANGED rows /\ ServerInv'
    BY <1>0, <1>5 DEF vars, server, ServerInv, ServerTypeOK, FamiliesNamed, TokenLocked
  <2>2. UNCHANGED <<terminal, browser>>
    BY <1>5 DEF vars
  <2> QED BY <1>0, <2>1, <2>2, RowsKept, KnownGrows DEF IInv
<1> QED BY <1>1, <1>2, <1>3, <1>4, <1>5 DEF Next, AtTheTerminal, InTheBrowser, AtTheStudio

(* Whatever the commands, the tabs, the proxies and the crashes do, every  *)
(* token that a client holds, presents or is given is one the Studio has   *)
(* issued: no request is answered with, and no file or store keeps, a      *)
(* token that the table does not have.                                     *)
THEOREM TypeCorrect == Spec => []TypeOK
<1>1. Init => IInv
  BY InitIInv
<1>2. IInv /\ [Next]_vars => IInv'
  BY NextIInv
<1>3. IInv => TypeOK
  BY DEF IInv, TypeOK, ServerInv, TerminalTypeOK, BrowserTypeOK, SignInsKnown, Places
<1> QED BY <1>1, <1>2, <1>3, PTL DEF Spec

-----------------------------------------------------------------------------

(***************************************************************************)
(* Families.                                                               *)
(***************************************************************************)

LEMMA NewRow ==
  ASSUME IInv, RowsGrow, NEW r \in DOMAIN rows', r \notin DOMAIN rows
  PROVE  /\ r = Len(rows) + 1 /\ \A q \in DOMAIN rows : q # r /\ rows[q].family # r
         /\ \A q \in DOMAIN rows' : q <= r
         /\ \/ rows'[r].family = r
            \/ \E t \in DOMAIN rows : /\ rows'[r].family = rows[t].family
                                      /\ Active(t)
                                      /\ ~ Active(t)'
<1>1. Len(rows) \in Nat /\ Len(rows') \in Nat
  BY FamiliesStayNamed DEF IInv
<1>2. DOMAIN rows = 1..Len(rows) /\ DOMAIN rows' = 1..Len(rows')
  BY DEF IInv, ServerInv, ServerTypeOK, RowsGrow
<1>3. Len(rows') = Len(rows) \/ Len(rows') = Len(rows) + 1
  BY DEF RowsGrow
<1>4. r = Len(rows') /\ Len(rows') = Len(rows) + 1
  BY <1>1, <1>2, <1>3, OneMore, Zenon
<1>5. ASSUME NEW q \in DOMAIN rows PROVE q # r /\ rows[q].family # r
  <2>1. q \in 1..Len(rows) /\ rows[q].family \in 1..q
    BY RowType DEF IInv
  <2> QED BY <1>1, <1>4, <2>1
<1>6. \A q \in DOMAIN rows' : q <= r
  BY <1>1, <1>2, <1>4
<1>7. ~ (Len(rows') = Len(rows))
  BY <1>1, <1>4, OneMore, Zenon
<1>8. \/ rows'[r].family = r
      \/ \E t \in DOMAIN rows : /\ rows'[r].family = rows[t].family
                                /\ Active(t)
                                /\ ~ Active(t)'
  BY <1>4, <1>7, Zenon DEF RowsGrow
<1> QED BY <1>4, <1>5, <1>6, <1>8

LEMMA NextNeverForks ==
  ASSUME IInv, RowsGrow, OneLivePerFamily
  PROVE  OneLivePerFamily'
<1> SUFFICES ASSUME NEW r \in DOMAIN rows', NEW q \in DOMAIN rows',
                    rows'[r].family = rows'[q].family, r < q
             PROVE  ~ Active(r)'
  BY DEF OneLivePerFamily
<1>0. DOMAIN rows' \subseteq Nat /\ DOMAIN rows \subseteq Nat
  BY DEF RowsGrow, IInv, ServerInv, ServerTypeOK
<1>1. r \in DOMAIN rows
  <2>1. ~ (q <= r)
    BY <1>0
  <2> QED BY <2>1, NewRow
<1>2. CASE q \in DOMAIN rows
  BY <1>1, <1>2 DEF OneLivePerFamily, RowsGrow
<1>3. CASE q \notin DOMAIN rows
  <2>1. rows'[q].family # q
    BY <1>1, <1>3, NewRow DEF RowsGrow
  <2>2. PICK t \in DOMAIN rows : /\ rows'[q].family = rows[t].family
                                 /\ Active(t)
                                 /\ ~ Active(t)'
    BY <1>3, <2>1, NewRow
  <2>3. rows[r].family = rows[t].family
    BY <1>1, <2>2 DEF RowsGrow
  <2>4. CASE r = t
    BY <2>2, <2>4
  <2>5. CASE r < t
    BY <1>1, <2>2, <2>3, <2>5 DEF OneLivePerFamily, RowsGrow
  <2>6. CASE t < r
    BY <1>1, <2>2, <2>3, <2>6 DEF OneLivePerFamily
  <2> QED BY <1>0, <1>1, <2>4, <2>5, <2>6
<1> QED BY <1>2, <1>3

(* A sign-in never forks: however many requests present its tokens at the  *)
(* same time, and whatever becomes of their answers, at most one token of  *)
(* a family is good, and it is the latest.                                 *)
THEOREM NeverForks == Spec => []OneLivePerFamily
<1>1. Init => IInv /\ OneLivePerFamily
  BY InitIInv DEF Init, ServerInit, OneLivePerFamily
<1>2. IInv /\ OneLivePerFamily /\ [Next]_vars => IInv' /\ OneLivePerFamily'
  BY NextIInv, NextNeverForks
<1> QED BY <1>1, <1>2, PTL DEF Spec

LEMMA NextStaysDead ==
  ASSUME IInv, RowsGrow, NEW r \in DOMAIN rows, Dead(rows[r].family)
  PROVE  Dead(rows[r].family)'
<1>1. rows'[r].family = rows[r].family
  BY DEF RowsGrow
<1> SUFFICES ASSUME NEW q \in DOMAIN rows', rows'[q].family = rows[r].family
             PROVE  ~ Active(q)'
  BY <1>1 DEF Dead
<1>2. CASE q \in DOMAIN rows
  BY <1>2 DEF Dead, RowsGrow
<1>3. CASE q \notin DOMAIN rows
  <2>1. rows'[q].family # q
    BY <1>3, NewRow
  <2>2. \E t \in DOMAIN rows : rows'[q].family = rows[t].family /\ Active(t)
    BY <1>3, <2>1, NewRow
  <2> QED BY <2>2 DEF Dead
<1> QED BY <1>2, <1>3

(* A sign-in that is over stays over: once a logout, an expiry or a        *)
(* detected reuse has left a family without a good token, no request, and  *)
(* none that was already under way, gives it one again.                    *)
THEOREM StaysDead == Spec => DeadFamilyStaysDead
<1>1. Init => IInv
  BY InitIInv
<1>2. IInv /\ [Next]_vars => IInv'
  BY NextIInv
<1>3. IInv /\ [Next]_vars =>
        [\A r \in DOMAIN rows : Dead(rows[r].family) => Dead(rows[r].family)']_rows
  BY NextIInv, NextStaysDead
<1> QED BY <1>1, <1>2, <1>3, PTL DEF Spec, DeadFamilyStaysDead

-----------------------------------------------------------------------------

(***************************************************************************)
(* Who holds which token, and who asks for what with it.                   *)
(***************************************************************************)

(* Only the senders of one side are in use.                                *)
OfSide ==
  IF side = "terminal" THEN Processes
  ELSE {Refresher[t] : t \in Tabs} \union {Gate[t] : t \in Tabs}

SidesApart ==
  /\ side \in {"terminal", "browser"}
  /\ \A s \in Senders \ OfSide : tx[s].phase = "none"
  /\ side = "browser" =>
       \A t \in Tabs : /\ InFlight(Refresher[t]) => tx[Refresher[t]].op = "refresh"
                       /\ InFlight(Gate[t]) => tx[Gate[t]].op \in {"login", "logout"}

(* A request that may still use its token, or has failed to.               *)
Asks(s, t) ==
  /\ tx[s].op # "login" /\ tx[s].token = t
  /\ tx[s].phase \in {"sent", "locked"} \/ (tx[s].phase = "answered" /\ tx[s].answer = "failed")

(* An answer that nobody has taken.                                        *)
Holding(s, t) == tx[s].phase = "answered" /\ tx[s].answer = "ok" /\ tx[s].fresh = t

(* A token is presented for renewal once, and one that is not in the file  *)
(* or the jar yet is good and has not been presented.                      *)
Presented ==
  \A s \in Senders, t \in DOMAIN rows : Asks(s, t) /\ tx[s].op = "refresh" =>
    ~ UsedUp(t) /\ \A o \in Senders \ {s} : ~ Asks(o, t)

Fresh ==
  \A s \in Senders, t \in DOMAIN rows : Holding(s, t) =>
    /\ ~ UsedUp(t)
    /\ \A o \in Senders : ~ Asks(o, t)
    /\ \A o \in Senders \ {s} : ~ Holding(o, t)

NotReused ==
  /\ \A s \in Senders : tx[s].phase # "sweeping"
  /\ \A r \in DOMAIN rows : rows[r].revoked # "reuse"

ServerClean == Presented /\ Fresh /\ NotReused

(* The terminal.  The lock keeps the others away.                          *)
Exclusive ==
  /\ ~ lock.stale
  /\ \A p \in Processes : (lock.owner = p <=> Inside(p)) /\ pc[p] # "unlink"

Renewing(p) == goal[p] = "work" /\ pc[p] \in {"waiting", "saving"}

(* A command renews the sign-in that is in the file as long as it has the  *)
(* lock, and signs nobody in when it signs out.                            *)
FileHeld ==
  \A p \in Processes : /\ Renewing(p) => entry.refresh # 0
                       /\ goal[p] = "logout" => pc[p] \notin {"signing", "saving"}

(* The token a command is about to save.                                   *)
Bringing(p, t) ==
  /\ mem[p].refresh = t
  /\ pc[p] = "saving" \/ (goal[p] = "login" /\ pc[p] \in {"acquire", "held"})

Untouched(t) ==
  ~ UsedUp(t) /\ \A s \in Senders : ~ Asks(s, t) /\ ~ Holding(s, t)

Brought ==
  \A p \in Processes, t \in DOMAIN rows : Bringing(p, t) =>
    /\ Untouched(t) /\ t # entry.refresh /\ tx[p].phase = "none"
    /\ \A q \in Processes \ {p} : ~ Bringing(q, t)

(* What the holder of the lock asks.                                       *)
Asking ==
  \A p \in Processes : pc[p] = "waiting" /\ goal[p] = "work" =>
    tx[p].op = "refresh" /\ tx[p].token = entry.refresh /\ tx[p].phase # "none"

FileClean ==
  entry.refresh # 0 =>
    /\ \A s \in Senders : ~ Holding(s, entry.refresh)
    /\ \/ Untouched(entry.refresh)
       \/ \E p \in Processes : pc[p] \in {"waiting", "saving", "forgetting"}

TerminalClean == Brought /\ Asking /\ FileClean

(* The browser.                                                            *)
NoRefreshBesideLogout ==
  \A t \in Tabs : InFlight(Refresher[t]) =>
    \A u \in Tabs : InFlight(Gate[u]) => tx[Gate[u]].op # "logout"

OneRefresh ==
  \A t, u \in Tabs : InFlight(Refresher[t]) /\ InFlight(Refresher[u]) => t = u

JarClean ==
  cookie # 0 =>
    /\ \A s \in Senders : ~ Holding(s, cookie)
    /\ (\A s \in Senders : InFlight(s) /\ tx[s].op # "login" => tx[s].token # cookie) =>
         ~ UsedUp(cookie)

BrowserClean == NoRefreshBesideLogout /\ OneRefresh /\ JarClean

(* What a login is answered belongs to a family of its own, which nobody   *)
(* has signed out of.                                                      *)
LoginApart(n, s) ==
  /\ n \in DOMAIN rows /\ rows[n].family = n /\ n \notin left /\ cookie # n
  /\ \A r \in DOMAIN rows : rows[r].family = n => r = n
  /\ \A o \in Senders : tx[o].token # n /\ (o # s => tx[o].fresh # n)

AnsweredOk(s, op) == tx[s].phase = "answered" /\ tx[s].answer = "ok" /\ tx[s].op = op

LoginsApart == \A s \in Senders : AnsweredOk(s, "login") => LoginApart(tx[s].fresh, s)

(* What a refresh is answered is of the family it has presented.           *)
RefreshesInFamily ==
  \A s \in Senders : AnsweredOk(s, "refresh") =>
    /\ tx[s].token \in DOMAIN rows /\ tx[s].fresh \in DOMAIN rows
    /\ rows[tx[s].fresh].family = rows[tx[s].token].family

(* The family in the jar, and those that are being renewed, are not among  *)
(* those left.                                                             *)
LeftBehind ==
  /\ NoRefreshBesideLogout
  /\ cookie # 0 => rows[cookie].family \notin left
  /\ \A t \in Tabs :
       LET s == Refresher[t] IN
       InFlight(s) /\ tx[s].token # 0 => rows[tx[s].token].family \notin left

LeftKnown == left \subseteq {rows[r].family : r \in DOMAIN rows}

Unhurried == trouble \cap {"crash", "slow"} = {}
Calm == trouble \cap {"crash", "slow", "gateway"} = {} /\ mishaps = {}
NoneLate == mishaps \cap {"late", "lost"} = {}

CauseInv ==
  /\ SidesApart
  /\ side = "terminal" /\ Unhurried => Exclusive /\ FileHeld
  /\ Calm => ServerClean
  /\ Calm /\ side = "terminal" => TerminalClean
  /\ Calm /\ side = "browser" => BrowserClean

StickInv ==
  /\ side = "browser" => LoginsApart
  /\ RefreshesInFamily /\ LeftKnown
  /\ side = "browser" /\ NoneLate => LeftBehind

-----------------------------------------------------------------------------

(***************************************************************************)
(* What the Studio does to the requests.                                   *)
(***************************************************************************)

LEMMA Tables ==
  ASSUME ServerInv
  PROVE  /\ rows \in Seq(Row) /\ DOMAIN rows = 1..Len(rows) /\ Len(rows) \in Nat
         /\ tx \in [Senders -> Tx]
         /\ \A s \in Senders : tx[s].token \in 0..Len(rows) /\ tx[s].fresh \in 0..Len(rows)
BY DEF ServerInv, ServerTypeOK

LEMMA AnsweredTx ==
  ASSUME ServerInv, NEW s \in Senders, NEW answer, NEW fresh, Answered(s, answer, fresh)
  PROVE  /\ \A o \in Senders \ {s} : tx'[o] = tx[o]
         /\ tx'[s].phase = "answered" /\ tx'[s].answer = answer /\ tx'[s].fresh = fresh
         /\ tx'[s].op = tx[s].op /\ tx'[s].token = tx[s].token
<1>1. tx \in [Senders -> Tx] /\ tx[s] \in Tx BY Tables
<1>2. tx' = [tx EXCEPT ![s] = [tx[s] EXCEPT !.phase = "answered", !.answer = answer,
                                            !.fresh = fresh, !.sees = {}]]
  BY <1>1 DEF Answered
<1> DEFINE u == [tx[s] EXCEPT !.phase = "answered", !.answer = answer,
                              !.fresh = fresh, !.sees = {}]
<1>3. /\ u.phase = "answered" /\ u.answer = answer /\ u.fresh = fresh
      /\ u.op = tx[s].op /\ u.token = tx[s].token
  BY <1>1 DEF Tx
<1> HIDE DEF u
<1>4. tx' = [tx EXCEPT ![s] = u] BY <1>2 DEF u
<1> QED BY <1>1, <1>3, <1>4

LEMMA PhaseTx ==
  ASSUME ServerInv, NEW s \in Senders, LockRow(s) \/ Detect(s)
  PROVE  /\ \A o \in Senders \ {s} : tx'[o] = tx[o]
         /\ tx'[s].phase \in {"locked", "sweeping"} /\ tx'[s].answer = tx[s].answer
         /\ tx'[s].op = tx[s].op /\ tx'[s].token = tx[s].token /\ tx'[s].fresh = tx[s].fresh
         /\ LockRow(s) => tx'[s].phase = "locked"
         /\ rows' = rows
<1>1. tx \in [Senders -> Tx] /\ tx[s] \in Tx BY Tables
<1>2. CASE LockRow(s)
  <2> DEFINE u == [tx[s] EXCEPT !.phase = "locked"]
  <2>1. tx' = [tx EXCEPT ![s] = u] BY <1>1, <1>2 DEF LockRow
  <2>2. /\ u.phase = "locked" /\ u.answer = tx[s].answer
        /\ u.op = tx[s].op /\ u.token = tx[s].token /\ u.fresh = tx[s].fresh
    BY <1>1 DEF Tx
  <2>3. rows' = rows BY <1>2 DEF LockRow
  <2> HIDE DEF u
  <2> QED BY <1>1, <2>1, <2>2, <2>3
<1>3. CASE Detect(s)
  <2> DEFINE sees == {r \in DOMAIN rows : /\ rows[r].family = rows[tx[s].token].family
                                          /\ rows[r].revoked = "no"}
             u == [tx[s] EXCEPT !.phase = "sweeping", !.sees = sees]
  <2>1. tx' = [tx EXCEPT ![s] = u] BY <1>1, <1>3 DEF Detect
  <2>2. /\ u.phase = "sweeping" /\ u.answer = tx[s].answer
        /\ u.op = tx[s].op /\ u.token = tx[s].token /\ u.fresh = tx[s].fresh
    <3> HIDE DEF sees
    <3> QED BY <1>1 DEF Tx
  <2>3. rows' = rows /\ ~ LockRow(s) BY <1>3 DEF Detect, Refreshing, LockRow
  <2> HIDE DEF u
  <2> QED BY <1>1, <2>1, <2>2, <2>3
<1> QED BY <1>2, <1>3

(* Only the request that is served changes, and neither its operation nor  *)
(* its token.                                                              *)
LEMMA ServeTx ==
  ASSUME ServerInv, NEW s \in Senders, Serve(s)
  PROVE  /\ \A o \in Senders \ {s} : tx'[o] = tx[o]
         /\ tx'[s].op = tx[s].op /\ tx'[s].token = tx[s].token
         /\ tx[s].phase \in {"sent", "locked", "sweeping"} /\ tx'[s].phase # "none"
<1>1. CASE LockRow(s) \/ Detect(s)
  BY <1>1, PhaseTx DEF LockRow, Detect, Refreshing
<1>2. CASE Issue(s)
  <2>1. Answered(s, "ok", Len(rows) + 1) /\ tx[s].phase = "sent" BY <1>2 DEF Issue
  <2> QED BY <2>1, AnsweredTx
<1>3. CASE Rotate(s)
  <2>1. Answered(s, "ok", Len(rows) + 1) /\ tx[s].phase = "locked"
    BY <1>3 DEF Rotate, Refreshing
  <2> QED BY <2>1, AnsweredTx
<1>4. CASE NoSuchToken(s) \/ Lapse(s) \/ Sweep(s) \/ RolledBack(s) \/ Revoke(s)
  <2>1. PICK answer \in {"ok", "refused", "failed"} : Answered(s, answer, 0)
    BY <1>4 DEF NoSuchToken, Lapse, Sweep, RolledBack, Revoke
  <2>2. tx[s].phase \in {"sent", "locked", "sweeping"}
    BY <1>4 DEF NoSuchToken, Lapse, Sweep, RolledBack, Revoke, Refreshing
  <2> QED BY <2>1, <2>2, AnsweredTx
<1> QED BY <1>1, <1>2, <1>3, <1>4 DEF Serve

(* A row is appended, and the others are used up no more than before, but  *)
(* for the one that is replaced.                                           *)
LEMMA Appended ==
  ASSUME ServerInv, NEW s \in Senders, Issue(s) \/ Rotate(s)
  PROVE  LET n == Len(rows) + 1 IN
         /\ Len(rows') = n /\ DOMAIN rows' = 1..n
         /\ rows'[n] = Issued(IF Issue(s) THEN n ELSE rows[tx[s].token].family)
         /\ \A r \in DOMAIN rows : \/ r = tx[s].token /\ tx[s].op = "refresh"
                                   \/ rows'[r] = rows[r]
         /\ \A r \in DOMAIN rows : /\ rows'[r].family = rows[r].family
                                   /\ rows'[r].revoked = rows[r].revoked
         /\ tx[s].op = IF Issue(s) THEN "login" ELSE "refresh"
<1> DEFINE n == Len(rows) + 1
<1>1. rows \in Seq(Row) /\ Len(rows) \in Nat /\ DOMAIN rows = 1..Len(rows)
  BY Tables
<1>2. \A r \in DOMAIN rows : rows[r] \in Row BY RowType
<1>3. CASE Issue(s)
  <2>1. rows' = Append(rows, Issued(n)) /\ tx[s].op = "login" BY <1>3 DEF Issue
  <2>2. Issued(n) \in Row BY <1>1, IssuedType
  <2>3. /\ Len(rows') = n /\ DOMAIN rows' = 1..n /\ rows'[n] = Issued(n)
        /\ \A r \in DOMAIN rows : rows'[r] = rows[r]
    BY <1>1, <2>1, <2>2
  <2> QED BY <1>3, <2>1, <2>3
<1>4. CASE Rotate(s) /\ ~ Issue(s)
  <2> DEFINE t == tx[s].token
             marked == [rows EXCEPT ![t].rotated = TRUE]
  <2>1. t \in DOMAIN rows BY <1>4, LockedToken DEF Rotate, Refreshing
  <2>2. rows' = Append(marked, Issued(rows[t].family)) /\ tx[s].op = "refresh"
    BY <1>4 DEF Rotate, Rotated, Refreshing
  <2>3. /\ marked \in Seq(Row) /\ Len(marked) = Len(rows)
        /\ \A r \in DOMAIN rows : r # t => marked[r] = rows[r]
        /\ marked[t].family = rows[t].family /\ marked[t].revoked = rows[t].revoked
    <3>1. marked[t] = [rows[t] EXCEPT !.rotated = TRUE] BY <1>1, <2>1
    <3>2. /\ marked[t] \in Row /\ marked[t].family = rows[t].family
          /\ marked[t].revoked = rows[t].revoked
      BY <1>2, <2>1, <3>1 DEF Row
    <3>3. \A r \in DOMAIN rows : r # t => marked[r] = rows[r] BY <1>1
    <3>4. marked \in [1..Len(rows) -> Row]
      BY <1>1, <1>2, <2>1, <3>2, <3>3
    <3>5. marked \in Seq(Row) /\ Len(marked) = Len(rows)
      <4> HIDE DEF marked
      <4> QED BY <1>1, <3>4
    <3> QED BY <3>2, <3>3, <3>5
  <2>4. Issued(rows[t].family) \in Row BY <1>2, <2>1, IssuedType DEF Row
  <2> HIDE DEF marked
  <2>5. /\ Len(rows') = n /\ DOMAIN rows' = 1..n /\ rows'[n] = Issued(rows[t].family)
        /\ \A r \in DOMAIN rows : rows'[r] = marked[r]
    BY SMTT(20), <1>1, <2>2, <2>3, <2>4
  <2>6. \A r \in DOMAIN rows : /\ r = t \/ rows'[r] = rows[r]
                               /\ rows'[r].family = rows[r].family
                               /\ rows'[r].revoked = rows[r].revoked
    BY <2>1, <2>3, <2>5
  <2> QED BY <1>4, <2>2, <2>5, <2>6
<1> QED BY <1>3, <1>4

LEMMA OverRow ==
  ASSUME ServerInv, NEW t \in DOMAIN rows, rows' = [rows EXCEPT ![t].revoked = "over"]
  PROVE  /\ DOMAIN rows' = DOMAIN rows
         /\ \A r \in DOMAIN rows : r # t => rows'[r] = rows[r]
         /\ rows'[t].revoked = "over"
<1>1. rows \in Seq(Row) /\ DOMAIN rows = 1..Len(rows) BY Tables
<1>2. rows[t] \in Row BY RowType
<1>3. rows'[t] = [rows[t] EXCEPT !.revoked = "over"] BY <1>1
<1>4. rows'[t].revoked = "over" BY <1>2, <1>3 DEF Row
<1>5. DOMAIN rows' = DOMAIN rows /\ \A r \in DOMAIN rows : r # t => rows'[r] = rows[r]
  BY <1>1
<1> QED BY <1>4, <1>5

(* What an answer does when no token that may be presented is used up: no  *)
(* token is found used up, so that no family is swept, and a token that is *)
(* used up belongs to the request that is served.                          *)
Served(s) ==
  /\ \A t \in DOMAIN rows : t \in DOMAIN rows' /\ (~ UsedUp(t) /\ ~ Asks(s, t) => ~ UsedUp(t)')
  /\ \A r \in DOMAIN rows' : rows'[r].revoked # "reuse"
  /\ tx'[s].phase # "sweeping"
  /\ \A t \in Nat : /\ Asks(s, t)' => Asks(s, t) /\ rows' = rows
                    /\ ~ Holding(s, t)
                    /\ Holding(s, t)' => \/ t = 0
                                         \/ /\ t = Len(rows) + 1 /\ t \notin DOMAIN rows
                                            /\ ~ UsedUp(t)'

LEMMA CleanServes ==
  ASSUME ServerInv, ServerClean, NEW s \in Senders, Serve(s)
  PROVE  Served(s)
<1>1. /\ DOMAIN rows = 1..Len(rows) /\ Len(rows) \in Nat
      /\ \A r \in DOMAIN rows : rows[r] \in Row /\ rows[r].revoked # "reuse"
      /\ tx[s].phase # "sweeping"
  BY Tables, RowType DEF ServerClean, NotReused
<1>2. ~ Detect(s)
  <2> SUFFICES ASSUME Detect(s) PROVE FALSE OBVIOUS
  <2>1. tx[s].phase = "locked" /\ tx[s].op = "refresh" /\ UsedUp(tx[s].token)
    BY DEF Detect, Refreshing
  <2>2. tx[s].token \in DOMAIN rows BY <2>1, LockedToken
  <2>3. Asks(s, tx[s].token) BY <2>1 DEF Asks
  <2> QED BY <2>1, <2>2, <2>3 DEF ServerClean, Presented
<1>3. CASE LockRow(s)
  <2>1. /\ rows' = rows /\ tx'[s].phase = "locked" /\ tx'[s].op = tx[s].op
        /\ tx'[s].token = tx[s].token
    BY <1>3, PhaseTx
  <2>2. tx[s].phase = "sent" BY <1>3 DEF LockRow
  <2> QED BY <1>1, <2>1, <2>2 DEF Served, Asks, Holding, UsedUp
<1>4. CASE Issue(s) \/ Rotate(s)
  <2>12. PICK n \in Nat : n = Len(rows) + 1 BY <1>1
  <2>0. /\ DOMAIN rows' = 1..n
        /\ \E f : rows'[n] = Issued(f)
        /\ \A r \in DOMAIN rows : /\ \/ r = tx[s].token /\ tx[s].op = "refresh"
                                     \/ rows'[r] = rows[r]
                                  /\ rows'[r].revoked = rows[r].revoked
    BY <1>4, <2>12, Appended
  <2>1. /\ DOMAIN rows' = 1..n
        /\ rows'[n].revoked = "no" /\ rows'[n].rotated = FALSE
        /\ \A r \in DOMAIN rows : /\ \/ r = tx[s].token /\ tx[s].op = "refresh"
                                     \/ rows'[r] = rows[r]
                                  /\ rows'[r].revoked = rows[r].revoked
    BY <2>0 DEF Issued
  <2>2. n \notin DOMAIN rows /\ n \in DOMAIN rows' BY <1>1, <2>1, <2>12
  <2>3. \A r \in DOMAIN rows' : r \in DOMAIN rows \/ r = n BY <1>1, <2>1, <2>12
  <2>4. DOMAIN rows \subseteq DOMAIN rows' BY <1>1, <2>1, <2>12
  <2>5. Answered(s, "ok", n) BY <1>4, <2>12 DEF Issue, Rotate
  <2>6. tx[s].phase \in {"sent", "locked"} BY <1>4 DEF Issue, Rotate, Refreshing
  <2>7. /\ tx'[s].phase = "answered" /\ tx'[s].answer = "ok" /\ tx'[s].fresh = n
        /\ tx'[s].op = tx[s].op /\ tx'[s].token = tx[s].token
    BY <2>5, AnsweredTx
  <2>8. ASSUME NEW t \in DOMAIN rows, ~ UsedUp(t), ~ Asks(s, t) PROVE ~ UsedUp(t)'
    <3>1. rows'[t] = rows[t] BY <2>1, <2>6, <2>8 DEF Asks
    <3> QED BY <2>8, <3>1 DEF UsedUp
  <2>9. \A r \in DOMAIN rows' : rows'[r].revoked # "reuse" BY <1>1, <2>1, <2>3
  <2>10. ASSUME NEW t \in Nat
         PROVE  ~ Asks(s, t)' /\ ~ Holding(s, t) /\ (Holding(s, t)' => t = n)
    BY <2>6, <2>7 DEF Asks, Holding
  <2>11. ~ UsedUp(n)' BY <2>1 DEF UsedUp
  <2>13. tx'[s].phase # "sweeping" BY <2>7
  <2>14. \A t \in Nat : t = n => t = Len(rows) + 1 /\ t \notin DOMAIN rows /\ ~ UsedUp(t)'
    BY <2>2, <2>11, <2>12
  <2> QED BY <2>4, <2>8, <2>9, <2>10, <2>13, <2>14 DEF Served
<1>5. CASE NoSuchToken(s) \/ RolledBack(s)
  <2>1. PICK answer \in {"ok", "refused", "failed"} : Answered(s, answer, 0)
    BY <1>5 DEF NoSuchToken, RolledBack
  <2>2. /\ rows' = rows /\ tx[s].phase \in {"sent", "locked"}
    BY <1>1, <1>5 DEF NoSuchToken, RolledBack
  <2>3. /\ tx'[s].phase = "answered" /\ tx'[s].answer = answer /\ tx'[s].fresh = 0
        /\ tx'[s].op = tx[s].op /\ tx'[s].token = tx[s].token
    BY <2>1, AnsweredTx
  <2> QED BY <1>1, <2>2, <2>3 DEF Served, Asks, Holding, UsedUp
<1>6. CASE Lapse(s) \/ Revoke(s)
  <2> DEFINE t == tx[s].token
  <2>1. tx[s].phase = "locked" /\ tx[s].op \in {"refresh", "logout"}
    BY <1>6 DEF Lapse, Revoke, Refreshing
  <2>2. t \in DOMAIN rows /\ Asks(s, t) BY <2>1, LockedToken DEF Asks
  <2>3. rows' = rows \/ rows' = [rows EXCEPT ![t].revoked = "over"]
    BY <1>6 DEF Lapse, Revoke
  <2>4. PICK answer \in {"ok", "refused", "failed"} : answer # "failed" /\ Answered(s, answer, 0)
    BY <1>6 DEF Lapse, Revoke
  <2>5. /\ tx'[s].phase = "answered" /\ tx'[s].answer = answer /\ tx'[s].fresh = 0
    BY <2>4, AnsweredTx
  <2> HIDE DEF t
  <2>6. /\ DOMAIN rows' = DOMAIN rows
        /\ \A r \in DOMAIN rows : rows'[r] = rows[r] \/ (r = t /\ rows'[r].revoked = "over")
    BY <2>2, <2>3, OverRow
  <2>7. \A r \in DOMAIN rows : ~ UsedUp(r) /\ ~ Asks(s, r) => ~ UsedUp(r)'
    BY <2>2, <2>6 DEF UsedUp
  <2>8. \A r \in DOMAIN rows' : rows'[r].revoked # "reuse" BY <1>1, <2>6
  <2>9. ASSUME NEW r \in Nat
        PROVE  ~ Asks(s, r)' /\ ~ Holding(s, r) /\ (Holding(s, r)' => r = 0)
    BY <2>1, <2>4, <2>5 DEF Asks, Holding
  <2>10. tx'[s].phase # "sweeping" BY <2>5
  <2> QED BY <2>6, <2>7, <2>8, <2>9, <2>10 DEF Served
<1>7. ~ Sweep(s) BY <1>1 DEF Sweep
<1> QED BY <1>2, <1>3, <1>4, <1>5, <1>6, <1>7 DEF Serve

(* The Studio keeps the tokens clean.                                      *)
LEMMA ServeClean ==
  ASSUME ServerInv, ServerClean, NEW s \in Senders, Serve(s)
  PROVE  ServerClean'
<1>1. Served(s) BY CleanServes
<1>2. /\ DOMAIN rows = 1..Len(rows) /\ Len(rows) \in Nat
      /\ \A o \in Senders : /\ tx[o].token \in 0..Len(rows) /\ tx[o].fresh \in 0..Len(rows)
                            /\ o # s => tx'[o] = tx[o]
  BY Tables, ServeTx
<1>3. NotReused'
  <2>1. \A o \in Senders : tx'[o].phase # "sweeping"
    BY <1>1, <1>2 DEF Served, ServerClean, NotReused
  <2> QED BY <1>1, <2>1 DEF Served, NotReused
<1>4. \A t \in DOMAIN rows' : t \in Nat /\ t # 0
  <2>1. rows' \in Seq(Row) BY ServeKeeps DEF ServerInv, ServerTypeOK
  <2>2. DOMAIN rows' = 1..Len(rows') /\ Len(rows') \in Nat BY <2>1
  <2> QED BY <2>2
<1>5. ASSUME NEW o \in Senders, NEW t \in Nat, Asks(o, t)' PROVE Asks(o, t)
  BY <1>1, <1>2, <1>5 DEF Served, Asks
<1>6. ASSUME NEW o \in Senders, NEW t \in Nat, Asks(o, t) PROVE t \in DOMAIN rows \/ t = 0
  BY <1>2, <1>6 DEF Asks
<1>7. ASSUME NEW o \in Senders \ {s}, NEW t \in Nat, Holding(o, t)'
      PROVE  Holding(o, t) /\ (t \in DOMAIN rows \/ t = 0)
  BY <1>2, <1>7 DEF Holding
<1>8. ASSUME NEW o \in Senders, NEW t \in DOMAIN rows', Asks(o, t)', tx'[o].op = "refresh"
      PROVE  ~ UsedUp(t)' /\ \A q \in Senders \ {o} : ~ Asks(q, t)'
  <2>1. t \in Nat /\ Asks(o, t) /\ t \in DOMAIN rows
    <3>1. t \in Nat /\ t # 0 BY <1>4, <1>8
    <3> QED BY <1>5, <1>6, <1>8, <3>1
  <2>2. tx[o].op = "refresh" BY <1>8, ServeTx
  <2>3. ~ UsedUp(t) /\ \A q \in Senders \ {o} : ~ Asks(q, t)
    BY <2>1, <2>2 DEF ServerClean, Presented
  <2>4. ~ UsedUp(t)'
    <3>1. CASE o = s
      <4>1. rows' = rows BY <1>1, <1>8, <2>1, <3>1 DEF Served
      <4> QED BY <2>3, <4>1 DEF UsedUp
    <3>2. CASE o # s BY <1>1, <2>1, <2>3, <3>2 DEF Served
    <3> QED BY <3>1, <3>2
  <2> QED BY <1>5, <2>1, <2>3, <2>4
<1>9. ASSUME NEW o \in Senders, NEW t \in DOMAIN rows', Holding(o, t)'
      PROVE  /\ ~ UsedUp(t)'
             /\ \A q \in Senders : ~ Asks(q, t)'
             /\ \A q \in Senders \ {o} : ~ Holding(q, t)'
  <2>1. t \in Nat /\ t # 0 BY <1>4, <1>9
  <2>2. CASE o = s
    <3>1. t \notin DOMAIN rows /\ ~ UsedUp(t)' BY <1>1, <1>9, <2>1, <2>2 DEF Served
    <3> QED BY <1>5, <1>6, <1>7, <2>1, <2>2, <3>1
  <2>3. CASE o # s
    <3>1. Holding(o, t) /\ t \in DOMAIN rows BY <1>7, <1>9, <2>1, <2>3
    <3>2. /\ ~ UsedUp(t) /\ \A q \in Senders : ~ Asks(q, t)
          /\ \A q \in Senders \ {o} : ~ Holding(q, t)
      BY <3>1 DEF ServerClean, Fresh
    <3>3. ~ UsedUp(t)' BY <1>1, <3>1, <3>2 DEF Served
    <3>4. ~ Holding(s, t)'
      <4>1. t # Len(rows) + 1 BY <1>2, <3>1
      <4> QED BY <1>1, <2>1, <3>1, <4>1 DEF Served
    <3> QED BY <1>5, <1>7, <2>1, <3>2, <3>3, <3>4
  <2> QED BY <2>2, <2>3
<1> QED BY <1>3, <1>8, <1>9 DEF ServerClean, Presented, Fresh

(***************************************************************************)
(* What the clients do to the requests.                                    *)
(***************************************************************************)

LEMMA SendTx ==
  ASSUME ServerInv, NEW s \in Senders, NEW op \in Ops, NEW token \in 0..Len(rows),
         Send(s, op, token)
  PROVE  /\ rows' = rows /\ tx[s].phase = "none"
         /\ \A o \in Senders \ {s} : tx'[o] = tx[o]
         /\ tx'[s].phase = "sent" /\ tx'[s].op = op /\ tx'[s].token = token /\ tx'[s].fresh = 0
<1> DEFINE u == [NoTx EXCEPT !.phase = "sent", !.op = op, !.token = token]
<1>1. u.phase = "sent" /\ u.op = op /\ u.token = token /\ u.fresh = 0 BY DEF NoTx
<1>2. tx' = [tx EXCEPT ![s] = u] BY DEF Send
<1>3. tx \in [Senders -> Tx] BY Tables
<1> HIDE DEF u
<1> QED BY <1>1, <1>2, <1>3 DEF Send

LEMMA TakenTx ==
  ASSUME ServerInv, NEW s \in Senders, Taken(s)
  PROVE  /\ rows' = rows
         /\ \A o \in Senders \ {s} : tx'[o] = tx[o]
         /\ tx'[s].phase = "none" /\ tx'[s].op = "login" /\ tx'[s].token = 0 /\ tx'[s].fresh = 0
<1>1. tx \in [Senders -> Tx] BY Tables
<1> QED BY <1>1 DEF Taken, NoTx

(* A command has one request, which it sends or takes.                     *)
LEMMA CommandTx ==
  ASSUME ServerInv, TerminalTypeOK, NEW p \in Processes, Command(p)
  PROVE  /\ rows' = rows
         /\ \A o \in Senders \ {p} : tx'[o] = tx[o]
         /\ tx'[p] = tx[p] \/ tx'[p].phase \in {"none", "sent"}
<1>1. p \in Senders BY FileAssumption
<1>2. /\ Len(rows) \in Nat /\ 0 \in 0..Len(rows) /\ entry.refresh \in 0..Len(rows)
  BY Tables DEF TerminalTypeOK, SignInsKnown
<1>3. CASE UNCHANGED server
  BY <1>3 DEF server
<1>4. CASE \E op \in Ops, token \in 0..Len(rows) : Send(p, op, token)
  BY <1>1, <1>4, SendTx
<1>5. CASE Taken(p)
  BY <1>1, <1>5, TakenTx
<1>6. CASE \/ NeedRenewal(p) \/ SignOut(p) \/ TryLock(p) \/ SeeStale(p) \/ Unlink(p) \/ GiveUp(p)
           \/ Release(p) \/ Unlock(p) \/ NothingToRenew(p) \/ Unreached(p) \/ SaveSignIn(p)
           \/ Save(p) \/ Forget(p) \/ GatewayFails(p) \/ AnswerLost(p) \/ SignInLost(p)
           \/ SignOutEnds(p) \/ Crash(p)
  BY <1>3, <1>6, AloneKeeps
<1>7. CASE SignIn(p) \/ Renew(p) \/ SendSignOut(p)
  BY <1>2, <1>3, <1>4, <1>7 DEF SignIn, Renew, ToRenew, SendSignOut, Ops
<1>8. CASE Renewed(p) \/ RenewalRefused(p) \/ RenewalFailed(p) \/ SignedInAnswer(p) \/ Dropped(p)
  BY <1>5, <1>8 DEF Renewed, RenewalRefused, RenewalFailed, SignedInAnswer, Dropped, Reply
<1> QED BY <1>6, <1>7, <1>8 DEF Command

(* A tab sends or takes one of its two requests.                           *)
LEMMA TabTx ==
  ASSUME ServerInv, BrowserTypeOK, NEW t \in Tabs, Tab(t)
  PROVE  /\ rows' = rows
         /\ \E s \in {Refresher[t], Gate[t]} :
              /\ \A o \in Senders \ {s} : tx'[o] = tx[o]
              /\ tx'[s].phase \in {"none", "sent"}
              /\ \/ tx'[s].phase = "none"
                 \/ tx'[s].op \in IF s = Refresher[t] THEN {"refresh"} ELSE {"login", "logout"}
<1>1. /\ Refresher[t] \in Senders /\ Gate[t] \in Senders /\ Refresher[t] # Gate[t]
      /\ Len(rows) \in Nat /\ 0 \in 0..Len(rows) /\ cookie \in 0..Len(rows)
  BY TabsAssumption, Tables DEF BrowserTypeOK
<1>2. CASE LogIn(t)
  <2>1. Send(Gate[t], "login", 0) BY <1>2 DEF LogIn
  <2> QED BY <1>1, <2>1, SendTx DEF Ops
<1>3. CASE Refresh(t)
  <2>1. Send(Refresher[t], "refresh", cookie) BY <1>3 DEF Refresh
  <2> QED BY <1>1, <2>1, SendTx DEF Ops
<1>4. CASE LogOut(t)
  <2>1. Send(Gate[t], "logout", cookie) BY <1>4 DEF LogOut
  <2> QED BY <1>1, <2>1, SendTx DEF Ops
<1>5. CASE \E s \in {Refresher[t], Gate[t]} : Taken(s)
  BY <1>1, <1>5, TakenTx
<1>6. CASE \/ Refreshed(t) \/ RefreshRefused(t) \/ RefreshFailed(t) \/ LoggedIn(t)
           \/ LoggedOut(t) \/ GateFailed(t) \/ Lost(t)
  BY <1>5, <1>6 DEF Refreshed, RefreshRefused, RefreshFailed, LoggedIn, LoggedOut, GateFailed,
                    Lost, Got
<1> QED BY <1>2, <1>3, <1>4, <1>6 DEF Tab

(* The steps of the whole.                                                 *)
LEMMA Steps ==
  ASSUME [Next]_vars
  PROVE  /\ side' = side
         /\ \/ \E s \in Senders : Serve(s) /\ UNCHANGED <<terminal, trouble, browser>>
            \/ /\ side = "terminal" /\ UNCHANGED browser
               /\ LockAges \/ \E p \in Processes : Command(p)
            \/ /\ side = "browser" /\ UNCHANGED <<terminal, trouble>>
               /\ \E t \in Tabs : Tab(t)
            \/ UNCHANGED vars
<1>1. CASE Next
  BY <1>1 DEF Next, AtTheStudio, AtTheTerminal, InTheBrowser
<1>2. CASE UNCHANGED vars
  BY <1>2 DEF vars
<1> QED BY <1>1, <1>2

LEMMA InitApart == Init => SidesApart
<1> SUFFICES ASSUME Init PROVE SidesApart OBVIOUS
<1>1. \A s \in Senders : tx[s].phase = "none" BY DEF Init, ServerInit, NoTx
<1>2. \A t \in Tabs : Refresher[t] \in Senders /\ Gate[t] \in Senders BY TabsAssumption
<1> QED BY <1>1, <1>2 DEF Init, SidesApart, InFlight

LEMMA NextApart ==
  ASSUME IInv, SidesApart, [Next]_vars
  PROVE  SidesApart'
<1>0. ServerInv /\ TerminalTypeOK /\ BrowserTypeOK /\ side' = side /\ OfSide' = OfSide
  BY Steps DEF IInv, OfSide
<1>1. \A t \in Tabs : Refresher[t] \in Senders /\ Gate[t] \in Senders BY TabsAssumption
<1>2. CASE \E s \in Senders : Serve(s)
  <2>1. PICK s \in Senders : Serve(s) BY <1>2
  <2>2. /\ \A o \in Senders \ {s} : tx'[o] = tx[o]
        /\ tx'[s].op = tx[s].op /\ tx[s].phase # "none"
    BY <1>0, <2>1, ServeTx
  <2>3. s \in OfSide BY <2>2 DEF SidesApart
  <2>4. ASSUME NEW o \in Senders PROVE tx'[o].op = tx[o].op /\ (InFlight(o)' => InFlight(o))
    BY <2>2 DEF InFlight
  <2>5. ASSUME side = "browser"
        PROVE  \A t \in Tabs : /\ InFlight(Refresher[t])' => tx'[Refresher[t]].op = "refresh"
                               /\ InFlight(Gate[t])' => tx'[Gate[t]].op \in {"login", "logout"}
    BY <1>1, <2>4, <2>5 DEF SidesApart
  <2>6. \A o \in Senders \ OfSide : tx'[o].phase = "none" BY <2>2, <2>3 DEF SidesApart
  <2> QED BY <1>0, <2>5, <2>6 DEF SidesApart
<1>3. CASE side = "terminal" /\ \E p \in Processes : Command(p)
  <2>1. PICK p \in Processes : \A o \in Senders \ {p} : tx'[o] = tx[o]
    BY <1>0, <1>3, CommandTx
  <2> QED BY <1>0, <1>3, <2>1 DEF SidesApart, OfSide
<1>4. CASE side = "browser" /\ \E t \in Tabs : Tab(t)
  <2>1. PICK t \in Tabs : \E s \in {Refresher[t], Gate[t]} :
              /\ \A o \in Senders \ {s} : tx'[o] = tx[o]
              /\ tx'[s].phase \in {"none", "sent"}
              /\ \/ tx'[s].phase = "none"
                 \/ tx'[s].op \in IF s = Refresher[t] THEN {"refresh"} ELSE {"login", "logout"}
    BY <1>0, <1>4, TabTx
  <2>2. PICK s \in {Refresher[t], Gate[t]} :
              /\ \A o \in Senders \ {s} : tx'[o] = tx[o]
              /\ tx'[s].phase \in {"none", "sent"}
              /\ \/ tx'[s].phase = "none"
                 \/ tx'[s].op \in IF s = Refresher[t] THEN {"refresh"} ELSE {"login", "logout"}
    BY <2>1
  <2>3. \A o \in Senders \ OfSide : tx'[o].phase = "none"
    BY <1>4, <2>2 DEF SidesApart, OfSide
  <2>4. ASSUME NEW u \in Tabs
        PROVE  /\ InFlight(Refresher[u])' => tx'[Refresher[u]].op = "refresh"
               /\ InFlight(Gate[u])' => tx'[Gate[u]].op \in {"login", "logout"}
    <3>1. Refresher[t] # Gate[u] /\ Gate[t] # Refresher[u] /\ Refresher[t] # Gate[t]
      BY TabsAssumption
    <3> QED BY <1>1, <1>4, <2>2, <3>1 DEF SidesApart, InFlight
  <2> QED BY <1>0, <2>3, <2>4 DEF SidesApart
<1>5. CASE LockAges \/ UNCHANGED vars
  <2>1. tx' = tx BY <1>5 DEF LockAges, vars, server
  <2> QED BY <1>0, <2>1 DEF SidesApart, InFlight
<1> QED BY <1>2, <1>3, <1>4, <1>5, Steps

(* A request that may be sent while no token is used twice.                *)
Sendable(op, t) ==
  op # "login" /\ t # 0 =>
    /\ \A o \in Senders : ~ Holding(o, t) /\ (Asks(o, t) => tx[o].op # "refresh")
    /\ op = "refresh" => Untouched(t)

LEMMA SendClean ==
  ASSUME ServerInv, ServerClean, NEW s \in Senders, NEW op \in Ops, NEW token \in 0..Len(rows),
         Send(s, op, token), Sendable(op, token)
  PROVE  ServerClean'
<1>1. /\ rows' = rows /\ DOMAIN rows = 1..Len(rows)
      /\ \A o \in Senders \ {s} : tx'[o] = tx[o]
      /\ tx'[s].phase = "sent" /\ tx'[s].op = op /\ tx'[s].token = token
  BY SendTx, Tables
<1>2. NotReused' BY <1>1 DEF ServerClean, NotReused
<1>3. ASSUME NEW o \in Senders, NEW t \in DOMAIN rows
      PROVE  /\ Asks(o, t)' <=> \/ o # s /\ Asks(o, t)
                                \/ o = s /\ op # "login" /\ t = token
             /\ Holding(o, t)' <=> o # s /\ Holding(o, t)
             /\ UsedUp(t)' <=> UsedUp(t)
             /\ t # 0
  BY <1>1 DEF Asks, Holding, UsedUp
<1>4. Presented'
  <2> SUFFICES ASSUME NEW o \in Senders, NEW t \in DOMAIN rows, Asks(o, t)', tx'[o].op = "refresh"
               PROVE  ~ UsedUp(t)' /\ \A q \in Senders \ {o} : ~ Asks(q, t)'
    BY <1>1 DEF Presented
  <2>1. CASE o = s
    BY <1>1, <1>3, <2>1 DEF Sendable, Untouched
  <2>2. CASE o # s
    BY <1>1, <1>3, <2>2 DEF Sendable, ServerClean, Presented
  <2> QED BY <2>1, <2>2
<1>5. Fresh'
  BY <1>1, <1>3 DEF Sendable, ServerClean, Fresh
<1> QED BY <1>2, <1>4, <1>5 DEF ServerClean

LEMMA TakenClean ==
  ASSUME ServerInv, ServerClean, NEW s \in Senders, Taken(s)
  PROVE  ServerClean'
<1>1. /\ rows' = rows
      /\ \A o \in Senders \ {s} : tx'[o] = tx[o]
      /\ tx'[s].phase = "none"
  BY TakenTx
<1>2. NotReused' BY <1>1 DEF ServerClean, NotReused
<1>3. ASSUME NEW o \in Senders, NEW t \in DOMAIN rows
      PROVE  /\ Asks(o, t)' <=> o # s /\ Asks(o, t)
             /\ Holding(o, t)' <=> o # s /\ Holding(o, t)
             /\ UsedUp(t)' <=> UsedUp(t)
  BY <1>1 DEF Asks, Holding, UsedUp
<1>4. Presented' BY <1>1, <1>3 DEF ServerClean, Presented
<1>5. Fresh' BY <1>1, <1>3 DEF ServerClean, Fresh
<1> QED BY <1>2, <1>4, <1>5 DEF ServerClean

LEMMA StillClean ==
  ASSUME ServerClean, UNCHANGED server
  PROVE  ServerClean'
BY DEF server, ServerClean, Presented, Fresh, NotReused, Asks, Holding, UsedUp

-----------------------------------------------------------------------------

(***************************************************************************)
(* The lock of the terminal.                                               *)
(***************************************************************************)

LEMMA TroubleGrows ==
  ASSUME [Next]_vars
  PROVE  trouble \subseteq trouble' /\ mishaps \subseteq mishaps'
<1>1. ASSUME LockAges \/ \E p \in Processes : Command(p) PROVE trouble \subseteq trouble'
  <2>1. CASE LockAges
    BY <2>1 DEF LockAges, Trouble
  <2>2. ASSUME NEW p \in Processes, Command(p) PROVE trouble \subseteq trouble'
    <3>1. CASE \/ NeedRenewal(p) \/ SignIn(p) \/ SignOut(p) \/ TryLock(p) \/ SeeStale(p)
               \/ Unlink(p) \/ GiveUp(p) \/ Release(p) \/ Unlock(p) \/ NothingToRenew(p)
               \/ Renew(p) \/ Unreached(p)
      <4>1. trouble' = trouble
        BY <3>1 DEF NeedRenewal, SignIn, SignOut, TryLock, SeeStale, Unlink, GiveUp, Release,
                    Unlock, NothingToRenew, Renew, Unreached
      <4> QED BY <4>1
    <3>2. CASE \/ SaveSignIn(p) \/ SendSignOut(p) \/ Save(p) \/ Forget(p) \/ Renewed(p)
               \/ RenewalRefused(p) \/ RenewalFailed(p) \/ AnswerLost(p) \/ SignedInAnswer(p)
               \/ SignInLost(p) \/ SignOutEnds(p) \/ Dropped(p)
      <4>1. trouble' = trouble
        BY <3>2 DEF SaveSignIn, SendSignOut, Save, Forget, Renewed, RenewalRefused, RenewalFailed,
                    AnswerLost, SignedInAnswer, SignInLost, SignOutEnds, Dropped
      <4> QED BY <4>1
    <3>3. CASE GatewayFails(p) \/ Crash(p)
      BY <3>3 DEF GatewayFails, Crash, Trouble
    <3> QED BY <2>2, <3>1, <3>2, <3>3 DEF Command
  <2> QED BY <1>1, <2>1, <2>2
<1>2. ASSUME NEW t \in Tabs, Tab(t) PROVE mishaps \subseteq mishaps'
  <2>1. CASE \/ LogIn(t) \/ Refreshed(t) \/ RefreshRefused(t) \/ RefreshFailed(t)
             \/ LoggedIn(t) \/ LoggedOut(t)
    <3>1. mishaps' = mishaps
      BY <2>1 DEF LogIn, Refreshed, RefreshRefused, RefreshFailed, LoggedIn, LoggedOut, browser
    <3> QED BY <3>1
  <2>2. CASE Refresh(t) \/ LogOut(t) \/ GateFailed(t) \/ Lost(t)
    BY <2>2 DEF Refresh, LogOut, GateFailed, Lost
  <2> QED BY <1>2, <2>1, <2>2 DEF Tab
<1>3. trouble' = trouble \/ LockAges \/ \E p \in Processes : Command(p)
  BY Steps DEF vars
<1>4. mishaps' = mishaps \/ \E t \in Tabs : Tab(t)
  BY Steps DEF vars, browser
<1> QED BY <1>1, <1>2, <1>3, <1>4

LEMMA OneInside ==
  ASSUME Exclusive, NEW p \in Processes, Inside(p)
  PROVE  /\ lock.owner = p
         /\ \A q \in Processes \ {p} : ~ Inside(q)
BY DEF Exclusive

LEMMA EndsFields ==
  ASSUME TerminalTypeOK, NEW p \in Processes, Ends(p)
  PROVE  /\ pc'[p] = "idle" /\ goal'[p] = "work" /\ mem'[p] = SignedOut
         /\ \A q \in Processes \ {p} : pc'[q] = pc[q] /\ goal'[q] = goal[q] /\ mem'[q] = mem[q]
BY DEF TerminalTypeOK, Ends, To

LEMMA ToFields ==
  ASSUME TerminalTypeOK, NEW p \in Processes, NEW place, To(p, place)
  PROVE  pc'[p] = place /\ \A q \in Processes \ {p} : pc'[q] = pc[q]
BY DEF TerminalTypeOK, To

Locked == Exclusive /\ FileHeld

(* Commands that stay outside of the lock.                                 *)
LEMMA OutsideLocked ==
  ASSUME TerminalTypeOK, Locked, NEW p \in Processes,
         \/ NeedRenewal(p) \/ SignIn(p) \/ SignOut(p) \/ SeeStale(p) \/ Unlink(p) \/ GiveUp(p)
         \/ SignedInAnswer(p) \/ SignInLost(p) \/ Dropped(p)
  PROVE  Locked'
<1>1. ~ SeeStale(p) /\ ~ Unlink(p)
  BY DEF Locked, Exclusive, SeeStale, Stale, Unlink
<1>2. (lock' = lock /\ entry' = entry /\ ~ Inside(p)) \/ UNCHANGED terminal
  BY <1>1 DEF NeedRenewal, SignIn, SignOut, GiveUp, SignedInAnswer, SignInLost, Dropped, Start,
              terminal, Inside
<1>3. /\ \A q \in Processes \ {p} : pc'[q] = pc[q] /\ goal'[q] = goal[q]
      /\ \/ UNCHANGED terminal
         \/ pc'[p] \in {"idle", "acquire"}
         \/ pc'[p] = "signing" /\ goal'[p] = "login"
  <2>1. CASE NeedRenewal(p) \/ SignIn(p) \/ SignOut(p)
    BY <2>1, ToFields DEF NeedRenewal, SignIn, SignOut, Start, TerminalTypeOK
  <2>2. CASE GiveUp(p) \/ SignInLost(p)
    BY <2>2, EndsFields DEF GiveUp, SignInLost
  <2>3. CASE SignedInAnswer(p)
    BY <2>3, ToFields DEF SignedInAnswer
  <2>4. CASE Dropped(p)
    BY <2>4 DEF Dropped, terminal
  <2> QED BY <1>1, <2>1, <2>2, <2>3, <2>4
<1>4. CASE UNCHANGED terminal
  BY <1>4 DEF Locked, Exclusive, FileHeld, Renewing, Inside, terminal
<1>5. CASE ~ UNCHANGED terminal
  <2>1. ~ Inside(p) /\ ~ Inside(p)' /\ pc'[p] # "unlink" BY <1>2, <1>3, <1>5 DEF Inside
  <2>2. \A q \in Processes \ {p} : Inside(q)' <=> Inside(q) BY <1>3 DEF Inside
  <2>3. Exclusive' BY <1>2, <1>3, <1>5, <2>1, <2>2 DEF Locked, Exclusive
  <2>4. FileHeld' BY <1>2, <1>3, <1>5 DEF Locked, FileHeld, Renewing
  <2> QED BY <2>3, <2>4 DEF Locked
<1> QED BY <1>4, <1>5

(* Commands that come into the lock, go on in it, or leave it.             *)
LEMMA InsideLocked ==
  ASSUME TerminalTypeOK, Locked, NEW p \in Processes,
         \/ TryLock(p) \/ Release(p) \/ Unlock(p) \/ NothingToRenew(p) \/ Renew(p) \/ Unreached(p)
         \/ SaveSignIn(p) \/ SendSignOut(p) \/ Save(p) \/ Forget(p) \/ Renewed(p)
         \/ RenewalRefused(p) \/ RenewalFailed(p) \/ AnswerLost(p) \/ SignOutEnds(p)
  PROVE  Locked'
<1>1. NoOne \notin Processes BY FileAssumption
<1>2. CASE TryLock(p)
  <2>1. /\ lock.owner = NoOne /\ lock'.owner = p /\ ~ lock'.stale
        /\ entry' = entry /\ goal' = goal
        /\ pc'[p] = "held" /\ \A q \in Processes \ {p} : pc'[q] = pc[q]
    BY <1>2, ToFields DEF TryLock, Free
  <2>2. \A q \in Processes : ~ Inside(q) BY <1>1, <2>1 DEF Locked, Exclusive
  <2>3. Exclusive' BY <2>1, <2>2 DEF Locked, Exclusive, Inside
  <2>4. FileHeld' BY <2>1 DEF Locked, FileHeld, Renewing
  <2> QED BY <2>3, <2>4 DEF Locked
<1>3. CASE ~ TryLock(p)
  <2>1. Inside(p)
    BY <1>3 DEF Release, Unlock, NothingToRenew, Renew, Unreached, SaveSignIn, SendSignOut, Save,
                Forget, Renewed, RenewalRefused, RenewalFailed, AnswerLost, SignOutEnds, Held,
                Waiting, Inside
  <2>2. lock.owner = p /\ \A q \in Processes \ {p} : ~ Inside(q) BY <2>1, OneInside DEF Locked
  <2>3. CASE Unlock(p)
    <3>1. /\ lock' = Free /\ entry' = entry /\ pc'[p] = "idle" /\ goal'[p] = "work"
          /\ \A q \in Processes \ {p} : pc'[q] = pc[q] /\ goal'[q] = goal[q]
      BY <2>3, EndsFields DEF Unlock
    <3>2. Exclusive'
      BY <1>1, <2>2, <3>1 DEF Locked, Exclusive, Inside, Free
    <3>3. FileHeld' BY <3>1 DEF Locked, FileHeld, Renewing
    <3> QED BY <3>2, <3>3 DEF Locked
  <2>4. CASE ~ Unlock(p)
    <3>1. lock' = lock /\ goal' = goal
      BY <1>3, <2>2, <2>4
         DEF Release, NothingToRenew, Renew, Unreached, SaveSignIn, SendSignOut, Save,
             Forget, Renewed, RenewalRefused, RenewalFailed, AnswerLost, SignOutEnds
    <3>2. /\ \A q \in Processes \ {p} : pc'[q] = pc[q]
          /\ pc'[p] \in {"waiting", "saving", "forgetting", "releasing", "unlocking"}
      BY <1>3, <2>2, <2>4, ToFields
         DEF Release, NothingToRenew, Renew, Unreached, SaveSignIn, SendSignOut, Save,
             Forget, Renewed, RenewalRefused, RenewalFailed, AnswerLost, SignOutEnds
    <3>3. Exclusive'
      BY <2>1, <2>2, <3>1, <3>2 DEF Locked, Exclusive, Inside
    <3>4. \A q \in Processes \ {p} : ~ Renewing(q)'
      BY <2>2, <3>1, <3>2 DEF Renewing, Inside
    <3>5. Renewing(p)' => entry'.refresh # 0
      <4>1. CASE Renew(p)
        BY <4>1 DEF Renew, ToRenew
      <4>2. CASE Renewed(p) \/ RenewalRefused(p) \/ AnswerLost(p)
        <5>1. Renewing(p) /\ entry' = entry
          BY <4>2 DEF Renewed, RenewalRefused, AnswerLost, Waiting, Renewing
        <5> QED BY <5>1 DEF Locked, FileHeld
      <4>3. CASE SaveSignIn(p)
        BY <3>1, <4>3 DEF SaveSignIn, Held, Renewing
      <4>4. CASE SendSignOut(p)
        BY <3>1, <4>4 DEF SendSignOut, Held, Renewing
      <4>5. CASE \/ Release(p) \/ NothingToRenew(p) \/ Unreached(p) \/ Save(p) \/ Forget(p)
                 \/ RenewalFailed(p) \/ SignOutEnds(p)
        <5>1. pc'[p] \in {"releasing", "unlocking", "forgetting"}
          BY <2>2, <4>5, ToFields DEF Release, NothingToRenew, Unreached, Save, Forget,
                                      RenewalFailed, SignOutEnds
        <5> QED BY <5>1 DEF Renewing
      <4> QED BY <1>3, <2>4, <4>1, <4>2, <4>3, <4>4, <4>5
    <3>6. goal'[p] = "logout" => pc'[p] \notin {"signing", "saving"}
      <4>1. CASE Renewed(p) \/ RenewalRefused(p) \/ AnswerLost(p) \/ SaveSignIn(p)
        BY <3>1, <4>1 DEF Renewed, RenewalRefused, AnswerLost, Waiting, SaveSignIn, Held
      <4>2. CASE ~ (Renewed(p) \/ RenewalRefused(p) \/ AnswerLost(p) \/ SaveSignIn(p))
        BY <1>3, <2>2, <2>4, <4>2, ToFields
           DEF Release, NothingToRenew, Renew, Unreached, SendSignOut, Save,
               Forget, RenewalFailed, SignOutEnds
      <4> QED BY <4>1, <4>2
    <3>7. FileHeld'
      BY <3>1, <3>2, <3>4, <3>5, <3>6 DEF Locked, FileHeld
    <3> QED BY <3>3, <3>7 DEF Locked
  <2> QED BY <2>3, <2>4
<1> QED BY <1>2, <1>3

(* Neither the age of the lock nor a crash leaves the terminal unhurried.  *)
LEMMA AgesLocked ==
  ASSUME TerminalTypeOK, Locked, LockAges
  PROVE  "slow" \in trouble'
<1>1. lock \in [owner : Processes \union {NoOne}, stale : BOOLEAN] BY DEF TerminalTypeOK
<1>2. lock.owner # NoOne
  <2>1. lock = [owner |-> lock.owner, stale |-> lock.stale] BY <1>1
  <2>2. lock # Free /\ lock.stale = FALSE BY <1>1 DEF LockAges
  <2> QED BY <2>1, <2>2 DEF Free
<1>3. Inside(lock.owner) BY <1>1, <1>2 DEF Locked, Exclusive
<1> QED BY <1>3 DEF LockAges, Trouble

LEMMA NextLocked ==
  ASSUME IInv, side = "terminal", Unhurried => Locked, [Next]_vars, Unhurried'
  PROVE  Locked'
<1>0. TerminalTypeOK /\ Locked
  BY TroubleGrows DEF IInv, Unhurried
<1>1. CASE LockAges
  BY <1>0, <1>1, AgesLocked DEF Unhurried
<1>2. CASE \E p \in Processes : Command(p)
  <2>1. PICK p \in Processes : Command(p) BY <1>2
  <2>2. ~ Crash(p) BY DEF Crash, Trouble, Unhurried
  <2>3. CASE GatewayFails(p)
    <3>1. /\ lock' = lock /\ goal' = goal /\ entry' = entry /\ Inside(p)
          /\ pc'[p] = "releasing" /\ \A q \in Processes \ {p} : pc'[q] = pc[q]
      BY <1>0, <2>3, ToFields DEF GatewayFails, Waiting, Inside
    <3>2. Exclusive' BY <1>0, <3>1 DEF Locked, Exclusive, Inside
    <3>3. FileHeld' BY <1>0, <3>1 DEF Locked, FileHeld, Renewing
    <3> QED BY <3>2, <3>3 DEF Locked
  <2> QED BY <1>0, <2>1, <2>2, <2>3, OutsideLocked, InsideLocked DEF Command
<1>3. CASE UNCHANGED terminal
  BY <1>0, <1>3 DEF Locked, Exclusive, FileHeld, Renewing, Inside, terminal
<1> QED BY <1>1, <1>2, <1>3, Steps DEF vars

-----------------------------------------------------------------------------

(***************************************************************************)
(* The tokens of the terminal.                                             *)
(***************************************************************************)

Pending == {"waiting", "saving", "forgetting"}

(* A command that asks for nothing and brings nothing new.                 *)
Quiet(p) ==
  /\ rows' = rows /\ entry' = entry
  /\ \A o \in Senders \ {p} : tx'[o] = tx[o]
  /\ \A t \in DOMAIN rows : (Asks(p, t)' => Asks(p, t)) /\ (Holding(p, t)' => Holding(p, t))
  /\ tx'[p] = tx[p] \/ tx'[p].phase = "none" \/ pc'[p] = "signing"
  /\ \A q \in Processes \ {p} : pc'[q] = pc[q] /\ goal'[q] = goal[q] /\ mem'[q] = mem[q]
  /\ \A t \in DOMAIN rows : Bringing(p, t)' => Bringing(p, t)
  /\ pc'[p] = "waiting" /\ goal'[p] = "work" => UNCHANGED <<tx, terminal>>
  /\ pc[p] \in Pending => pc'[p] \in Pending

LEMMA QuietClean ==
  ASSUME ServerInv, TerminalTypeOK, TerminalClean, NEW p \in Processes, Quiet(p)
  PROVE  TerminalClean'
<1>0. Processes \subseteq Senders BY FileAssumption
<1>1. ASSUME NEW o \in Senders, NEW t \in DOMAIN rows
      PROVE  (Asks(o, t)' => Asks(o, t)) /\ (Holding(o, t)' => Holding(o, t))
  BY <1>1 DEF Quiet, Asks, Holding
<1>2. ASSUME NEW t \in DOMAIN rows, Untouched(t) PROVE Untouched(t)'
  BY <1>1, <1>2 DEF Untouched, UsedUp, Quiet
<1>3. ASSUME NEW q \in Processes, NEW t \in DOMAIN rows, Bringing(q, t)' PROVE Bringing(q, t)
  BY <1>3 DEF Quiet, Bringing
<1>4. Brought'
  <2> SUFFICES ASSUME NEW q \in Processes, NEW t \in DOMAIN rows, Bringing(q, t)'
               PROVE  /\ Untouched(t)' /\ t # entry'.refresh /\ tx'[q].phase = "none"
                      /\ \A o \in Processes \ {q} : ~ Bringing(o, t)'
    BY DEF Brought, Quiet
  <2>1. Bringing(q, t) BY <1>3
  <2>2. /\ Untouched(t) /\ t # entry.refresh /\ tx[q].phase = "none"
        /\ \A o \in Processes \ {q} : ~ Bringing(o, t)
    BY <2>1 DEF TerminalClean, Brought
  <2>3. tx'[q].phase = "none"
    <3>1. pc'[q] # "signing" BY DEF Bringing
    <3> QED BY <1>0, <2>2, <3>1 DEF Quiet
  <2> QED BY <1>2, <1>3, <2>2, <2>3 DEF Quiet
<1>5. Asking'
  <2> SUFFICES ASSUME NEW q \in Processes, pc'[q] = "waiting", goal'[q] = "work"
               PROVE  /\ tx'[q].op = "refresh" /\ tx'[q].token = entry'.refresh
                      /\ tx'[q].phase # "none"
    BY DEF Asking
  <2>1. tx'[q] = tx[q] /\ pc[q] = "waiting" /\ goal[q] = "work" /\ entry' = entry
    <3>1. CASE q = p BY <3>1 DEF Quiet, terminal
    <3>2. CASE q # p BY <1>0, <3>2 DEF Quiet
    <3> QED BY <3>1, <3>2
  <2> QED BY <2>1 DEF TerminalClean, Asking
<1>6. FileClean'
  <2> SUFFICES ASSUME entry.refresh # 0
               PROVE  /\ \A s \in Senders : ~ Holding(s, entry.refresh)'
                      /\ \/ Untouched(entry.refresh)'
                         \/ \E q \in Processes : pc'[q] \in Pending
    BY DEF FileClean, Quiet, Pending
  <2>1. entry.refresh \in DOMAIN rows /\ entry' = entry
    BY Tables DEF TerminalTypeOK, SignInsKnown, Quiet
  <2>2. PICK t \in DOMAIN rows : t = entry.refresh BY <2>1
  <2>3. /\ \A s \in Senders : ~ Holding(s, t)
        /\ Untouched(t) \/ \E q \in Processes : pc[q] \in Pending
    BY <2>2 DEF TerminalClean, FileClean, Pending
  <2>4. (\E q \in Processes : pc[q] \in Pending) => \E q \in Processes : pc'[q] \in Pending
    BY DEF Quiet
  <2>5. /\ \A s \in Senders : ~ Holding(s, t)'
        /\ Untouched(t)' \/ \E q \in Processes : pc'[q] \in Pending
    BY <1>1, <1>2, <2>3, <2>4
  <2>6. t = entry'.refresh BY <2>1, <2>2
  <2> QED BY <2>5, <2>6, <2>1 DEF Untouched, Holding, Asks, UsedUp
<1> QED BY <1>4, <1>5, <1>6 DEF TerminalClean

LEMMA QuietCommands ==
  ASSUME ServerInv, TerminalTypeOK, NEW p \in Processes,
         \/ NeedRenewal(p) \/ SignIn(p) \/ SignOut(p) \/ TryLock(p) \/ GiveUp(p) \/ Release(p)
         \/ Unlock(p) \/ NothingToRenew(p) \/ Unreached(p) \/ SaveSignIn(p)
         \/ (SendSignOut(p) /\ entry.refresh = 0) \/ AnswerLost(p) \/ RenewalRefused(p)
         \/ SignInLost(p) \/ SignOutEnds(p) \/ Dropped(p)
  PROVE  Quiet(p)
<1>0. /\ p \in Senders /\ DOMAIN rows = 1..Len(rows) /\ Len(rows) \in Nat
      /\ 0 \notin DOMAIN rows /\ 0 \in 0..Len(rows)
  BY FileAssumption, Tables
<1>1. CASE SignIn(p)
  <2>1. /\ rows' = rows /\ \A o \in Senders \ {p} : tx'[o] = tx[o]
        /\ tx'[p].op = "login" /\ tx'[p].phase = "sent"
    BY <1>0, <1>1, SendTx DEF SignIn, Ops
  <2>2. /\ entry' = entry /\ mem' = mem /\ pc'[p] = "signing" /\ pc[p] = "idle"
        /\ \A q \in Processes \ {p} : pc'[q] = pc[q] /\ goal'[q] = goal[q]
    BY <1>1, ToFields DEF SignIn, Start, TerminalTypeOK
  <2> QED BY <2>1, <2>2 DEF Quiet, Asks, Holding, Bringing, Pending
<1>2. CASE Dropped(p) \/ RenewalRefused(p)
  <2>1. /\ rows' = rows /\ \A o \in Senders \ {p} : tx'[o] = tx[o]
        /\ tx'[p].phase = "none"
    BY <1>0, <1>2, TakenTx DEF Dropped, RenewalRefused, Reply
  <2>2. /\ entry' = entry /\ goal' = goal
        /\ \A q \in Processes \ {p} : pc'[q] = pc[q] /\ mem'[q] = mem[q]
        /\ \/ pc'[p] = pc[p] /\ mem'[p] = mem[p] /\ pc[p] # "waiting"
           \/ pc'[p] = "saving" /\ mem'[p].refresh = 0
    BY <1>2, ToFields DEF Dropped, terminal, RenewalRefused, Keep, SignedOut, TerminalTypeOK
  <2> QED BY <1>0, <2>1, <2>2 DEF Quiet, Asks, Holding, Bringing, Pending
<1>3. ASSUME UNCHANGED server, entry' = entry,
             \A q \in Processes \ {p} : pc'[q] = pc[q] /\ goal'[q] = goal[q] /\ mem'[q] = mem[q],
             \A t \in DOMAIN rows : Bringing(p, t)' => Bringing(p, t),
             pc'[p] # "waiting", pc[p] \in Pending => pc'[p] \in Pending
      PROVE  Quiet(p)
  BY <1>3 DEF Quiet, server, Asks, Holding
<1>4. CASE NeedRenewal(p) \/ SignOut(p)
  <2>1. /\ UNCHANGED server /\ entry' = entry /\ pc[p] = "idle" /\ pc'[p] = "acquire"
        /\ goal'[p] # "login"
        /\ \A q \in Processes \ {p} : pc'[q] = pc[q] /\ goal'[q] = goal[q] /\ mem'[q] = mem[q]
    BY <1>4, ToFields DEF NeedRenewal, SignOut, Start, TerminalTypeOK
  <2> QED BY <1>3, <2>1 DEF Bringing, Pending
<1>5. CASE GiveUp(p) \/ Unlock(p) \/ SignInLost(p) \/ (Release(p) /\ lock.owner # p)
  <2>1. /\ UNCHANGED server /\ entry' = entry
        /\ pc[p] \in {"acquire", "unlocking", "signing", "releasing"}
        /\ pc'[p] = "idle" /\ goal'[p] # "login"
        /\ \A q \in Processes \ {p} : pc'[q] = pc[q] /\ goal'[q] = goal[q] /\ mem'[q] = mem[q]
    BY <1>5, EndsFields DEF GiveUp, Unlock, SignInLost, Release
  <2> QED BY <1>3, <2>1 DEF Bringing, Pending
<1>6. CASE \/ TryLock(p) \/ (Release(p) /\ lock.owner = p) \/ NothingToRenew(p) \/ Unreached(p)
           \/ SaveSignIn(p) \/ (SendSignOut(p) /\ entry.refresh = 0) \/ SignOutEnds(p)
  <2>1. /\ UNCHANGED server /\ entry' = entry /\ goal' = goal /\ mem' = mem
        /\ \A q \in Processes \ {p} : pc'[q] = pc[q]
        /\ \/ pc[p] = "acquire" /\ pc'[p] = "held"
           \/ pc[p] \in {"held", "releasing"} /\ pc'[p] \in {"releasing", "unlocking", "forgetting"}
           \/ pc[p] = "held" /\ goal[p] = "login" /\ pc'[p] = "saving"
           \/ pc'[p] = "forgetting"
    BY <1>6, ToFields DEF TryLock, Release, NothingToRenew, Unreached, SaveSignIn, SendSignOut,
                          SignOutEnds, Held
  <2> QED BY <1>3, <2>1 DEF Bringing, Pending
<1>7. CASE AnswerLost(p)
  <2>1. /\ UNCHANGED server /\ entry' = entry /\ goal' = goal /\ pc'[p] = "saving"
        /\ \A q \in Processes \ {p} : pc'[q] = pc[q] /\ mem'[q] = mem[q]
    BY <1>7, ToFields DEF AnswerLost, Keep, TerminalTypeOK
  <2>2. mem'[p].refresh = 0
    <3>1. mem'[p] = AfterLoss(mem[p]) /\ mem[p] \in SignInsKnown
      BY <1>7 DEF AnswerLost, Keep, TerminalTypeOK
    <3> QED BY <3>1 DEF AfterLoss, SignInsKnown
  <2> QED BY <1>0, <1>3, <2>1, <2>2 DEF Bringing, Pending
<1> QED BY <1>1, <1>2, <1>4, <1>5, <1>6, <1>7

(* What the file and the commands at work rely on.                         *)
Relied == ServerInv /\ TerminalTypeOK /\ Locked /\ ServerClean /\ TerminalClean

(* A command with the lock finds the token in the file good.               *)
LEMMA HeldToken ==
  ASSUME Relied, NEW p \in Processes, pc[p] = "held", entry.refresh # 0
  PROVE  entry.refresh \in DOMAIN rows /\ Untouched(entry.refresh)
<1>1. entry.refresh \in DOMAIN rows
  BY Tables DEF Relied, TerminalTypeOK, SignInsKnown
<1>2. \A q \in Processes : pc[q] \notin Pending
  BY OneInside DEF Relied, Locked, Inside, Pending
<1> QED BY <1>1, <1>2 DEF Relied, TerminalClean, FileClean, Pending

(* The token in the file is presented, to be renewed or to be revoked.     *)
LEMMA PresentClean ==
  ASSUME Relied, NEW p \in Processes,
         Renew(p) \/ (SendSignOut(p) /\ entry.refresh # 0)
  PROVE  ServerClean' /\ TerminalClean'
<1>0. /\ p \in Senders /\ Processes \subseteq Senders /\ pc[p] = "held" /\ entry.refresh # 0
      /\ ServerInv /\ TerminalTypeOK /\ ServerClean
  BY FileAssumption DEF Renew, ToRenew, SendSignOut, Held, Relied
<1>1. PICK e \in DOMAIN rows : e = entry.refresh BY <1>0, HeldToken
<1>2. Untouched(e) BY <1>0, <1>1, HeldToken
<1>3. PICK op \in {"refresh", "logout"} :
        /\ Send(p, op, e)
        /\ \/ op = "refresh" /\ mem' = [mem EXCEPT ![p] = entry]
           \/ goal[p] = "logout" /\ mem' = mem
        /\ To(p, "waiting") /\ UNCHANGED <<entry, lock, goal>>
  BY <1>0, <1>1 DEF Renew, ToRenew, SendSignOut, Held
<1>4. e \in 0..Len(rows) /\ op \in Ops /\ e \in Nat BY <1>0, Tables DEF Ops
<1>5. /\ rows' = rows /\ \A o \in Senders \ {p} : tx'[o] = tx[o]
      /\ tx'[p].phase = "sent" /\ tx'[p].op = op /\ tx'[p].token = e /\ tx[p].phase = "none"
  BY <1>0, <1>3, <1>4, SendTx
<1>6. ServerClean'
  <2>1. Sendable(op, e) BY <1>2 DEF Sendable, Untouched
  <2> QED BY <1>0, <1>3, <1>4, <2>1, SendClean
<1>7. /\ pc'[p] = "waiting" /\ \A q \in Processes \ {p} : pc'[q] = pc[q] /\ mem'[q] = mem[q]
      /\ goal' = goal /\ entry' = entry
  BY <1>0, <1>3, ToFields DEF TerminalTypeOK
<1>8. ASSUME NEW q \in Processes, NEW t \in DOMAIN rows, Bringing(q, t)'
      PROVE  q # p /\ Bringing(q, t)
  BY <1>7, <1>8 DEF Bringing
<1>9. ASSUME NEW t \in DOMAIN rows, t # e, Untouched(t) PROVE Untouched(t)'
  BY <1>5, <1>9 DEF Untouched, Asks, Holding, UsedUp
<1>10. Brought'
  BY <1>0, <1>1, <1>5, <1>7, <1>8, <1>9 DEF Relied, TerminalClean, Brought
<1>11. Asking'
  <2>1. \A q \in Processes \ {p} : pc[q] # "waiting"
    BY <1>0, OneInside DEF Relied, Locked, Inside
  <2>2. goal[p] = "logout" \/ op = "refresh" BY <1>3
  <2> QED BY <1>1, <1>5, <1>7, <2>1, <2>2 DEF Asking
<1>12. FileClean'
  <2>1. \A s \in Senders : ~ Holding(s, e)' BY <1>2, <1>5 DEF Untouched, Holding
  <2>2. e = entry'.refresh BY <1>1, <1>7
  <2> QED BY <1>5, <1>7, <2>1, <2>2 DEF FileClean, Holding
<1> QED BY <1>6, <1>10, <1>11, <1>12 DEF TerminalClean

(* The file takes what was brought, or nothing.                            *)
LEMMA WriteClean ==
  ASSUME Relied, NEW p \in Processes, Save(p) \/ Forget(p)
  PROVE  ServerClean' /\ TerminalClean'
<1>0. /\ Processes \subseteq Senders /\ UNCHANGED server /\ rows' = rows /\ tx' = tx
      /\ ServerInv /\ TerminalTypeOK /\ ServerClean
  BY FileAssumption DEF Save, Forget, server, Relied
<1>1. ServerClean' BY <1>0, StillClean
<1>2. /\ pc[p] \in {"saving", "forgetting"} /\ pc'[p] = "releasing"
      /\ \A q \in Processes \ {p} : pc'[q] = pc[q]
      /\ goal' = goal /\ mem' = mem
      /\ entry'.refresh = 0 \/ (pc[p] = "saving" /\ entry'.refresh = mem[p].refresh)
  BY <1>0, ToFields DEF Save, Forget, SignedOut
<1>3. PICK e : e = entry'.refresh OBVIOUS
<1>4. e = 0 \/ (e \in DOMAIN rows /\ Bringing(p, e))
  BY <1>0, <1>2, <1>3, Tables DEF Bringing, TerminalTypeOK, SignInsKnown
<1>5. ASSUME NEW q \in Processes, NEW t \in DOMAIN rows, Bringing(q, t)'
      PROVE  q # p /\ Bringing(q, t)
  BY <1>2, <1>5 DEF Bringing
<1>6. \A t \in DOMAIN rows : t # 0 BY <1>0, Tables
<1>7. \A t \in DOMAIN rows : Untouched(t) => Untouched(t)'
  BY <1>0 DEF Untouched, Asks, Holding, UsedUp
<1>8. Brought'
  BY <1>0, <1>3, <1>4, <1>5, <1>6, <1>7 DEF Relied, TerminalClean, Brought
<1>9. Asking'
  <2>1. \A q \in Processes \ {p} : pc[q] # "waiting"
    BY <1>2, OneInside DEF Relied, Locked, Inside
  <2> QED BY <1>2, <2>1 DEF Asking
<1>10. FileClean'
  <2> SUFFICES ASSUME e # 0
               PROVE  (\A s \in Senders : ~ Holding(s, e)') /\ Untouched(e)'
    BY <1>0, <1>3 DEF FileClean, Untouched, Holding, Asks, UsedUp
  <2>1. e \in DOMAIN rows /\ Untouched(e)
    BY <1>4 DEF Relied, TerminalClean, Brought
  <2>2. Untouched(e)' BY <1>7, <2>1
  <2> QED BY <1>0, <2>1, <2>2 DEF Untouched, Holding
<1> QED BY <1>1, <1>8, <1>9, <1>10 DEF TerminalClean

(* A new token is taken from the answer.                                   *)
LEMMA ObtainClean ==
  ASSUME Relied, NEW p \in Processes, Renewed(p) \/ SignedInAnswer(p)
  PROVE  ServerClean' /\ TerminalClean'
<1>0. /\ p \in Senders /\ Processes \subseteq Senders
      /\ Taken(p) /\ tx[p].phase = "answered" /\ tx[p].answer = "ok"
      /\ ServerInv /\ TerminalTypeOK /\ ServerClean
  BY FileAssumption DEF Renewed, SignedInAnswer, Reply, Relied
<1>1. ServerClean' BY <1>0, TakenClean
<1>2. PICK f : f = tx[p].fresh OBVIOUS
<1>3. /\ rows' = rows /\ \A o \in Senders \ {p} : tx'[o] = tx[o]
      /\ tx'[p].phase = "none"
  BY <1>0, TakenTx
<1>4. /\ pc'[p] \in {"saving", "acquire"} /\ \A q \in Processes \ {p} : pc'[q] = pc[q]
      /\ \A q \in Processes \ {p} : mem'[q] = mem[q]
      /\ goal' = goal /\ entry' = entry /\ mem'[p].refresh \in {0, f}
      /\ pc[p] \in Pending => pc'[p] \in Pending
  <2>1. CASE Renewed(p)
    <3>1. PICK parts \in SUBSET {"refresh", "access"} :
            mem' = [mem EXCEPT ![p] =
                      [k \in {"refresh", "access"} |-> IF k \in parts THEN f ELSE 0]]
      BY <1>2, <2>1 DEF Renewed, Keep
    <3>2. mem'[p] = [k \in {"refresh", "access"} |-> IF k \in parts THEN f ELSE 0]
      BY <1>0, <3>1 DEF TerminalTypeOK
    <3>3. mem'[p].refresh \in {0, f} BY <3>2
    <3>4. \A q \in Processes \ {p} : mem'[q] = mem[q] BY <1>0, <3>1 DEF TerminalTypeOK
    <3> QED BY <1>0, <2>1, <3>3, <3>4, ToFields DEF Renewed, Pending
  <2>2. CASE SignedInAnswer(p)
    <3>1. mem'[p] = [refresh |-> f, access |-> f] /\ \A q \in Processes \ {p} : mem'[q] = mem[q]
      BY <1>0, <1>2, <2>2 DEF SignedInAnswer, Keep, TerminalTypeOK
    <3> QED BY <1>0, <2>2, <3>1, ToFields DEF SignedInAnswer, Pending
  <2> QED BY <2>1, <2>2
<1>5. ASSUME NEW o \in Senders, NEW t \in DOMAIN rows
      PROVE  /\ Asks(o, t)' => Asks(o, t)
             /\ Holding(o, t)' => o # p /\ Holding(o, t)
  BY <1>3 DEF Asks, Holding
<1>6. \A t \in DOMAIN rows : Untouched(t) => Untouched(t)'
  BY <1>3, <1>5 DEF Untouched, UsedUp
<1>7. /\ \A t \in DOMAIN rows : t # 0
      /\ f \in DOMAIN rows => Holding(p, f)
      /\ entry.refresh = 0 \/ entry.refresh \in DOMAIN rows
  BY <1>0, <1>2, Tables DEF Holding, TerminalTypeOK, SignInsKnown
<1>8. ASSUME f \in DOMAIN rows
      PROVE  /\ Untouched(f)' /\ f # entry.refresh
             /\ \A q \in Processes : ~ Bringing(q, f)
  <2>1. Holding(p, f) BY <1>7, <1>8
  <2>2. /\ ~ UsedUp(f) /\ \A o \in Senders : ~ Asks(o, f)
        /\ \A o \in Senders \ {p} : ~ Holding(o, f)
    BY <1>0, <1>8, <2>1 DEF ServerClean, Fresh
  <2>3. Untouched(f)' BY <1>3, <1>5, <1>8, <2>2 DEF Untouched, UsedUp
  <2>4. f # entry.refresh
    BY <1>0, <1>7, <1>8, <2>1 DEF Relied, TerminalClean, FileClean
  <2>5. \A q \in Processes : ~ Bringing(q, f)
    BY <1>0, <1>8, <2>1 DEF Relied, TerminalClean, Brought, Untouched
  <2> QED BY <2>3, <2>4, <2>5
<1>9. ASSUME NEW q \in Processes, NEW t \in DOMAIN rows, Bringing(q, t)'
      PROVE  (q = p /\ t = f) \/ (q # p /\ Bringing(q, t))
  <2>1. CASE q = p
    BY <1>4, <1>7, <1>9, <2>1 DEF Bringing
  <2>2. CASE q # p
    BY <1>4, <1>9, <2>2 DEF Bringing
  <2> QED BY <2>1, <2>2
<1>10. Brought'
  <2> SUFFICES ASSUME NEW q \in Processes, NEW t \in DOMAIN rows, Bringing(q, t)'
               PROVE  /\ Untouched(t)' /\ t # entry.refresh /\ tx'[q].phase = "none"
                      /\ \A o \in Processes \ {q} : ~ Bringing(o, t)'
    BY <1>3, <1>4 DEF Brought
  <2>1. CASE q = p
    <3>1. t = f BY <1>9, <2>1
    <3> QED BY <1>3, <1>8, <1>9, <2>1, <3>1
  <2>2. CASE q # p
    <3>1. Bringing(q, t) BY <1>9, <2>2
    <3>2. /\ Untouched(t) /\ t # entry.refresh /\ tx[q].phase = "none"
          /\ \A o \in Processes \ {q} : ~ Bringing(o, t)
      BY <3>1 DEF Relied, TerminalClean, Brought
    <3>3. t # f BY <1>8, <3>1
    <3> QED BY <1>0, <1>3, <1>6, <1>9, <2>2, <3>2, <3>3
  <2> QED BY <2>1, <2>2
<1>11. Asking'
  <2> SUFFICES ASSUME NEW q \in Processes, pc'[q] = "waiting", goal'[q] = "work"
               PROVE  /\ tx'[q].op = "refresh" /\ tx'[q].token = entry'.refresh
                      /\ tx'[q].phase # "none"
    BY DEF Asking
  <2>1. q # p BY <1>4
  <2> QED BY <1>0, <1>3, <1>4, <2>1 DEF Relied, TerminalClean, Asking
<1>12. FileClean'
  <2> SUFFICES ASSUME entry.refresh # 0
               PROVE  /\ \A s \in Senders : ~ Holding(s, entry.refresh)'
                      /\ \/ Untouched(entry.refresh)'
                         \/ \E q \in Processes : pc'[q] \in Pending
    BY <1>4 DEF FileClean, Pending
  <2>1. PICK e \in DOMAIN rows : e = entry.refresh BY <1>7
  <2>2. /\ \A s \in Senders : ~ Holding(s, e)
        /\ Untouched(e) \/ \E q \in Processes : pc[q] \in Pending
    BY <2>1 DEF Relied, TerminalClean, FileClean, Pending
  <2>3. (\E q \in Processes : pc[q] \in Pending) => \E q \in Processes : pc'[q] \in Pending
    BY <1>4
  <2>4. /\ \A s \in Senders : ~ Holding(s, e)'
        /\ Untouched(e)' \/ \E q \in Processes : pc'[q] \in Pending
    BY <1>5, <1>6, <2>2, <2>3
  <2>5. e = entry'.refresh BY <1>4, <2>1
  <2> QED BY <1>4, <2>4, <2>5, <2>1 DEF Untouched, Holding, Asks, UsedUp
<1> QED BY <1>1, <1>10, <1>11, <1>12 DEF TerminalClean

(* A renewal that fails leaves the token in the file as good as it was.    *)
LEMMA FailClean ==
  ASSUME Relied, NEW p \in Processes, RenewalFailed(p)
  PROVE  ServerClean' /\ TerminalClean'
<1>0. /\ p \in Senders /\ Processes \subseteq Senders
      /\ Taken(p) /\ tx[p].phase = "answered" /\ tx[p].answer = "failed"
      /\ pc[p] = "waiting" /\ goal[p] = "work"
      /\ ServerInv /\ TerminalTypeOK /\ ServerClean
  BY FileAssumption DEF RenewalFailed, Waiting, Reply, Relied
<1>1. ServerClean' BY <1>0, TakenClean
<1>2. /\ rows' = rows /\ \A o \in Senders \ {p} : tx'[o] = tx[o]
      /\ tx'[p].phase = "none"
  BY <1>0, TakenTx
<1>3. /\ pc'[p] = "releasing" /\ \A q \in Processes \ {p} : pc'[q] = pc[q]
      /\ goal' = goal /\ entry' = entry /\ mem' = mem
  BY <1>0, ToFields DEF RenewalFailed
<1>4. ASSUME NEW o \in Senders, NEW t \in DOMAIN rows
      PROVE  /\ Asks(o, t)' => o # p /\ Asks(o, t)
             /\ Holding(o, t)' => Holding(o, t)
  BY <1>2 DEF Asks, Holding
<1>5. \A t \in DOMAIN rows : Untouched(t) => Untouched(t)'
  BY <1>2, <1>4 DEF Untouched, UsedUp
<1>6. Brought'
  BY <1>0, <1>2, <1>3, <1>5 DEF Relied, TerminalClean, Brought, Bringing
<1>7. Asking'
  <2>1. \A q \in Processes \ {p} : pc[q] # "waiting"
    BY <1>0, OneInside DEF Relied, Locked, Inside
  <2> QED BY <1>3, <2>1 DEF Asking
<1>8. FileClean'
  <2> SUFFICES ASSUME entry.refresh # 0
               PROVE  /\ \A s \in Senders : ~ Holding(s, entry.refresh)'
                      /\ Untouched(entry.refresh)'
    BY <1>3 DEF FileClean
  <2>1. PICK e \in DOMAIN rows : e = entry.refresh
    BY <1>0, Tables DEF TerminalTypeOK, SignInsKnown
  <2>2. tx[p].op = "refresh" /\ tx[p].token = e
    BY <1>0, <2>1 DEF Relied, TerminalClean, Asking
  <2>3. Asks(p, e) BY <1>0, <2>2 DEF Asks
  <2>4. ~ UsedUp(e) /\ \A o \in Senders \ {p} : ~ Asks(o, e)
    BY <1>0, <2>2, <2>3 DEF ServerClean, Presented
  <2>5. \A s \in Senders : ~ Holding(s, e)
    BY <2>1 DEF Relied, TerminalClean, FileClean
  <2>6. (\A s \in Senders : ~ Holding(s, e)') /\ Untouched(e)'
    BY <1>2, <1>4, <2>4, <2>5 DEF Untouched, UsedUp
  <2>7. e = entry'.refresh BY <1>3, <2>1
  <2> QED BY <1>3, <2>1, <2>6, <2>7 DEF Untouched, Holding, Asks, UsedUp
<1> QED BY <1>1, <1>6, <1>7, <1>8 DEF TerminalClean

(* The Studio at work beside the terminal.                                 *)
LEMMA ServeTerminal ==
  ASSUME Relied, NEW s \in Senders, Serve(s), UNCHANGED terminal
  PROVE  TerminalClean'
<1>0. /\ Processes \subseteq Senders
      /\ ServerInv /\ TerminalTypeOK /\ ServerClean
  BY FileAssumption DEF Relied
<1>1. Served(s) BY <1>0, CleanServes
<1>2. /\ \A o \in Senders \ {s} : tx'[o] = tx[o]
      /\ tx'[s].op = tx[s].op /\ tx'[s].token = tx[s].token
      /\ tx[s].phase # "none" /\ tx'[s].phase # "none"
  BY <1>0, ServeTx
<1>3. /\ entry' = entry /\ pc' = pc /\ goal' = goal /\ mem' = mem BY DEF terminal
<1>4. /\ DOMAIN rows = 1..Len(rows) /\ Len(rows) \in Nat
      /\ \A t \in DOMAIN rows : t \in Nat /\ t # 0
      /\ \A t \in DOMAIN rows' : t \in Nat /\ t # 0
  <2>1. rows' \in Seq(Row) BY <1>0, ServeKeeps DEF ServerInv, ServerTypeOK
  <2>2. DOMAIN rows' = 1..Len(rows') /\ Len(rows') \in Nat BY <2>1
  <2> QED BY <1>0, <2>2, Tables
<1>5. ASSUME NEW t \in DOMAIN rows, Untouched(t) PROVE Untouched(t)'
  <2>1. ~ UsedUp(t)' BY <1>1, <1>5 DEF Served, Untouched
  <2>2. ASSUME NEW o \in Senders PROVE ~ Asks(o, t)' /\ ~ Holding(o, t)'
    <3>1. CASE o = s BY <1>1, <1>4, <1>5, <3>1 DEF Served, Untouched
    <3>2. CASE o # s BY <1>2, <1>5, <3>2 DEF Untouched, Asks, Holding
    <3> QED BY <3>1, <3>2
  <2> QED BY <2>1, <2>2 DEF Untouched
<1>6. Brought'
  <2> SUFFICES ASSUME NEW p \in Processes, NEW t \in DOMAIN rows', Bringing(p, t)'
               PROVE  /\ Untouched(t)' /\ t # entry.refresh /\ tx'[p].phase = "none"
                      /\ \A q \in Processes \ {p} : ~ Bringing(q, t)'
    BY <1>3 DEF Brought
  <2>1. Bringing(p, t) BY <1>3 DEF Bringing
  <2>2. t \in DOMAIN rows
    <3>1. t \in 0..Len(rows) BY <1>0, <2>1 DEF Bringing, TerminalTypeOK, SignInsKnown
    <3> QED BY <1>4, <3>1
  <2>3. /\ Untouched(t) /\ t # entry.refresh /\ tx[p].phase = "none"
        /\ \A q \in Processes \ {p} : ~ Bringing(q, t)
    BY <2>1, <2>2 DEF Relied, TerminalClean, Brought
  <2>4. tx'[p].phase = "none" BY <1>0, <1>2, <2>3
  <2>5. \A q \in Processes \ {p} : ~ Bringing(q, t)' BY <1>3, <2>3 DEF Bringing
  <2> QED BY <1>5, <2>2, <2>3, <2>4, <2>5
<1>7. Asking'
  BY <1>0, <1>2, <1>3 DEF Relied, TerminalClean, Asking
<1>8. FileClean'
  <2> SUFFICES ASSUME entry.refresh # 0
               PROVE  /\ \A o \in Senders : ~ Holding(o, entry.refresh)'
                      /\ \/ Untouched(entry.refresh)'
                         \/ \E q \in Processes : pc'[q] \in Pending
    BY <1>3 DEF FileClean, Pending
  <2>1. PICK e \in DOMAIN rows : e = entry.refresh
    BY <1>0, <1>4 DEF TerminalTypeOK, SignInsKnown
  <2>2. /\ \A o \in Senders : ~ Holding(o, e)
        /\ Untouched(e) \/ \E q \in Processes : pc[q] \in Pending
    BY <2>1 DEF Relied, TerminalClean, FileClean, Pending
  <2>3. ASSUME NEW o \in Senders PROVE ~ Holding(o, e)'
    <3>1. CASE o = s BY <1>1, <1>4, <3>1 DEF Served
    <3>2. CASE o # s BY <1>2, <2>2, <3>2 DEF Holding
    <3> QED BY <3>1, <3>2
  <2>4. Untouched(e)' \/ \E q \in Processes : pc'[q] \in Pending
    BY <1>3, <1>5, <2>2
  <2>5. e = entry'.refresh BY <1>3, <2>1
  <2> QED BY <1>3, <2>1, <2>3, <2>4, <2>5 DEF Untouched, Holding, Asks, UsedUp
<1> QED BY <1>6, <1>7, <1>8 DEF TerminalClean

LEMMA CommandClean ==
  ASSUME Relied, NEW p \in Processes, Command(p), ~ GatewayFails(p), ~ Crash(p)
  PROVE  ServerClean' /\ TerminalClean'
<1>0. /\ p \in Senders /\ ServerInv /\ TerminalTypeOK /\ ServerClean /\ TerminalClean
      /\ 0 \in 0..Len(rows)
  BY FileAssumption, Tables DEF Relied
<1>1. ~ SeeStale(p) /\ ~ Unlink(p)
  BY DEF Relied, Locked, Exclusive, SeeStale, Stale, Unlink
<1>2. CASE \/ Renew(p) \/ (SendSignOut(p) /\ entry.refresh # 0) \/ Save(p) \/ Forget(p)
           \/ Renewed(p) \/ SignedInAnswer(p) \/ RenewalFailed(p)
  BY <1>2, PresentClean, WriteClean, ObtainClean, FailClean
<1>3. CASE \/ NeedRenewal(p) \/ SignIn(p) \/ SignOut(p) \/ TryLock(p) \/ GiveUp(p) \/ Release(p)
           \/ Unlock(p) \/ NothingToRenew(p) \/ Unreached(p) \/ SaveSignIn(p)
           \/ (SendSignOut(p) /\ entry.refresh = 0) \/ AnswerLost(p) \/ RenewalRefused(p)
           \/ SignInLost(p) \/ SignOutEnds(p) \/ Dropped(p)
  <2>1. TerminalClean' BY <1>0, <1>3, QuietCommands, QuietClean
  <2>2. CASE SignIn(p)
    <3>1. Send(p, "login", 0) /\ Sendable("login", 0) BY <2>2 DEF SignIn, Sendable
    <3>2. ServerClean' BY <1>0, <3>1, SendClean DEF Ops
    <3> QED BY <2>1, <3>2
  <2>3. CASE Dropped(p) \/ RenewalRefused(p)
    <3>1. Taken(p) BY <2>3 DEF Dropped, RenewalRefused, Reply
    <3> QED BY <1>0, <2>1, <3>1, TakenClean
  <2>4. CASE ~ SignIn(p) /\ ~ Dropped(p) /\ ~ RenewalRefused(p)
    <3>1. UNCHANGED server
      BY <1>3, <2>4 DEF NeedRenewal, SignOut, TryLock, GiveUp, Release, Unlock, NothingToRenew,
                        Unreached, SaveSignIn, SendSignOut, AnswerLost, SignInLost, SignOutEnds
    <3> QED BY <1>0, <2>1, <3>1, StillClean
  <2> QED BY <2>2, <2>3, <2>4
<1>4. \/ Renew(p) \/ (SendSignOut(p) /\ entry.refresh # 0) \/ Save(p) \/ Forget(p)
      \/ Renewed(p) \/ SignedInAnswer(p) \/ RenewalFailed(p)
      \/ NeedRenewal(p) \/ SignIn(p) \/ SignOut(p) \/ TryLock(p) \/ GiveUp(p) \/ Release(p)
      \/ Unlock(p) \/ NothingToRenew(p) \/ Unreached(p) \/ SaveSignIn(p)
      \/ (SendSignOut(p) /\ entry.refresh = 0) \/ AnswerLost(p) \/ RenewalRefused(p)
      \/ SignInLost(p) \/ SignOutEnds(p) \/ Dropped(p)
  BY <1>1, Zenon DEF Command
<1> QED BY <1>2, <1>3, <1>4

-----------------------------------------------------------------------------

(***************************************************************************)
(* The tokens of the browser.                                              *)
(***************************************************************************)

Browsed ==
  /\ ServerInv /\ BrowserTypeOK /\ SidesApart /\ side = "browser"
  /\ ServerClean /\ BrowserClean

(* A request in flight is a refresh of a tab, or its login or logout.      *)
LEMMA Flights ==
  ASSUME SidesApart, side = "browser", NEW s \in Senders, InFlight(s)
  PROVE  \E t \in Tabs : \/ s = Refresher[t] /\ tx[s].op = "refresh"
                         \/ s = Gate[t] /\ tx[s].op \in {"login", "logout"}
<1>1. s \in OfSide BY DEF SidesApart, InFlight
<1>2. PICK t \in Tabs : s = Refresher[t] \/ s = Gate[t] BY <1>1 DEF OfSide
<1> QED BY <1>2 DEF SidesApart

(* An answer is taken, and the jar is left alone, emptied or given the     *)
(* token of the answer.                                                    *)
LEMMA TakeBrowser ==
  ASSUME Browsed, NEW s \in Senders, Taken(s), InFlight(s),
         \/ cookie' = cookie /\ (\/ tx[s].op = "login" \/ tx[s].token # cookie
                                 \/ tx[s].op = "refresh" /\ Asks(s, cookie))
         \/ cookie' = 0
         \/ cookie' = tx[s].fresh /\ Holding(s, tx[s].fresh)
  PROVE  ServerClean' /\ BrowserClean'
<1>0. ServerInv /\ ServerClean /\ \A t \in Tabs : Refresher[t] \in Senders /\ Gate[t] \in Senders
  BY TabsAssumption DEF Browsed
<1>1. ServerClean' BY <1>0, TakenClean
<1>2. /\ rows' = rows /\ \A o \in Senders \ {s} : tx'[o] = tx[o]
      /\ tx'[s].phase = "none"
  BY <1>0, TakenTx
<1>3. ASSUME NEW o \in Senders PROVE InFlight(o)' => o # s /\ InFlight(o) /\ tx'[o] = tx[o]
  BY <1>2 DEF InFlight
<1>4. NoRefreshBesideLogout' /\ OneRefresh'
  BY <1>0, <1>3 DEF Browsed, BrowserClean, NoRefreshBesideLogout, OneRefresh
<1>5. ASSUME NEW c \in DOMAIN rows, c = cookie'
      PROVE  /\ \A o \in Senders : ~ Holding(o, c)'
             /\ (\A o \in Senders : InFlight(o)' /\ tx'[o].op # "login" => tx'[o].token # c) =>
                  ~ UsedUp(c)'
  <2>0. c # 0 /\ (UsedUp(c)' <=> UsedUp(c)) BY <1>0, <1>2, Tables DEF UsedUp
  <2>1. CASE cookie' = tx[s].fresh /\ Holding(s, tx[s].fresh)
    <3>1. ~ UsedUp(c) /\ \A o \in Senders \ {s} : ~ Holding(o, c)
      BY <1>0, <1>5, <2>1 DEF ServerClean, Fresh
    <3> QED BY <1>2, <2>0, <3>1 DEF Holding
  <2>2. CASE cookie' = cookie /\ (\/ tx[s].op = "login" \/ tx[s].token # cookie
                                  \/ tx[s].op = "refresh" /\ Asks(s, cookie))
    <3>1. /\ \A o \in Senders : ~ Holding(o, c)
          /\ (\A o \in Senders : InFlight(o) /\ tx[o].op # "login" => tx[o].token # c) =>
               ~ UsedUp(c)
      BY <1>5, <2>0, <2>2 DEF Browsed, BrowserClean, JarClean
    <3>2. \A o \in Senders : ~ Holding(o, c)' BY <1>2, <3>1 DEF Holding
    <3>3. CASE tx[s].op = "login" \/ tx[s].token # cookie
      <4>1. ASSUME \A o \in Senders : InFlight(o)' /\ tx'[o].op # "login" => tx'[o].token # c
            PROVE  \A o \in Senders : InFlight(o) /\ tx[o].op # "login" => tx[o].token # c
        BY <1>2, <1>5, <2>2, <3>3, <4>1 DEF InFlight
      <4> QED BY <2>0, <3>1, <3>2, <4>1
    <3>4. CASE tx[s].op = "refresh" /\ Asks(s, cookie)
      <4>1. ~ UsedUp(c) BY <1>0, <1>5, <2>2, <3>4 DEF ServerClean, Presented
      <4> QED BY <2>0, <3>2, <4>1
    <3> QED BY <2>2, <3>3, <3>4
  <2> QED BY <1>5, <2>0, <2>1, <2>2
<1>6. JarClean'
  <2> SUFFICES ASSUME cookie' # 0 PROVE JarClean' BY DEF JarClean
  <2>1. cookie' \in DOMAIN rows
    BY <1>0, Tables DEF Browsed, BrowserTypeOK, Holding
  <2>2. PICK c \in DOMAIN rows : c = cookie' BY <2>1
  <2> QED BY <1>5, <2>2 DEF JarClean, Holding, UsedUp
<1> QED BY <1>1, <1>4, <1>6 DEF BrowserClean

(* A request is sent: a login, a refresh alone or beside a login, or a     *)
(* logout beside no refresh.                                               *)
LEMMA SendBrowser ==
  ASSUME Browsed, NEW t \in Tabs, LogIn(t) \/ Refresh(t) \/ LogOut(t), mishaps' = {}
  PROVE  ServerClean' /\ BrowserClean'
<1>0. /\ ServerInv /\ ServerClean /\ SidesApart /\ side = "browser"
      /\ \A u \in Tabs : Refresher[u] \in Senders /\ Gate[u] \in Senders
      /\ \A u, v \in Tabs : Refresher[u] # Gate[v]
      /\ \A u, v \in Tabs : u # v => Refresher[u] # Refresher[v]
      /\ cookie \in 0..Len(rows) /\ 0 \in 0..Len(rows) /\ cookie' = cookie
      /\ cookie = 0 \/ cookie \in DOMAIN rows
  BY TabsAssumption, Tables DEF Browsed, BrowserTypeOK, LogIn, Refresh, LogOut, browser
<1>1. CASE LogIn(t)
  <2>1. Send(Gate[t], "login", 0) /\ Sendable("login", 0) BY <1>1 DEF LogIn, Sendable
  <2>2. ServerClean' BY <1>0, <2>1, SendClean DEF Ops
  <2>3. /\ rows' = rows /\ \A o \in Senders \ {Gate[t]} : tx'[o] = tx[o]
        /\ tx'[Gate[t]].op = "login" /\ tx'[Gate[t]].phase = "sent" /\ tx[Gate[t]].phase = "none"
    BY <1>0, <2>1, SendTx DEF Ops
  <2>4. NoRefreshBesideLogout' /\ OneRefresh'
    BY <1>0, <2>3 DEF Browsed, BrowserClean, NoRefreshBesideLogout, OneRefresh, InFlight
  <2>5. ASSUME \A o \in Senders : InFlight(o)' /\ tx'[o].op # "login" => tx'[o].token # cookie
        PROVE  \A o \in Senders : InFlight(o) /\ tx[o].op # "login" => tx[o].token # cookie
    BY <2>3, <2>5 DEF InFlight
  <2>6. JarClean'
    BY <1>0, <2>3, <2>5 DEF Browsed, BrowserClean, JarClean, Holding, UsedUp
  <2> QED BY <2>2, <2>4, <2>6 DEF BrowserClean
<1>2. CASE Refresh(t)
  <2>1. /\ \A v \in Tabs : ~ InFlight(Refresher[v])
        /\ \A v \in Tabs : InFlight(Gate[v]) => tx[Gate[v]].op # "logout"
    <3>1. /\ {"tabs" : u \in {v \in Tabs \ {t} : InFlight(Refresher[v])}} \subseteq mishaps'
          /\ {"late" : u \in {v \in Tabs : InFlight(Gate[v]) /\ tx[Gate[v]].op = "logout"}}
               \subseteq mishaps'
      BY <1>2 DEF Refresh
    <3>2. \A v \in Tabs \ {t} : ~ InFlight(Refresher[v]) BY <3>1
    <3>3. \A v \in Tabs : ~ (InFlight(Gate[v]) /\ tx[Gate[v]].op = "logout") BY <3>1
    <3> QED BY <1>2, <3>2, <3>3 DEF Refresh
  <2>2. \A o \in Senders : InFlight(o) => tx[o].op = "login"
    BY <1>0, <2>1, Flights
  <2>3. Sendable("refresh", cookie)
    <3> SUFFICES ASSUME cookie # 0 PROVE Untouched(cookie)
      BY DEF Sendable, Untouched
    <3>1. \A o \in Senders : ~ Asks(o, cookie) BY <2>2 DEF Asks, InFlight
    <3>2. ~ UsedUp(cookie) /\ \A o \in Senders : ~ Holding(o, cookie)
      BY <2>2 DEF Browsed, BrowserClean, JarClean
    <3> QED BY <3>1, <3>2 DEF Untouched
  <2>4. Send(Refresher[t], "refresh", cookie) BY <1>2 DEF Refresh
  <2>5. ServerClean' BY <1>0, <2>3, <2>4, SendClean DEF Ops
  <2>6. /\ rows' = rows /\ \A o \in Senders \ {Refresher[t]} : tx'[o] = tx[o]
        /\ tx'[Refresher[t]].op = "refresh" /\ tx'[Refresher[t]].phase = "sent"
        /\ tx'[Refresher[t]].token = cookie
    BY <1>0, <2>4, SendTx DEF Ops
  <2>7. NoRefreshBesideLogout' /\ OneRefresh'
    BY <1>0, <2>1, <2>6 DEF NoRefreshBesideLogout, OneRefresh, InFlight
  <2>8. InFlight(Refresher[t])' BY <2>6 DEF InFlight
  <2>9. JarClean'
    BY <1>0, <2>6, <2>8 DEF Browsed, BrowserClean, JarClean, Holding
  <2> QED BY <2>5, <2>7, <2>9 DEF BrowserClean
<1>3. CASE LogOut(t)
  <2>1. \A v \in Tabs : ~ InFlight(Refresher[v])
    <3>1. {"late" : u \in {v \in Tabs : InFlight(Refresher[v])}} \subseteq mishaps'
      BY <1>3 DEF LogOut
    <3> QED BY <3>1
  <2>2. \A o \in Senders : InFlight(o) => tx[o].op # "refresh"
    BY <1>0, <2>1, Flights
  <2>3. Sendable("logout", cookie)
    <3> SUFFICES ASSUME cookie # 0
                 PROVE  \A o \in Senders : /\ ~ Holding(o, cookie)
                                           /\ Asks(o, cookie) => tx[o].op # "refresh"
      BY DEF Sendable
    <3>1. \A o \in Senders : Asks(o, cookie) => tx[o].op # "refresh"
      BY <2>2 DEF Asks, InFlight
    <3>2. \A o \in Senders : ~ Holding(o, cookie)
      BY DEF Browsed, BrowserClean, JarClean
    <3> QED BY <3>1, <3>2
  <2>4. Send(Gate[t], "logout", cookie) BY <1>3 DEF LogOut
  <2>5. ServerClean' BY <1>0, <2>3, <2>4, SendClean DEF Ops
  <2>6. /\ rows' = rows /\ \A o \in Senders \ {Gate[t]} : tx'[o] = tx[o]
        /\ tx'[Gate[t]].op = "logout" /\ tx'[Gate[t]].phase = "sent"
        /\ tx'[Gate[t]].token = cookie
    BY <1>0, <2>4, SendTx DEF Ops
  <2>7. NoRefreshBesideLogout' /\ OneRefresh'
    BY <1>0, <2>1, <2>6 DEF NoRefreshBesideLogout, OneRefresh, InFlight
  <2>8. InFlight(Gate[t])' BY <2>6 DEF InFlight
  <2>9. JarClean'
    BY <1>0, <2>6, <2>8 DEF Browsed, BrowserClean, JarClean, Holding
  <2> QED BY <2>5, <2>7, <2>9 DEF BrowserClean
<1> QED BY <1>1, <1>2, <1>3

LEMMA TabClean ==
  ASSUME Browsed, NEW t \in Tabs, Tab(t), mishaps' = {}
  PROVE  ServerClean' /\ BrowserClean'
<1>0. /\ Refresher[t] \in Senders /\ Gate[t] \in Senders /\ SidesApart /\ side = "browser"
  BY TabsAssumption DEF Browsed
<1>1. CASE LogIn(t) \/ Refresh(t) \/ LogOut(t)
  BY <1>1, SendBrowser
<1>2. CASE Refreshed(t) \/ LoggedIn(t)
  <2>1. PICK s \in Senders : /\ Taken(s) /\ tx[s].phase = "answered" /\ tx[s].answer = "ok"
                             /\ cookie' = tx[s].fresh
    BY <1>0, <1>2 DEF Refreshed, LoggedIn, Got, Apply
  <2>2. InFlight(s) /\ Holding(s, tx[s].fresh) BY <2>1 DEF InFlight, Holding
  <2> QED BY <2>1, <2>2, TakeBrowser
<1>3. CASE RefreshRefused(t) \/ LoggedOut(t)
  <2>1. PICK s \in Senders : Taken(s) /\ tx[s].phase = "answered" /\ cookie' = 0
    BY <1>0, <1>3 DEF RefreshRefused, LoggedOut, Got
  <2>2. InFlight(s) BY <2>1 DEF InFlight
  <2> QED BY <2>1, <2>2, TakeBrowser
<1>4. CASE RefreshFailed(t)
  <2> DEFINE s == Refresher[t]
  <2>1. Taken(s) /\ tx[s].phase = "answered" /\ tx[s].answer = "failed" /\ cookie' = cookie
    BY <1>4 DEF RefreshFailed, Got
  <2>2. InFlight(s) BY <2>1 DEF InFlight
  <2>3. tx[s].op = "refresh" BY <1>0, <2>2 DEF SidesApart
  <2>4. tx[s].token = cookie => Asks(s, cookie) BY <2>1, <2>3 DEF Asks
  <2> HIDE DEF s
  <2>5. s \in Senders BY <1>0 DEF s
  <2> QED BY <2>1, <2>2, <2>3, <2>4, <2>5, TakeBrowser
<1>5. CASE GateFailed(t)
  <2> DEFINE s == Gate[t]
  <2>1. /\ Taken(s) /\ tx[s].phase = "answered" /\ cookie' = cookie
        /\ {"lost" : r \in Abandoned(s)} \subseteq mishaps'
    BY <1>5 DEF GateFailed, Got
  <2>2. InFlight(s) BY <2>1 DEF InFlight
  <2>3. tx[s].op \in {"login", "logout"} BY <1>0, <2>2 DEF SidesApart
  <2>4. Abandoned(s) = {} BY <2>1
  <2>5. tx[s].op = "login" \/ tx[s].token = 0
    <3>1. tx[s].op = "logout" /\ tx[s].token # 0 => rows[tx[s].token].family \in Abandoned(s)
      BY DEF Abandoned
    <3> QED BY <2>3, <2>4, <3>1
  <2> HIDE DEF s
  <2>6. s \in Senders BY <1>0 DEF s
  <2>7. CASE cookie = 0
    BY <2>1, <2>2, <2>6, <2>7, TakeBrowser
  <2>8. CASE cookie # 0
    BY <2>1, <2>2, <2>5, <2>6, <2>8, TakeBrowser
  <2> QED BY <2>7, <2>8
<1>6. ~ Lost(t) BY DEF Lost
<1> QED BY <1>1, <1>2, <1>3, <1>4, <1>5, <1>6 DEF Tab

(* The Studio at work beside the browser.                                  *)
LEMMA ServeBrowser ==
  ASSUME Browsed, NEW s \in Senders, Serve(s), UNCHANGED browser
  PROVE  BrowserClean'
<1>0. ServerInv /\ ServerClean /\ \A t \in Tabs : Refresher[t] \in Senders /\ Gate[t] \in Senders
  BY TabsAssumption DEF Browsed
<1>1. Served(s) /\ cookie' = cookie BY <1>0, CleanServes DEF browser
<1>2. /\ \A o \in Senders \ {s} : tx'[o] = tx[o]
      /\ tx'[s].op = tx[s].op /\ tx'[s].token = tx[s].token
      /\ tx[s].phase # "none" /\ tx'[s].phase # "none"
  BY <1>0, ServeTx
<1>3. \A o \in Senders : /\ InFlight(o)' <=> InFlight(o)
                         /\ tx'[o].op = tx[o].op /\ tx'[o].token = tx[o].token
  BY <1>2 DEF InFlight
<1>4. NoRefreshBesideLogout' /\ OneRefresh'
  BY <1>0, <1>3 DEF Browsed, BrowserClean, NoRefreshBesideLogout, OneRefresh
<1>5. JarClean'
  <2> SUFFICES ASSUME cookie # 0 PROVE JarClean' BY <1>1 DEF JarClean
  <2>1. PICK c \in DOMAIN rows : c = cookie /\ c \in Nat /\ c # 0
    BY <1>0, Tables DEF Browsed, BrowserTypeOK
  <2>2. /\ \A o \in Senders : ~ Holding(o, c)
        /\ (\A o \in Senders : InFlight(o) /\ tx[o].op # "login" => tx[o].token # c) => ~ UsedUp(c)
    BY <2>1 DEF Browsed, BrowserClean, JarClean
  <2>3. ASSUME NEW o \in Senders PROVE ~ Holding(o, c)'
    <3>1. CASE o = s BY <1>1, <2>1, <3>1 DEF Served
    <3>2. CASE o # s BY <1>2, <2>2, <3>2 DEF Holding
    <3> QED BY <3>1, <3>2
  <2>4. ASSUME \A o \in Senders : InFlight(o)' /\ tx'[o].op # "login" => tx'[o].token # c
        PROVE  ~ UsedUp(c)'
    <3>1. \A o \in Senders : InFlight(o) /\ tx[o].op # "login" => tx[o].token # c
      BY <1>3, <2>4
    <3>2. ~ Asks(s, c) BY <3>1 DEF Asks, InFlight
    <3> QED BY <1>1, <2>2, <3>1, <3>2 DEF Served
  <2> QED BY <1>1, <2>1, <2>3, <2>4 DEF JarClean, Holding, UsedUp
<1> QED BY <1>4, <1>5 DEF BrowserClean

-----------------------------------------------------------------------------

(***************************************************************************)
(* A sign-in that ends for reuse.                                          *)
(***************************************************************************)

LEMMA InitCause == Init => CauseInv
<1> SUFFICES ASSUME Init PROVE CauseInv OBVIOUS
<1>1. SidesApart BY InitApart
<1>2. /\ \A s \in Senders : tx[s].phase = "none"
      /\ DOMAIN rows = {}
      /\ entry.refresh = 0 /\ cookie = 0
      /\ lock = Free /\ \A p \in Processes : pc[p] = "idle"
  BY DEF Init, ServerInit, TerminalInit, BrowserInit, NoTx, SignedOut
<1>3. Exclusive /\ FileHeld
  BY <1>2, FileAssumption DEF Exclusive, FileHeld, Renewing, Inside, Free
<1>4. ServerClean BY <1>2 DEF ServerClean, Presented, Fresh, NotReused
<1>5. TerminalClean BY <1>2 DEF TerminalClean, Brought, Asking, FileClean
<1>6. BrowserClean
  BY <1>2, TabsAssumption DEF BrowserClean, NoRefreshBesideLogout, OneRefresh, JarClean, InFlight
<1> QED BY <1>1, <1>3, <1>4, <1>5, <1>6 DEF CauseInv

LEMMA NextCause ==
  ASSUME IInv, CauseInv, [Next]_vars
  PROVE  CauseInv'
<1>0. /\ ServerInv /\ TerminalTypeOK /\ BrowserTypeOK /\ SidesApart /\ side' = side
      /\ side \in {"terminal", "browser"}
  BY Steps DEF IInv, CauseInv, SidesApart
<1>1. SidesApart' BY <1>0, NextApart
<1>2. side = "terminal" /\ Unhurried' => Locked'
  BY NextLocked DEF CauseInv, Locked
<1>3. ASSUME Calm'
      PROVE  /\ ServerClean'
             /\ side = "terminal" => TerminalClean'
             /\ side = "browser" => BrowserClean'
  <2>1. Calm /\ Unhurried BY <1>3, TroubleGrows DEF Calm, Unhurried
  <2>2. ServerClean BY <2>1 DEF CauseInv
  <2>3. side = "terminal" => Relied BY <1>0, <2>1, <2>2 DEF CauseInv, Relied, Locked
  <2>4. side = "browser" => Browsed BY <1>0, <2>1, <2>2 DEF CauseInv, Browsed
  <2>5. CASE \E s \in Senders : Serve(s) /\ UNCHANGED <<terminal, trouble, browser>>
    <3>1. PICK s \in Senders : Serve(s) /\ UNCHANGED terminal /\ UNCHANGED browser BY <2>5
    <3> QED BY <1>0, <2>2, <2>3, <2>4, <3>1, ServeClean, ServeTerminal, ServeBrowser
  <2>6. CASE side = "terminal" /\ LockAges
    <3>1. "slow" \in trouble' BY <1>0, <2>3, <2>6, AgesLocked DEF Relied
    <3> QED BY <1>3, <3>1 DEF Calm
  <2>7. CASE side = "terminal" /\ \E p \in Processes : Command(p)
    <3>1. PICK p \in Processes : Command(p) BY <2>7
    <3>2. ~ GatewayFails(p) /\ ~ Crash(p)
      BY <1>3 DEF Calm, GatewayFails, Crash, Trouble
    <3>3. ServerClean' /\ TerminalClean' BY <2>3, <2>7, <3>1, <3>2, CommandClean
    <3> QED BY <2>7, <3>3
  <2>8. CASE side = "browser" /\ \E t \in Tabs : Tab(t)
    <3>1. mishaps' = {} BY <1>3 DEF Calm
    <3>2. ServerClean' /\ BrowserClean' BY <2>4, <2>8, <3>1, TabClean
    <3> QED BY <2>8, <3>2
  <2>9. CASE UNCHANGED vars
    <3>1. UNCHANGED <<rows, tx, entry, pc, goal, mem, cookie>>
      BY <2>9 DEF vars, server, terminal, browser
    <3>2. ServerClean' BY <2>2, <3>1, StillClean DEF server
    <3>3. TerminalClean => TerminalClean'
      BY <3>1 DEF TerminalClean, Brought, Bringing, Asking, FileClean, Untouched, UsedUp, Asks,
                  Holding
    <3>4. BrowserClean => BrowserClean'
      BY <3>1 DEF BrowserClean, NoRefreshBesideLogout, OneRefresh, JarClean, UsedUp, Holding,
                  InFlight
    <3> QED BY <2>3, <2>4, <3>2, <3>3, <3>4 DEF Relied, Browsed
  <2> QED BY <2>5, <2>6, <2>7, <2>8, <2>9, Steps
<1> QED BY <1>0, <1>1, <1>2, <1>3 DEF CauseInv, Locked

LEMMA CauseInvariant == Spec => [](IInv /\ CauseInv)
<1>1. Init => IInv /\ CauseInv BY InitIInv, InitCause
<1>2. IInv /\ CauseInv /\ [Next]_vars => (IInv /\ CauseInv)' BY NextIInv, NextCause
<1> QED BY <1>1, <1>2, PTL DEF Spec

(* ReuseHasACause, for any number of commands, tabs and tokens: as long as *)
(* no command crashes, no lock is taken from one at work and no proxy      *)
(* answers in the Studio's place, a terminal presents no token twice,      *)
(* whatever answers are lost or garbled; and a browser presents none twice *)
(* as long as no answer is lost, no two tabs refresh at once and no logout *)
(* meets a refresh.  The inductive invariant says who holds each token.    *)
THEOREM ReuseIsCaused == Spec => []ReuseHasACause
<1>1. CauseInv => ReuseHasACause
  BY DEF CauseInv, ReuseHasACause, Reused, Calm, ServerClean, NotReused
<1> QED BY <1>1, CauseInvariant, PTL

-----------------------------------------------------------------------------

(***************************************************************************)
(* A sign-out.                                                             *)
(***************************************************************************)

LEMMA Families ==
  ASSUME ServerInv
  PROVE  /\ Len(rows) \in Nat /\ DOMAIN rows = 1..Len(rows)
         /\ \A r \in DOMAIN rows : rows[r].family \in 1..Len(rows)
         /\ \A t \in 0..Len(rows) : t = 0 \/ t \in DOMAIN rows
         /\ Len(rows) + 1 \notin 0..Len(rows)
<1>1. Len(rows) \in Nat /\ DOMAIN rows = 1..Len(rows) BY Tables
<1>2. \A r \in DOMAIN rows : r \in 1..Len(rows) /\ rows[r].family \in 1..r BY RowType
<1>3. ASSUME NEW n \in Nat, NEW r \in 1..n, NEW f \in 1..r PROVE f \in 1..n OBVIOUS
<1>4. \A r \in DOMAIN rows : rows[r].family \in 1..Len(rows) BY <1>1, <1>2, <1>3
<1>5. \A t \in 0..Len(rows) : t = 0 \/ t \in DOMAIN rows BY <1>1
<1>6. Len(rows) + 1 \notin 0..Len(rows) BY <1>1
<1> QED BY <1>1, <1>4, <1>5, <1>6

(* What the Studio answers to a refresh is of the family presented, and to *)
(* a login of a family of its own.                                         *)
LEMMA ServeAnswers ==
  ASSUME ServerInv, NEW s \in Senders, Serve(s)
  PROVE  /\ \A r \in DOMAIN rows : r \in DOMAIN rows' /\ rows'[r].family = rows[r].family
         /\ \A r \in DOMAIN rows' \ DOMAIN rows :
              /\ r = Len(rows) + 1
              /\ \/ rows'[r].family = r
                 \/ /\ tx[s].token \in DOMAIN rows
                    /\ rows'[r].family = rows[tx[s].token].family
         /\ tx'[s].fresh \in {0, tx[s].fresh, Len(rows) + 1}
         /\ AnsweredOk(s, "refresh")' =>
              /\ tx'[s].token \in DOMAIN rows /\ tx'[s].fresh \in DOMAIN rows'
              /\ rows'[tx'[s].fresh].family = rows[tx'[s].token].family
         /\ AnsweredOk(s, "login")' =>
              /\ tx'[s].fresh = Len(rows) + 1 /\ Len(rows) + 1 \in DOMAIN rows'
              /\ rows'[Len(rows) + 1].family = Len(rows) + 1
<1>1. \A r \in DOMAIN rows : r \in DOMAIN rows' /\ rows'[r].family = rows[r].family
  BY ServeGrows DEF RowsGrow
<1>2. tx'[s].op = tx[s].op /\ tx'[s].token = tx[s].token BY ServeTx
<1>3. PICK n : n = Len(rows) + 1 OBVIOUS
<1>4. CASE Issue(s) \/ Rotate(s)
  <2>1. /\ DOMAIN rows' = 1..n
        /\ rows'[n] = Issued(IF Issue(s) THEN n ELSE rows[tx[s].token].family)
        /\ tx[s].op = IF Issue(s) THEN "login" ELSE "refresh"
    BY <1>3, <1>4, Appended
  <2>2. Answered(s, "ok", n) BY <1>3, <1>4 DEF Issue, Rotate
  <2>3. tx'[s].fresh = n BY <2>2, AnsweredTx
  <2>4. \A f : Issued(f).family = f BY DEF Issued
  <2>5. rows'[n].family = IF Issue(s) THEN n ELSE rows[tx[s].token].family
    BY <2>1, <2>4
  <2>6. n \in DOMAIN rows' /\ \A r \in DOMAIN rows' \ DOMAIN rows : r = n
    BY <1>3, <2>1, Families
  <2>7. ~ Issue(s) => tx[s].token \in DOMAIN rows
    BY <1>4, LockedToken DEF Rotate, Refreshing
  <2> QED BY <1>1, <1>2, <1>3, <2>1, <2>3, <2>5, <2>6, <2>7 DEF AnsweredOk
<1>5. CASE LockRow(s) \/ Detect(s)
  <2>1. rows' = rows /\ tx'[s].phase \in {"locked", "sweeping"} /\ tx'[s].fresh = tx[s].fresh
    BY <1>5, PhaseTx
  <2> QED BY <1>1, <2>1 DEF AnsweredOk
<1>6. CASE NoSuchToken(s) \/ Lapse(s) \/ Sweep(s) \/ RolledBack(s) \/ Revoke(s)
  <2>1. PICK answer \in {"ok", "refused", "failed"} :
          Answered(s, answer, 0) /\ (answer = "ok" => tx[s].op = "logout")
    BY <1>6 DEF NoSuchToken, Lapse, Sweep, RolledBack, Revoke
  <2>2. tx'[s].answer = answer /\ tx'[s].fresh = 0 BY <2>1, AnsweredTx
  <2>3. DOMAIN rows' = DOMAIN rows
    <3>1. CASE NoSuchToken(s) \/ RolledBack(s)
      BY <3>1 DEF NoSuchToken, RolledBack
    <3>2. CASE Sweep(s)
      BY <3>2 DEF Sweep
    <3>3. CASE Lapse(s) \/ Revoke(s)
      <4>1. rows' = rows \/ rows' = [rows EXCEPT ![tx[s].token].revoked = "over"]
        BY <3>3 DEF Lapse, Revoke
      <4>2. tx[s].token \in DOMAIN rows
        BY <3>3, LockedToken DEF Lapse, Revoke, Refreshing
      <4> QED BY <4>1, <4>2, OverRow
    <3> QED BY <1>6, <3>1, <3>2, <3>3
  <2>4. ~ AnsweredOk(s, "refresh")' /\ ~ AnsweredOk(s, "login")'
    BY <1>2, <2>1, <2>2 DEF AnsweredOk
  <2> QED BY <1>1, <2>2, <2>3, <2>4
<1> QED BY <1>4, <1>5, <1>6 DEF Serve

(* The families, as the clients leave them.                                *)
Filed == RefreshesInFamily /\ LeftKnown

LEMMA ServeFiled ==
  ASSUME ServerInv, Filed, NEW s \in Senders, Serve(s), UNCHANGED browser
  PROVE  Filed'
<1>1. /\ \A r \in DOMAIN rows : r \in DOMAIN rows' /\ rows'[r].family = rows[r].family
      /\ AnsweredOk(s, "refresh")' =>
              /\ tx'[s].token \in DOMAIN rows /\ tx'[s].fresh \in DOMAIN rows'
              /\ rows'[tx'[s].fresh].family = rows[tx'[s].token].family
  BY ServeAnswers
<1>2. \A o \in Senders \ {s} : tx'[o] = tx[o] BY ServeTx
<1>3. LeftKnown' BY <1>1 DEF Filed, LeftKnown, browser
<1>4. RefreshesInFamily'
  <2> SUFFICES ASSUME NEW o \in Senders, AnsweredOk(o, "refresh")'
               PROVE  /\ tx'[o].token \in DOMAIN rows' /\ tx'[o].fresh \in DOMAIN rows'
                      /\ rows'[tx'[o].fresh].family = rows'[tx'[o].token].family
    BY DEF RefreshesInFamily
  <2>1. CASE o = s BY <1>1, <2>1
  <2>2. CASE o # s
    <3>1. tx'[o] = tx[o] /\ AnsweredOk(o, "refresh") BY <1>2, <2>2 DEF AnsweredOk
    <3> QED BY <1>1, <3>1 DEF Filed, RefreshesInFamily
  <2> QED BY <2>1, <2>2
<1> QED BY <1>3, <1>4 DEF Filed

LEMMA ClientFiled ==
  ASSUME ServerInv, Filed, NEW s \in Senders,
         rows' = rows, \A o \in Senders \ {s} : tx'[o] = tx[o],
         tx'[s] = tx[s] \/ tx'[s].phase \in {"none", "sent"},
         \E o \in Senders : left' \in {left, left \union Abandoned(o)}
  PROVE  Filed'
<1>1. \A o \in Senders : AnsweredOk(o, "refresh")' => tx'[o] = tx[o] /\ AnsweredOk(o, "refresh")
  BY DEF AnsweredOk
<1>2. RefreshesInFamily' BY <1>1 DEF Filed, RefreshesInFamily
<1>3. \A o \in Senders : Abandoned(o) \subseteq {rows[r].family : r \in DOMAIN rows}
  BY Tables, Families DEF Abandoned
<1>4. LeftKnown' BY <1>3 DEF Filed, LeftKnown
<1> QED BY <1>2, <1>4 DEF Filed

(* The logins of the browser, beside the Studio ...                        *)
LEMMA ServeLogins ==
  ASSUME ServerInv, BrowserTypeOK, Filed, LoginsApart, NEW s \in Senders, Serve(s),
         UNCHANGED browser
  PROVE  LoginsApart'
<1>0. /\ Len(rows) \in Nat /\ DOMAIN rows = 1..Len(rows)
      /\ \A r \in DOMAIN rows : rows[r].family \in 1..Len(rows)
      /\ cookie' = cookie /\ left' = left /\ cookie \in 0..Len(rows) /\ left \subseteq 1..Len(rows)
      /\ \A o \in Senders : tx[o].token \in 0..Len(rows) /\ tx[o].fresh \in 0..Len(rows)
  BY Families, Tables DEF browser, BrowserTypeOK, Filed, LeftKnown
<1>1. /\ \A o \in Senders \ {s} : tx'[o] = tx[o]
      /\ tx'[s].op = tx[s].op /\ tx'[s].token = tx[s].token
      /\ tx[s].phase \in {"sent", "locked", "sweeping"}
  BY ServeTx
<1>2. PICK n \in Nat : n = Len(rows) + 1 /\ n \notin 0..Len(rows) BY <1>0, Families
<1>3. /\ \A r \in DOMAIN rows : r \in DOMAIN rows' /\ rows'[r].family = rows[r].family
      /\ \A r \in DOMAIN rows' \ DOMAIN rows :
           /\ r = n
           /\ \/ rows'[r].family = r
              \/ /\ tx[s].token \in DOMAIN rows
                 /\ rows'[r].family = rows[tx[s].token].family
      /\ tx'[s].fresh \in {0, tx[s].fresh, n}
      /\ AnsweredOk(s, "login")' =>
           tx'[s].fresh = n /\ n \in DOMAIN rows' /\ rows'[n].family = n
  BY <1>2, ServeAnswers
<1> SUFFICES ASSUME NEW o \in Senders, AnsweredOk(o, "login")'
             PROVE  LoginApart(tx[o].fresh, o)'
  BY DEF LoginsApart
<1>4. PICK m : m = tx'[o].fresh OBVIOUS
<1>5. CASE o = s
  <2>1. m = n /\ n \in DOMAIN rows' /\ rows'[n].family = n BY <1>3, <1>4, <1>5
  <2>2. n \notin 1..Len(rows) BY <1>0, <1>2
  <2>3. n \notin left' /\ cookie' # n BY <1>0, <1>2, <2>2
  <2>4. \A r \in DOMAIN rows' : rows'[r].family = n => r = n
    BY <1>0, <1>3, <2>2
  <2>5. \A q \in Senders : tx'[q].token # n /\ (q # o => tx'[q].fresh # n)
    BY <1>0, <1>1, <1>2, <1>5
  <2> QED BY <1>4, <2>1, <2>3, <2>4, <2>5 DEF LoginApart
<1>6. CASE o # s
  <2>1. tx'[o] = tx[o] /\ AnsweredOk(o, "login") BY <1>1, <1>6 DEF AnsweredOk
  <2>2. /\ m \in DOMAIN rows /\ rows[m].family = m /\ m \notin left /\ cookie # m
        /\ \A r \in DOMAIN rows : rows[r].family = m => r = m
        /\ \A q \in Senders : tx[q].token # m /\ (q # o => tx[q].fresh # m)
    BY <1>4, <2>1 DEF LoginsApart, LoginApart
  <2>3. m # n /\ m # 0 BY <1>0, <1>2, <2>2
  <2>4. \A r \in DOMAIN rows' : rows'[r].family = m => r = m
    BY <1>3, <2>2, <2>3
  <2>5. \A q \in Senders : tx'[q].token # m /\ (q # o => tx'[q].fresh # m)
    BY <1>1, <1>3, <1>6, <2>2, <2>3
  <2> QED BY <1>0, <1>3, <1>4, <2>2, <2>4, <2>5 DEF LoginApart
<1> QED BY <1>5, <1>6

(* The token an answer brings to the jar.                                  *)
Brings(s) == IF tx[s].phase = "answered" THEN {tx[s].fresh} ELSE {}

(* ... and beside a tab, which presents the token of the jar, puts the     *)
(* token of its own answer there, and leaves the family of its own logout. *)
LEMMA TabLogins ==
  ASSUME ServerInv, LoginsApart, NEW s \in Senders,
         rows' = rows, \A o \in Senders \ {s} : tx'[o] = tx[o],
         tx'[s].phase \in {"none", "sent"}, tx'[s].token \in {0, cookie}, tx'[s].fresh = 0,
         cookie' \in {0, cookie} \union Brings(s),
         left' \in {left, left \union Abandoned(s)}
  PROVE  LoginsApart'
<1> SUFFICES ASSUME NEW o \in Senders, AnsweredOk(o, "login")'
             PROVE  LoginApart(tx[o].fresh, o)'
  BY DEF LoginsApart
<1>1. o # s /\ tx'[o] = tx[o] /\ AnsweredOk(o, "login") BY DEF AnsweredOk
<1>2. PICK n : n = tx[o].fresh OBVIOUS
<1>3. LoginApart(n, o) BY <1>1, <1>2 DEF LoginsApart
<1>4. n # 0 BY <1>3, Tables DEF LoginApart
<1>5. n \notin Abandoned(s)
  <2>1. tx[s].token = 0 \/ tx[s].token \in DOMAIN rows BY Tables, Families
  <2> QED BY <1>3, <2>1 DEF LoginApart, Abandoned
<1>6. n \notin left' BY <1>3, <1>5 DEF LoginApart
<1>7. cookie' # n BY <1>1, <1>3, <1>4 DEF LoginApart, Brings
<1>8. \A q \in Senders : tx'[q].token # n /\ (q # o => tx'[q].fresh # n)
  BY <1>1, <1>3, <1>4 DEF LoginApart
<1>9. LoginApart(n, o)' BY <1>3, <1>6, <1>7, <1>8 DEF LoginApart
<1> QED BY <1>1, <1>2, <1>9 DEF LoginApart

LEMMA TabStep ==
  ASSUME ServerInv, BrowserTypeOK, NEW t \in Tabs, Tab(t)
  PROVE  \E s \in {Refresher[t], Gate[t]} :
           /\ s \in Senders /\ rows' = rows /\ \A o \in Senders \ {s} : tx'[o] = tx[o]
           /\ tx'[s].phase \in {"none", "sent"} /\ tx'[s].token \in {0, cookie} /\ tx'[s].fresh = 0
           /\ cookie' \in {0, cookie} \union Brings(s)
           /\ left' \in {left, left \union Abandoned(s)}
<1>1. /\ Refresher[t] \in Senders /\ Gate[t] \in Senders
      /\ 0 \in 0..Len(rows) /\ cookie \in 0..Len(rows)
  BY TabsAssumption, Tables DEF BrowserTypeOK
<1>2. CASE LogIn(t) \/ LogOut(t)
  <2>1. \E op \in Ops, token \in {0, cookie} : Send(Gate[t], op, token)
    BY <1>2 DEF LogIn, LogOut, Ops
  <2>2. cookie' = cookie /\ left' = left BY <1>2 DEF LogIn, LogOut, browser
  <2> QED BY <1>1, <2>1, <2>2, SendTx
<1>3. CASE Refresh(t)
  <2>1. Send(Refresher[t], "refresh", cookie) BY <1>3 DEF Refresh
  <2>2. cookie' = cookie /\ left' = left BY <1>3 DEF Refresh
  <2> QED BY <1>1, <2>1, <2>2, SendTx DEF Ops
<1>4. CASE \/ Refreshed(t) \/ RefreshRefused(t) \/ RefreshFailed(t) \/ LoggedIn(t)
           \/ LoggedOut(t) \/ GateFailed(t) \/ Lost(t)
  <2>1. PICK s \in {Refresher[t], Gate[t]} :
          /\ Taken(s)
          /\ cookie' \in {0, cookie} \union Brings(s)
          /\ left' \in {left, left \union Abandoned(s)}
    BY <1>4 DEF Refreshed, RefreshRefused, RefreshFailed, LoggedIn, LoggedOut, GateFailed, Lost,
                Got, Apply, Brings
  <2>2. /\ rows' = rows /\ \A o \in Senders \ {s} : tx'[o] = tx[o]
        /\ tx'[s].phase = "none" /\ tx'[s].token = 0 /\ tx'[s].fresh = 0
    BY <1>1, <2>1, TakenTx
  <2> QED BY <1>1, <2>1, <2>2
<1> QED BY <1>2, <1>3, <1>4 DEF Tab

(* The browser leaves a family behind with its logout.                     *)
Leaving == ServerInv /\ BrowserTypeOK /\ SidesApart /\ side = "browser"
             /\ Filed /\ LoginsApart /\ LeftBehind

LEMMA TakeLeft ==
  ASSUME Leaving, NEW s \in Senders, Taken(s),
         cookie' # 0 => rows[cookie'].family \notin left',
         left' = left \/ (/\ left' = left \union Abandoned(s)
                          /\ \A u \in Tabs : ~ InFlight(Refresher[u]))
  PROVE  LeftBehind'
<1>0. ServerInv /\ \A u \in Tabs : Refresher[u] \in Senders /\ Gate[u] \in Senders
  BY TabsAssumption DEF Leaving
<1>1. /\ rows' = rows /\ \A o \in Senders \ {s} : tx'[o] = tx[o]
      /\ tx'[s].phase = "none"
  BY <1>0, TakenTx
<1>2. \A o \in Senders : InFlight(o)' => InFlight(o) /\ tx'[o] = tx[o]
  BY <1>1 DEF InFlight
<1>3. NoRefreshBesideLogout'
  BY <1>0, <1>2 DEF Leaving, LeftBehind, NoRefreshBesideLogout
<1>4. ASSUME NEW u \in Tabs, InFlight(Refresher[u])', tx'[Refresher[u]].token # 0
      PROVE  rows'[tx'[Refresher[u]].token].family \notin left'
  <2>1. InFlight(Refresher[u]) /\ tx'[Refresher[u]] = tx[Refresher[u]] /\ left' = left
    BY <1>0, <1>2, <1>4
  <2> QED BY <1>1, <1>4, <2>1 DEF Leaving, LeftBehind
<1> QED BY <1>1, <1>3, <1>4 DEF LeftBehind

LEMMA SendLeft ==
  ASSUME Leaving, NEW t \in Tabs, LogIn(t) \/ Refresh(t) \/ LogOut(t),
         mishaps' \cap {"late", "lost"} = {}
  PROVE  LeftBehind'
<1>0. /\ ServerInv /\ \A u \in Tabs : Refresher[u] \in Senders /\ Gate[u] \in Senders
      /\ \A u, v \in Tabs : Refresher[u] # Gate[v]
      /\ cookie \in 0..Len(rows) /\ 0 \in 0..Len(rows) /\ cookie' = cookie /\ left' = left
  BY TabsAssumption, Tables DEF Leaving, BrowserTypeOK, LogIn, Refresh, LogOut, browser
<1>1. CASE LogIn(t)
  <2>1. Send(Gate[t], "login", 0) BY <1>1 DEF LogIn
  <2>2. /\ rows' = rows /\ \A o \in Senders \ {Gate[t]} : tx'[o] = tx[o]
        /\ tx'[Gate[t]].op = "login"
    BY <1>0, <2>1, SendTx DEF Ops
  <2>3. NoRefreshBesideLogout'
    BY <1>0, <2>2 DEF Leaving, LeftBehind, NoRefreshBesideLogout, InFlight
  <2> QED BY <1>0, <2>2, <2>3 DEF Leaving, LeftBehind, InFlight
<1>2. CASE Refresh(t)
  <2>1. \A v \in Tabs : InFlight(Gate[v]) => tx[Gate[v]].op # "logout"
    <3>1. {"late" : u \in {v \in Tabs : InFlight(Gate[v]) /\ tx[Gate[v]].op = "logout"}}
               \subseteq mishaps'
      BY <1>2 DEF Refresh
    <3>2. ASSUME NEW v \in Tabs, InFlight(Gate[v]), tx[Gate[v]].op = "logout" PROVE FALSE
      <4>1. "late" \in mishaps' BY <3>1, <3>2
      <4> QED BY <4>1
    <3> QED BY <3>2
  <2>2. Send(Refresher[t], "refresh", cookie) BY <1>2 DEF Refresh
  <2>3. /\ rows' = rows /\ \A o \in Senders \ {Refresher[t]} : tx'[o] = tx[o]
        /\ tx'[Refresher[t]].token = cookie
    BY <1>0, <2>2, SendTx DEF Ops
  <2>4. NoRefreshBesideLogout'
    BY <1>0, <2>1, <2>3 DEF NoRefreshBesideLogout, InFlight
  <2>5. ASSUME NEW u \in Tabs, InFlight(Refresher[u])', tx'[Refresher[u]].token # 0
        PROVE  rows'[tx'[Refresher[u]].token].family \notin left'
    <3>1. CASE Refresher[u] = Refresher[t]
      BY <1>0, <2>3, <2>5, <3>1 DEF Leaving, LeftBehind
    <3>2. CASE Refresher[u] # Refresher[t]
      <4>1. tx'[Refresher[u]] = tx[Refresher[u]] BY <1>0, <2>3, <3>2
      <4> QED BY <1>0, <2>3, <2>5, <4>1 DEF Leaving, LeftBehind, InFlight
    <3> QED BY <3>1, <3>2
  <2>6. cookie' # 0 => rows'[cookie'].family \notin left'
    BY <1>0, <2>3 DEF Leaving, LeftBehind
  <2> QED BY <2>4, <2>5, <2>6 DEF LeftBehind
<1>3. CASE LogOut(t)
  <2>1. \A v \in Tabs : ~ InFlight(Refresher[v])
    <3>1. {"late" : u \in {v \in Tabs : InFlight(Refresher[v])}} \subseteq mishaps'
      BY <1>3 DEF LogOut
    <3>2. ASSUME NEW v \in Tabs, InFlight(Refresher[v]) PROVE FALSE
      <4>1. "late" \in mishaps' BY <3>1, <3>2
      <4> QED BY <4>1
    <3> QED BY <3>2
  <2>2. Send(Gate[t], "logout", cookie) BY <1>3 DEF LogOut
  <2>3. rows' = rows /\ \A o \in Senders \ {Gate[t]} : tx'[o] = tx[o]
    BY <1>0, <2>2, SendTx DEF Ops
  <2>4. \A v \in Tabs : ~ InFlight(Refresher[v])' BY <1>0, <2>1, <2>3 DEF InFlight
  <2> QED BY <1>0, <2>3, <2>4 DEF Leaving, LeftBehind, NoRefreshBesideLogout
<1> QED BY <1>1, <1>2, <1>3

LEMMA TabLeft ==
  ASSUME Leaving, NEW t \in Tabs, Tab(t), mishaps' \cap {"late", "lost"} = {}
  PROVE  LeftBehind'
<1>0. /\ Refresher[t] \in Senders /\ Gate[t] \in Senders /\ ServerInv
      /\ cookie = 0 \/ cookie \in DOMAIN rows
      /\ cookie # 0 => rows[cookie].family \notin left
  BY TabsAssumption, Families DEF Leaving, BrowserTypeOK, LeftBehind
<1>1. CASE LogIn(t) \/ Refresh(t) \/ LogOut(t)
  BY <1>1, SendLeft
<1>2. CASE Refreshed(t)
  <2> DEFINE s == Refresher[t]
  <2>1. /\ Taken(s) /\ tx[s].phase = "answered" /\ tx[s].answer = "ok"
        /\ cookie' = tx[s].fresh /\ left' = left
    BY <1>2 DEF Refreshed, Got, Apply
  <2>2. InFlight(s) BY <2>1 DEF InFlight
  <2>3. tx[s].op = "refresh" BY <2>2 DEF Leaving, SidesApart
  <2>4. AnsweredOk(s, "refresh") BY <2>1, <2>3 DEF AnsweredOk
  <2>5. /\ tx[s].token \in DOMAIN rows
        /\ rows[tx[s].fresh].family = rows[tx[s].token].family
    BY <1>0, <2>4 DEF Leaving, Filed, RefreshesInFamily
  <2>6. tx[s].token # 0 BY <1>0, <2>5, Tables
  <2>7. rows[tx[s].token].family \notin left BY <2>2, <2>6 DEF Leaving, LeftBehind
  <2> HIDE DEF s
  <2>8. s \in Senders BY <1>0 DEF s
  <2> QED BY <2>1, <2>5, <2>7, <2>8, TakeLeft
<1>3. CASE LoggedIn(t)
  <2> DEFINE s == Gate[t]
  <2>1. /\ Taken(s) /\ AnsweredOk(s, "login") /\ cookie' = tx[s].fresh /\ left' = left
    BY <1>3 DEF LoggedIn, Got, Apply, AnsweredOk
  <2>2. LoginApart(tx[s].fresh, s) BY <1>0, <2>1 DEF Leaving, LoginsApart
  <2>3. rows[cookie'].family \notin left BY <2>1, <2>2 DEF LoginApart
  <2> HIDE DEF s
  <2>4. s \in Senders BY <1>0 DEF s
  <2> QED BY <2>1, <2>3, <2>4, TakeLeft
<1>4. CASE RefreshRefused(t) \/ RefreshFailed(t)
  <2>1. Taken(Refresher[t]) /\ left' = left /\ cookie' \in {0, cookie}
    BY <1>4 DEF RefreshRefused, RefreshFailed, Got
  <2> QED BY <1>0, <2>1, TakeLeft
<1>5. CASE LoggedOut(t)
  <2>1. /\ Taken(Gate[t]) /\ left' = left \union Abandoned(Gate[t]) /\ cookie' = 0
        /\ tx[Gate[t]].op = "logout" /\ InFlight(Gate[t])
    BY <1>5 DEF LoggedOut, Got, InFlight
  <2>2. \A u \in Tabs : ~ InFlight(Refresher[u])
    BY <2>1 DEF Leaving, LeftBehind, NoRefreshBesideLogout
  <2> QED BY <1>0, <2>1, <2>2, TakeLeft
<1>6. CASE GateFailed(t)
  <2>1. /\ Taken(Gate[t]) /\ left' = left \union Abandoned(Gate[t]) /\ cookie' = cookie
        /\ {"lost" : r \in Abandoned(Gate[t])} \subseteq mishaps'
    BY <1>6 DEF GateFailed, Got
  <2>2. ASSUME NEW r \in Abandoned(Gate[t]) PROVE FALSE
    <3>1. "lost" \in mishaps' BY <2>1, <2>2
    <3> QED BY <3>1
  <2>3. left' = left BY <2>1, <2>2
  <2> QED BY <1>0, <2>1, <2>3, TakeLeft
<1>7. ~ Lost(t)
  <2>1. Lost(t) => "lost" \in mishaps' BY DEF Lost
  <2> QED BY <2>1
<1> QED BY <1>1, <1>2, <1>3, <1>4, <1>5, <1>6, <1>7 DEF Tab

LEMMA ServeLeft ==
  ASSUME ServerInv, BrowserTypeOK, LeftBehind, NEW s \in Senders, Serve(s), UNCHANGED browser
  PROVE  LeftBehind'
<1>0. \A u \in Tabs : Refresher[u] \in Senders /\ Gate[u] \in Senders BY TabsAssumption
<1>1. \A o \in Senders : /\ InFlight(o)' <=> InFlight(o)
                         /\ tx'[o].op = tx[o].op /\ tx'[o].token = tx[o].token
  BY ServeTx DEF InFlight
<1>2. /\ \A r \in DOMAIN rows : rows'[r].family = rows[r].family
      /\ \A t \in 0..Len(rows) : t = 0 \/ t \in DOMAIN rows
      /\ \A o \in Senders : tx[o].token \in 0..Len(rows)
      /\ cookie \in 0..Len(rows) /\ cookie' = cookie /\ left' = left
  BY ServeAnswers, Families, Tables DEF BrowserTypeOK, browser
<1>3. NoRefreshBesideLogout' BY <1>0, <1>1 DEF LeftBehind, NoRefreshBesideLogout
<1> QED BY <1>0, <1>1, <1>2, <1>3 DEF LeftBehind

LEMMA InitStick == Init => StickInv
<1> SUFFICES ASSUME Init PROVE StickInv OBVIOUS
<1>1. /\ \A s \in Senders : tx[s].phase = "none"
      /\ cookie = 0 /\ left = {}
  BY DEF Init, ServerInit, BrowserInit, NoTx
<1>2. \A u \in Tabs : Refresher[u] \in Senders /\ Gate[u] \in Senders BY TabsAssumption
<1> QED BY <1>1, <1>2 DEF StickInv, LoginsApart, RefreshesInFamily, LeftKnown, LeftBehind,
                          NoRefreshBesideLogout, AnsweredOk, InFlight

LEMMA NextStick ==
  ASSUME IInv, SidesApart, StickInv, [Next]_vars
  PROVE  StickInv'
<1>0. /\ ServerInv /\ TerminalTypeOK /\ BrowserTypeOK /\ Filed /\ side' = side
      /\ side \in {"terminal", "browser"}
      /\ NoneLate' => NoneLate
  BY Steps, TroubleGrows DEF IInv, StickInv, Filed, SidesApart, NoneLate
<1>1. CASE \E s \in Senders : Serve(s) /\ UNCHANGED <<terminal, trouble, browser>>
  <2>1. PICK s \in Senders : Serve(s) /\ UNCHANGED browser BY <1>1
  <2>2. Filed' BY <1>0, <2>1, ServeFiled
  <2>3. side = "browser" => LoginsApart' BY <1>0, <2>1, ServeLogins DEF StickInv
  <2>4. side = "browser" /\ NoneLate' => LeftBehind' BY <1>0, <2>1, ServeLeft DEF StickInv
  <2> QED BY <1>0, <2>2, <2>3, <2>4 DEF StickInv, Filed
<1>2. CASE side = "terminal" /\ (\E p \in Processes : Command(p)) /\ UNCHANGED browser
  <2>1. PICK p \in Processes : Command(p) BY <1>2
  <2>2. /\ p \in Senders /\ rows' = rows /\ \A o \in Senders \ {p} : tx'[o] = tx[o]
        /\ tx'[p] = tx[p] \/ tx'[p].phase \in {"none", "sent"}
        /\ left' = left
    BY <1>0, <1>2, <2>1, CommandTx, FileAssumption DEF browser
  <2>3. Filed' BY <1>0, <2>2, ClientFiled
  <2> QED BY <1>0, <1>2, <2>3 DEF StickInv, Filed
<1>3. CASE side = "browser" /\ \E t \in Tabs : Tab(t)
  <2>1. PICK t \in Tabs : Tab(t) BY <1>3
  <2>2. PICK s \in Senders :
           /\ rows' = rows /\ \A o \in Senders \ {s} : tx'[o] = tx[o]
           /\ tx'[s].phase \in {"none", "sent"} /\ tx'[s].token \in {0, cookie} /\ tx'[s].fresh = 0
           /\ cookie' \in {0, cookie} \union Brings(s)
           /\ left' \in {left, left \union Abandoned(s)}
    BY <1>0, <2>1, TabStep
  <2>3. Filed' BY <1>0, <2>2, ClientFiled
  <2>4. LoginsApart' BY <1>0, <1>3, <2>2, TabLogins DEF StickInv
  <2>5. NoneLate' => LeftBehind'
    <3>1. NoneLate' => Leaving BY <1>0, <1>3 DEF StickInv, Leaving
    <3> QED BY <2>1, <3>1, TabLeft DEF NoneLate
  <2> QED BY <1>0, <2>3, <2>4, <2>5 DEF StickInv, Filed
<1>4. CASE (LockAges /\ UNCHANGED browser) \/ UNCHANGED vars
  <2>1. rows' = rows /\ tx' = tx /\ UNCHANGED browser BY <1>4 DEF LockAges, vars, server
  <2> QED BY <1>0, <2>1 DEF StickInv, LoginsApart, LoginApart, RefreshesInFamily, LeftKnown,
                            LeftBehind, NoRefreshBesideLogout, AnsweredOk, InFlight, browser
<1> QED BY <1>1, <1>2, <1>3, <1>4, Steps

(* What signs a terminal in again, and what gives a tab a token.           *)
LEMMA OnlySignsIn ==
  ASSUME IInv, CauseInv, [Next]_vars, entry = SignedOut, entry' # SignedOut
  PROVE  \/ \E p \in Processes : goal[p] = "login" /\ pc[p] = "saving"
         \/ trouble \cap {"crash", "slow"} # {}
<1>0. TerminalTypeOK BY DEF IInv
<1>1. entry' # entry OBVIOUS
<1>2. PICK p \in Processes : Command(p)
  BY <1>1, Steps DEF vars, terminal, LockAges
<1>3. side = "terminal"
  BY <1>1, Steps DEF vars, terminal
<1>4. Save(p)
  <2>1. ~ Forget(p) BY DEF Forget
  <2>2. \/ Save(p) \/ Forget(p) \/ entry' = entry
    <3>1. CASE \/ NeedRenewal(p) \/ SignIn(p) \/ SignOut(p) \/ TryLock(p) \/ SeeStale(p)
               \/ Unlink(p) \/ GiveUp(p) \/ Release(p) \/ Unlock(p) \/ NothingToRenew(p)
               \/ Renew(p) \/ Unreached(p)
      BY <3>1 DEF NeedRenewal, SignIn, SignOut, TryLock, SeeStale, Unlink, GiveUp, Release,
                  Unlock, NothingToRenew, Renew, Unreached
    <3>2. CASE \/ SaveSignIn(p) \/ SendSignOut(p) \/ Save(p) \/ Forget(p) \/ Renewed(p)
               \/ RenewalRefused(p) \/ RenewalFailed(p) \/ AnswerLost(p) \/ SignedInAnswer(p)
               \/ SignInLost(p) \/ SignOutEnds(p) \/ Dropped(p) \/ GatewayFails(p) \/ Crash(p)
      BY <3>2 DEF SaveSignIn, SendSignOut, Renewed, RenewalRefused, RenewalFailed,
                  AnswerLost, SignedInAnswer, SignInLost, SignOutEnds, Dropped, GatewayFails,
                  Crash, terminal
    <3> QED BY <1>2, <3>1, <3>2 DEF Command
  <2> QED BY <1>1, <2>1, <2>2
<1>5. pc[p] = "saving" /\ goal[p] \in {"work", "login", "logout"} /\ entry.refresh = 0
  BY <1>0, <1>4 DEF Save, TerminalTypeOK, Goals, SignedOut
<1>6. Unhurried => goal[p] = "login"
  BY <1>3, <1>5 DEF CauseInv, FileHeld, Renewing
<1> QED BY <1>5, <1>6 DEF Unhurried

LEMMA NoneComesBack ==
  ASSUME IInv, CauseInv, StickInv, [Next]_vars, NEW t \in Tabs,
         access'[t] \notin {0, access[t]}, rows[access'[t]].family \in left
  PROVE  mishaps \cap {"late", "lost"} # {}
<1>0. /\ BrowserTypeOK /\ ServerInv /\ SidesApart
      /\ \A u \in Tabs : Refresher[u] \in Senders /\ Gate[u] \in Senders
  BY TabsAssumption DEF IInv, CauseInv
<1>1. access' # access OBVIOUS
<1>2. PICK u \in Tabs : Tab(u)
  BY <1>1, Steps DEF vars, browser
<1>3. side = "browser" BY <1>1, Steps DEF vars, browser
<1> SUFFICES ASSUME NoneLate PROVE FALSE BY DEF NoneLate
<1>4. CASE \/ LogIn(u) \/ Refresh(u) \/ LogOut(u) \/ RefreshRefused(u) \/ RefreshFailed(u)
           \/ LoggedOut(u) \/ GateFailed(u) \/ Lost(u)
  <2>1. access' = access \/ access' = [access EXCEPT ![u] = 0]
    BY <1>4 DEF LogIn, Refresh, LogOut, RefreshRefused, RefreshFailed, LoggedOut, GateFailed,
                Lost, Clear, browser
  <2> QED BY <1>0, <2>1 DEF BrowserTypeOK
<1>5. CASE Refreshed(u)
  <2> DEFINE s == Refresher[u]
  <2>1. /\ tx[s].phase = "answered" /\ tx[s].answer = "ok"
        /\ access' = [access EXCEPT ![u] = tx[s].fresh]
    BY <1>5 DEF Refreshed, Got, Apply
  <2>2. InFlight(s) BY <2>1 DEF InFlight
  <2>3. tx[s].op = "refresh" BY <1>0, <1>3, <2>2 DEF SidesApart
  <2>4. AnsweredOk(s, "refresh") BY <2>1, <2>3 DEF AnsweredOk
  <2>5. tx[s].token \in DOMAIN rows /\ rows[tx[s].fresh].family = rows[tx[s].token].family
    BY <1>0, <2>4 DEF StickInv, RefreshesInFamily
  <2>6. tx[s].token # 0 BY <1>0, <2>5, Tables
  <2>7. rows[tx[s].token].family \notin left
    BY <1>3, <2>2, <2>6 DEF StickInv, LeftBehind
  <2>8. access'[t] = tx[s].fresh BY <1>0, <2>1 DEF BrowserTypeOK
  <2> QED BY <2>5, <2>7, <2>8
<1>6. CASE LoggedIn(u)
  <2> DEFINE s == Gate[u]
  <2>1. /\ AnsweredOk(s, "login") /\ access' = [access EXCEPT ![u] = tx[s].fresh]
    BY <1>6 DEF LoggedIn, Got, Apply, AnsweredOk
  <2>2. LoginApart(tx[s].fresh, s) BY <1>0, <1>3, <2>1 DEF StickInv, LoginsApart
  <2>3. access'[t] = tx[s].fresh BY <1>0, <2>1 DEF BrowserTypeOK
  <2> QED BY <2>2, <2>3 DEF LoginApart
<1> QED BY <1>2, <1>4, <1>5, <1>6 DEF Tab

(* SignOutSticks, for any number of commands, tabs and tokens: only the    *)
(* command of a sign-in fills a file that is signed out, and no answer     *)
(* that was under way gives a tab a token of a family it has left; unless  *)
(* a lock was taken from a command at work, a logout met a refresh, or its *)
(* answer was lost.                                                        *)
THEOREM SignedOutStaysOut == Spec => SignOutSticks
<1> DEFINE Sticks ==
      /\ entry = SignedOut /\ entry' # SignedOut =>
           \/ \E p \in Processes : goal[p] = "login" /\ pc[p] = "saving"
           \/ trouble \cap {"crash", "slow"} # {}
      /\ \A t \in Tabs : access'[t] \notin {0, access[t]} /\ rows[access'[t]].family \in left =>
           mishaps \cap {"late", "lost"} # {}
<1>1. Init => StickInv BY InitStick
<1>2. IInv /\ CauseInv /\ StickInv /\ [Next]_vars => StickInv'
  BY NextStick DEF CauseInv
<1>3. IInv /\ CauseInv /\ StickInv /\ [Next]_vars => [Sticks]_vars
  BY OnlySignsIn, NoneComesBack
<1> QED BY <1>1, <1>2, <1>3, CauseInvariant, PTL DEF Spec, SignOutSticks
=============================================================================
