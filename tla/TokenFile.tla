------------------------------ MODULE TokenFile ------------------------------
(***************************************************************************)
(* The sign-in of a terminal: the commands of `ut` that run at the same    *)
(* time share sessions.json and renew the sign-in in it, one at a time as  *)
(* long as the lock file keeps the others away.                            *)
(*                                                                         *)
(* An access token is named after the refresh token issued with it; that   *)
(* time goes by may make any of them expire.                               *)
(***************************************************************************)
EXTENDS RefreshSessions

CONSTANTS Processes,  \* commands that can run at the same time
          NoOne,
          Faults      \* what may go wrong

ASSUME FileAssumption ==
  /\ Processes \subseteq Senders
  /\ NoOne \notin Processes

VARIABLES entry,   \* the sign-in in sessions.json
          lock,    \* sessions.lock: who created it, is it older than 30 s?
          pc,      \* where each command is
          goal,    \* what it is about
          mem,     \* the sign-in it holds in memory
          trouble  \* what has gone wrong so far

terminal == <<entry, lock, pc, goal, mem>>
SignedOut == [refresh |-> 0, access |-> 0]

Free == [owner |-> NoOne, stale |-> FALSE]

Goals == {"work", "login", "logout"}

SignedIn(e) == e.refresh # 0 \/ e.access # 0

Inside(p) == pc[p] \in {"held", "waiting", "saving", "forgetting", "releasing", "unlocking"}

To(p, place) == pc' = [pc EXCEPT ![p] = place]

(* The process is over, and what it had in memory with it.                 *)
Ends(p) ==
  /\ To(p, "idle")
  /\ goal' = [goal EXCEPT ![p] = "work"]
  /\ mem' = [mem EXCEPT ![p] = SignedOut]

TerminalInit ==
  /\ entry = SignedOut
  /\ lock = Free
  /\ pc = [p \in Processes |-> "idle"]
  /\ goal = [p \in Processes |-> "work"]
  /\ mem = [p \in Processes |-> SignedOut]

(* bound: a fault of each kind happens once                                *)
Trouble(kind) == kind \in Faults \ trouble /\ trouble' = trouble \union {kind}

-----------------------------------------------------------------------------
(* Commands start.  The requests a command sends with a good access token  *)
(* change nothing here.                                                    *)

Start(p, what) ==
  /\ pc[p] = "idle"
  /\ tx[p].phase = "none"
  /\ goal' = [goal EXCEPT ![p] = what]

(* The access is about to expire, or the Studio has answered 401.          *)
NeedRenewal(p) ==
  /\ Start(p, "work")
  /\ SignedIn(entry)
  /\ mem' = [mem EXCEPT ![p] = entry]
  /\ To(p, "acquire")
  /\ UNCHANGED <<server, entry, lock, trouble>>

(* sign_in asks the Studio before it takes the lock.                       *)
SignIn(p) ==
  /\ Start(p, "login")
  /\ Send(p, "login", 0)
  /\ To(p, "signing")
  /\ UNCHANGED <<entry, lock, mem, trouble>>

SignOut(p) ==
  /\ Start(p, "logout")
  /\ To(p, "acquire")
  /\ UNCHANGED <<server, entry, lock, mem, trouble>>

-----------------------------------------------------------------------------
(* The lock file.                                                          *)

TryLock(p) ==
  /\ pc[p] = "acquire"
  /\ lock = Free
  /\ lock' = [owner |-> p, stale |-> FALSE]
  /\ To(p, "held")
  /\ UNCHANGED <<server, entry, goal, mem, trouble>>

(* MUTANT of Stale: any lock is taken away.                                *)
StaleAnyway == lock # Free

Stale == lock.stale

(* A lock is found too old in one step ...                                 *)
SeeStale(p) ==
  /\ pc[p] = "acquire"
  /\ Stale
  /\ To(p, "unlink")
  /\ UNCHANGED <<server, entry, lock, goal, mem, trouble>>

(* ... and the file of that name, whichever it is by now, goes in another. *)
Unlink(p) ==
  /\ pc[p] = "unlink"
  /\ lock' = Free
  /\ To(p, "acquire")
  /\ UNCHANGED <<server, entry, goal, mem, trouble>>

(* SESSION_FILE_LOCKED, after ten seconds.                                 *)
GiveUp(p) ==
  /\ pc[p] = "acquire"
  /\ lock # Free
  /\ Ends(p)
  /\ UNCHANGED <<server, entry, lock, trouble>>

(* Thirty seconds: the holder has died, or waits for a slow Studio.        *)
LockAges ==
  /\ lock # Free /\ ~ lock.stale
  /\ lock' = [lock EXCEPT !.stale = TRUE]
  /\ IF Inside(lock.owner) THEN Trouble("slow") ELSE UNCHANGED trouble
  /\ UNCHANGED <<server, entry, pc, goal, mem>>

(* _release compares the token in the file, then removes the file.         *)
Release(p) ==
  /\ pc[p] = "releasing"
  /\ IF lock.owner = p THEN To(p, "unlocking") /\ UNCHANGED <<goal, mem>> ELSE Ends(p)
  /\ UNCHANGED <<server, entry, lock, trouble>>

Unlock(p) ==
  /\ pc[p] = "unlocking"
  /\ lock' = Free
  /\ Ends(p)
  /\ UNCHANGED <<server, entry, trouble>>

-----------------------------------------------------------------------------
(* _renew, sign_in and sign_out with the lock.                             *)

Held(p, what) == pc[p] = "held" /\ goal[p] = what

(* NOT_SIGNED_IN, SESSION_EXPIRED, or another command has renewed the      *)
(* sign-in and its access is still good.                                   *)
NothingToRenew(p) ==
  /\ Held(p, "work")
  /\ entry.refresh = 0 \/ (entry # mem[p] /\ entry.access # 0)
  /\ To(p, "releasing")
  /\ UNCHANGED <<server, entry, lock, goal, mem, trouble>>

(* MUTANT of ToRenew: the sign-in that was read before the lock.           *)
ToRenewUnread(p) == mem[p]

ToRenew(p) == entry

Renew(p) ==
  /\ Held(p, "work")
  /\ SignedIn(entry) /\ ToRenew(p).refresh # 0
  /\ mem' = [mem EXCEPT ![p] = ToRenew(p)]
  /\ Send(p, "refresh", ToRenew(p).refresh)
  /\ To(p, "waiting")
  /\ UNCHANGED <<entry, lock, goal, trouble>>

(* The Studio cannot be reached; a bound too: MaxTokens is used up.        *)
Unreached(p) ==
  /\ Held(p, "work")
  /\ entry.refresh # 0
  /\ To(p, "releasing")
  /\ UNCHANGED <<server, entry, lock, goal, mem, trouble>>

SaveSignIn(p) ==
  /\ Held(p, "login")
  /\ To(p, "saving")
  /\ UNCHANGED <<server, entry, lock, goal, mem, trouble>>

SendSignOut(p) ==
  /\ Held(p, "logout")
  /\ IF entry.refresh # 0
     THEN Send(p, "logout", entry.refresh) /\ To(p, "waiting")
     ELSE UNCHANGED server /\ To(p, "forgetting")
  /\ UNCHANGED <<entry, lock, goal, mem, trouble>>

Save(p) ==
  /\ pc[p] = "saving"
  /\ entry' = mem[p]
  /\ To(p, "releasing")
  /\ UNCHANGED <<server, lock, goal, mem, trouble>>

Forget(p) ==
  /\ pc[p] = "forgetting"
  /\ entry' = SignedOut
  /\ To(p, "releasing")
  /\ UNCHANGED <<server, lock, goal, mem, trouble>>

-----------------------------------------------------------------------------
(* Answers.                                                                *)

Waiting(p, what) == pc[p] = "waiting" /\ goal[p] = what

Reply(p, answer) == tx[p].phase = "answered" /\ tx[p].answer = answer /\ Taken(p)

Keep(p, e) == mem' = [mem EXCEPT ![p] = e]

(* The answer may come without its cookie, or without what belongs in its  *)
(* body.                                                                   *)
Renewed(p) ==
  /\ Waiting(p, "work")
  /\ Reply(p, "ok")
  /\ \E parts \in SUBSET {"refresh", "access"} :
       Keep(p, [k \in {"refresh", "access"} |-> IF k \in parts THEN tx[p].fresh ELSE 0])
  /\ To(p, "saving")
  /\ UNCHANGED <<entry, lock, goal, trouble>>

(* 401 or 403: without_tokens.                                             *)
RenewalRefused(p) ==
  /\ Waiting(p, "work")
  /\ Reply(p, "refused")
  /\ Keep(p, SignedOut)
  /\ To(p, "saving")
  /\ UNCHANGED <<entry, lock, goal, trouble>>

(* Any other error status leaves the file as it is.                        *)
RenewalFailed(p) ==
  /\ Waiting(p, "work")
  /\ Reply(p, "failed")
  /\ To(p, "releasing")
  /\ UNCHANGED <<entry, lock, goal, mem, trouble>>

(* A proxy before the Studio gives up, whatever the Studio does.           *)
GatewayFails(p) ==
  /\ Waiting(p, "work")
  /\ To(p, "releasing")
  /\ Trouble("gateway")
  /\ UNCHANGED <<server, entry, lock, goal, mem>>

(* MUTANT of AfterLoss: the renewal token is kept for the next attempt.    *)
AfterLossKept(e) == e

AfterLoss(e) == [e EXCEPT !.refresh = 0]

(* The answer does not come, or breaks off: the request may have arrived.  *)
AnswerLost(p) ==
  /\ Waiting(p, "work")
  /\ Keep(p, AfterLoss(mem[p]))
  /\ To(p, "saving")
  /\ UNCHANGED <<server, entry, lock, goal, trouble>>

SignedInAnswer(p) ==
  /\ pc[p] = "signing"
  /\ Reply(p, "ok")
  /\ Keep(p, [refresh |-> tx[p].fresh, access |-> tx[p].fresh])
  /\ To(p, "acquire")
  /\ UNCHANGED <<entry, lock, goal, trouble>>

(* Not signed in: the Studio refuses, fails, or its answer is lost.        *)
SignInLost(p) ==
  /\ pc[p] = "signing"
  /\ Ends(p)
  /\ UNCHANGED <<server, entry, lock, trouble>>

(* sign_out forgets the sign-in whatever comes back, or nothing.           *)
SignOutEnds(p) ==
  /\ Waiting(p, "logout")
  /\ To(p, "forgetting")
  /\ UNCHANGED <<server, entry, lock, goal, mem, trouble>>

(* An answer nobody waits for any more, a request that never arrived.      *)
Dropped(p) ==
  /\ tx[p].phase \in {"sent", "answered"}
  /\ pc[p] \notin {"waiting", "signing"}
  /\ Taken(p)
  /\ UNCHANGED <<terminal, trouble>>

-----------------------------------------------------------------------------

Crash(p) ==
  /\ pc[p] # "idle"
  /\ Ends(p)
  /\ Trouble("crash")
  /\ UNCHANGED <<server, entry, lock>>

Command(p) ==
  \/ NeedRenewal(p) \/ SignIn(p) \/ SignOut(p)
  \/ TryLock(p) \/ SeeStale(p) \/ Unlink(p) \/ GiveUp(p) \/ Release(p) \/ Unlock(p)
  \/ NothingToRenew(p) \/ Renew(p) \/ Unreached(p) \/ SaveSignIn(p) \/ SendSignOut(p)
  \/ Save(p) \/ Forget(p)
  \/ Renewed(p) \/ RenewalRefused(p) \/ RenewalFailed(p)
  \/ GatewayFails(p) \/ AnswerLost(p) \/ SignedInAnswer(p) \/ SignInLost(p)
  \/ SignOutEnds(p) \/ Dropped(p) \/ Crash(p)
=============================================================================
