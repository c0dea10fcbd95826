------------------------------- MODULE SignIns -------------------------------
(***************************************************************************)
(* Sign-ins end to end: the Studio with the terminal of TokenFile or with  *)
(* the browser of BrowserTabs.  Families of different clients never meet,  *)
(* so that a behaviour has one or the other.                               *)
(***************************************************************************)
EXTENDS TokenFile, BrowserTabs

CONSTANT MaxTroubles  \* bound: kinds of faults in one behaviour

VARIABLE side  \* "terminal" or "browser"

vars == <<server, terminal, trouble, browser, side>>

Init ==
  /\ ServerInit
  /\ TerminalInit
  /\ trouble = {}
  /\ BrowserInit
  /\ side \in {"terminal", "browser"}

AtTheTerminal ==
  \/ LockAges
  \/ \E p \in Processes : Command(p)

InTheBrowser == \E t \in Tabs : Tab(t)

AtTheStudio == \E s \in Senders : Serve(s)

Next ==
  /\ \/ side = "terminal" /\ AtTheTerminal /\ UNCHANGED browser
     \/ side = "browser" /\ InTheBrowser /\ UNCHANGED <<terminal, trouble>>
     \/ AtTheStudio /\ UNCHANGED <<terminal, trouble, browser>>
  /\ Cardinality(trouble') <= MaxTroubles /\ Cardinality(mishaps') <= MaxTroubles
  /\ UNCHANGED side

Spec == Init /\ [][Next]_vars

-----------------------------------------------------------------------------
(* Properties.                                                             *)

TypeOK ==
  /\ ServerTypeOK
  /\ entry \in [refresh : 0..Len(rows), access : 0..Len(rows)]
  /\ lock \in [owner : Processes \union {NoOne}, stale : BOOLEAN]
  /\ pc \in [Processes -> {"idle", "signing", "acquire", "unlink", "held", "waiting",
                          "saving", "forgetting", "releasing", "unlocking"}]
  /\ goal \in [Processes -> Goals]
  /\ mem \in [Processes -> [refresh : 0..Len(rows), access : 0..Len(rows)]]
  /\ cookie \in 0..Len(rows)
  /\ access \in [Tabs -> 0..Len(rows)]

Reused == \E r \in DOMAIN rows : rows[r].revoked = "reuse"

(* The Studio ends a sign-in for reuse only when something has happened    *)
(* that its clients cannot help: an answer a proxy replaced, a crash       *)
(* between the rotation and the save, a lock taken from a living command,  *)
(* or, in a browser, a lost answer, two tabs that refresh at once, a       *)
(* logout beside a refresh.  Lost and garbled answers alone never cost a   *)
(* terminal more than a new sign-in: "a renewal token that may have        *)
(* arrived is never sent again" (test_client.py).                          *)
ReuseHasACause ==
  Reused => \/ trouble \cap {"crash", "slow", "gateway"} # {}
            \/ mishaps # {}

(* Who has signed out stays signed out until the next sign-in: no renewal  *)
(* that was under way brings the sign-in back, unless the lock was taken   *)
(* from a command at work, or the browser's logout met a refresh or was    *)
(* lost.                                                                   *)
SignOutSticks ==
  [][/\ entry = SignedOut /\ entry' # SignedOut =>
          \/ \E p \in Processes : goal[p] = "login" /\ pc[p] = "saving"
          \/ trouble \cap {"crash", "slow"} # {}
     /\ \A t \in Tabs : access'[t] \notin {0, access[t]} /\ rows[access'[t]].family \in left =>
          mishaps \cap {"late", "lost"} # {}]_vars
=============================================================================
