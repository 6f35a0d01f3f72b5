---------------------------- MODULE AuthManager ----------------------------
(***************************************************************************)
(* auth.AuthManager: one session in memory, the same session in the system *)
(* keyring, and calls of the keyring that are given two seconds.           *)
(*                                                                         *)
(* _keyring_call runs the call in a daemon thread and stops waiting for it *)
(* after _KEYRING_TIMEOUT: the caller sees a TimeoutError, the thread goes *)
(* on, and the call takes effect when the keyring is unlocked.  A session  *)
(* is the number of the answer of the server it came from.                 *)
(***************************************************************************)
EXTENDS Naturals, FiniteSets

CONSTANTS
  MaxSession,  \* bound: answers of the server that carry tokens
  MaxStarts,   \* bound: starts of the application
  Faults

AllFaults == {"http",     \* the platform cannot be reached, or says no
              "locked",   \* the keyring is locked while the application starts
              "unsaved",  \* set_password raises
              "undeleted",\* delete_password raises
              "stalled"}  \* a call outlives the timeout

ASSUME BoundAssumption == MaxSession \in Nat /\ MaxStarts \in Nat
ASSUME FaultAssumption == Faults \subseteq AllFaults

None == 0
Session == 1..MaxSession

VARIABLES
  faults,     \* the faults that can happen in this behaviour
  up,         \* the application runs
  ready,      \* _keyring_available
  mem,        \* the session in memory, or None
  authed,     \* _is_authenticated
  store,      \* the session in the keyring, or None
  late,       \* the calls that timed out and are still waiting: their effects
  issued,     \* history: how many sessions the server has issued
  expired,    \* the sessions whose access token has expired
  ended,      \* history: the sessions the user logged out of
  starts,     \* history: how often the application was started
  sure        \* history: a log out with no call left waiting was the last thing

vars == <<faults, up, ready, mem, authed, store, late, issued, expired, ended, starts, sure>>

TypeOK ==
  /\ faults \subseteq Faults
  /\ up \in BOOLEAN /\ ready \in BOOLEAN /\ authed \in BOOLEAN /\ sure \in BOOLEAN
  /\ mem \in Session \cup {None} /\ store \in Session \cup {None}
  /\ late \subseteq Session \cup {None}
  /\ issued \in 0..MaxSession
  /\ expired \subseteq Session /\ ended \subseteq Session
  /\ starts \in 0..MaxStarts
  /\ authed <=> mem # None
  /\ ~up => ~ready /\ mem = None /\ late = {}

Init ==
  /\ faults \in SUBSET Faults
  /\ up = FALSE /\ ready = FALSE
  /\ mem = None /\ authed = FALSE
  /\ store = None /\ late = {}
  /\ issued = 0 /\ expired = {} /\ ended = {} /\ starts = 0 /\ sure = FALSE

\* _keyring_call of a function that makes the keyring hold v: it takes effect
\* in time, raises, or stalls.  The callers treat the last two alike.
KeyringCall(v, raises) ==
  \/ store' = v /\ UNCHANGED late
  \/ raises \in faults /\ UNCHANGED <<store, late>>
  \/ "stalled" \in faults /\ late' = late \cup {v} /\ UNCHANGED store

SaveCredentials(n) ==
  IF ready THEN KeyringCall(n, "unsaved") ELSE UNCHANGED <<store, late>>

\* (mutant) only what is in memory is forgotten
ClearMemory ==
  /\ mem' = None
  /\ authed' = FALSE
  /\ UNCHANGED <<store, late>>
\* (mutant) the flag outlives the tokens
ClearKeepsFlag ==
  /\ mem' = None
  /\ UNCHANGED authed
  /\ IF ready THEN KeyringCall(None, "undeleted") ELSE UNCHANGED <<store, late>>
ClearCredentials ==
  /\ mem' = None
  /\ authed' = FALSE
  /\ IF ready THEN KeyringCall(None, "undeleted") ELSE UNCHANGED <<store, late>>

\* __init__: the probe, then _load_credentials.  The expiry is not looked at.
Start ==
  /\ ~up /\ starts < MaxStarts
  /\ up' = TRUE
  /\ starts' = starts + 1
  /\ ready' \in {TRUE} \cup IF "locked" \in faults THEN {FALSE} ELSE {}
  /\ \/ /\ ready' /\ store # None
        /\ mem' = store /\ authed' = TRUE
     \/ /\ ready' => store = None \/ "stalled" \in faults
        /\ UNCHANGED <<mem, authed>>
  /\ UNCHANGED <<faults, store, late, issued, expired, ended, sure>>

\* The daemon threads end with the process.
Quit ==
  /\ up
  /\ up' = FALSE /\ ready' = FALSE
  /\ mem' = None /\ authed' = FALSE
  /\ late' = {}
  /\ UNCHANGED <<faults, store, issued, expired, ended, starts, sure>>

Login ==
  /\ up /\ issued < MaxSession
  /\ issued' = issued + 1
  /\ mem' = issued'
  /\ authed' = TRUE
  /\ SaveCredentials(issued')
  /\ sure' = FALSE
  /\ UNCHANGED <<faults, up, ready, expired, ended, starts>>

\* The platform says no, or cannot be reached: what was there is cleared.
LoginFails ==
  /\ up /\ "http" \in faults
  /\ ClearCredentials
  /\ UNCHANGED <<faults, up, ready, issued, expired, ended, starts, sure>>

\* The answer of the platform, or its absence, changes nothing here.
Logout ==
  /\ up
  /\ ended' = IF mem # None THEN ended \cup 1..issued ELSE ended
  /\ ClearCredentials
  /\ sure' = (ready /\ late = {} /\ late' = {})
  /\ UNCHANGED <<faults, up, ready, issued, expired, starts>>

\* is_authenticated, and the three getters through it.
IsAuthenticated ==
  /\ up /\ authed /\ mem \in expired
  /\ ClearCredentials
  /\ UNCHANGED <<faults, up, ready, issued, expired, ended, starts, sure>>

\* (mutant) the new tokens stay in memory
RefreshUnsaved ==
  /\ up /\ mem # None /\ issued < MaxSession
  /\ issued' = issued + 1
  /\ mem' = issued'
  /\ sure' = FALSE
  /\ UNCHANGED <<faults, up, ready, authed, store, late, expired, ended, starts>>
RefreshToken ==
  /\ up /\ mem # None /\ issued < MaxSession
  /\ issued' = issued + 1
  /\ mem' = issued'
  /\ SaveCredentials(issued')
  /\ sure' = FALSE
  /\ UNCHANGED <<faults, up, ready, authed, expired, ended, starts>>

RefreshFails ==
  /\ up /\ mem # None /\ "http" \in faults
  /\ ClearCredentials
  /\ UNCHANGED <<faults, up, ready, issued, expired, ended, starts, sure>>

\* A stalled call goes through after all, in whatever order.
Late ==
  /\ \E v \in late : store' = v /\ late' = late \ {v}
  /\ UNCHANGED <<faults, up, ready, mem, authed, issued, expired, ended, starts, sure>>

Expire ==
  /\ \E n \in 1..issued : n \notin expired /\ expired' = expired \cup {n}
  /\ UNCHANGED <<faults, up, ready, mem, authed, store, late, issued, ended, starts, sure>>

Next ==
  \/ Start \/ Quit \/ Login \/ LoginFails \/ Logout \/ IsAuthenticated
  \/ RefreshToken \/ RefreshFails \/ Late \/ Expire

Spec == Init /\ [][Next]_vars

----------------------------------------------------------------------------
(* Properties                                                               *)

\* A session the user logged out of is never used again, by this process or by
\* the next, when the keyring is there, answers in time and deletes: "Clear
\* stored credentials from memory and keyring" (auth.py:146).
LoggedOutStaysOut ==
  faults \cap {"locked", "stalled", "undeleted"} = {} => mem \notin ended

\* While the application runs with a keyring that does what it is asked, the
\* keyring holds the session in memory, so a restart goes on with the tokens the
\* server last handed out.
KeyringFollows ==
  faults \cap {"stalled", "unsaved", "undeleted"} = {} /\ up /\ ready => store = mem

\* A log out is final when the keyring was there, no earlier call of it was
\* still waiting, and the deletion neither stalled nor raised: nothing that
\* stalls or fails afterwards brings a session back.
SureLogoutIsFinal ==
  "undeleted" \notin faults /\ sure => mem = None /\ store = None
=============================================================================
