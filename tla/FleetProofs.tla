---------------------------- MODULE FleetProofs ----------------------------
(***************************************************************************)
(* Theorems about the two halves of the fleet client: AuthManager, the     *)
(* session of the fleet server (Spec), for every number of sessions and    *)
(* starts and every set of faults; and FleetPage, the page over the fleet  *)
(* agent (PageSpec), for every number of calls.                            *)
(***************************************************************************)
EXTENDS AuthManager, FleetPage, TLAPS

-----------------------------------------------------------------------------
(* The session                                                              *)

\* What a call of the keyring leaves: the old content or the new one, and at most
\* the new one waiting, which takes a keyring that stalls.
LEMMA KeyringEffect ==
  ASSUME NEW v, NEW raises, KeyringCall(v, raises)
  PROVE  /\ store' = v \/ store' = store
         /\ late' = late \/ late' = late \cup {v}
         /\ late' # late => "stalled" \in faults
  BY DEF KeyringCall

\* Clearing empties the memory, and the keyring holds what it held or nothing.
LEMMA ClearEffect ==
  ASSUME ClearCredentials
  PROVE  /\ mem' = None /\ authed' = FALSE
         /\ store' = None \/ store' = store
         /\ late' # late => ready /\ late' = late \cup {None} /\ "stalled" \in faults
  BY KeyringEffect DEF ClearCredentials

\* Saving a session, likewise.
LEMMA SaveEffect ==
  ASSUME NEW n, SaveCredentials(n)
  PROVE  /\ store' = n \/ store' = store
         /\ late' # late => ready /\ late' = late \cup {n} /\ "stalled" \in faults
  BY KeyringEffect DEF SaveCredentials

\* Clearing keeps the types of what it writes.
LEMMA ClearType ==
  ASSUME TypeOK, up, ClearCredentials
  PROVE  /\ mem' = None /\ authed' = FALSE
         /\ store' \in Session \cup {None}
         /\ late' \subseteq Session \cup {None}
<1>1. mem' = None /\ authed' = FALSE
  BY ClearEffect
<1>2. store' \in Session \cup {None}
  BY ClearEffect DEF TypeOK
<1>3. late' \subseteq Session \cup {None}
  BY ClearEffect DEF TypeOK
<1>. QED  BY <1>1, <1>2, <1>3

\* Saving a session keeps the types of what it writes.
LEMMA SaveType ==
  ASSUME TypeOK, NEW n \in Session, SaveCredentials(n)
  PROVE  /\ store' \in Session \cup {None}
         /\ late' \subseteq Session \cup {None}
<1>1. store' \in Session \cup {None}
  BY SaveEffect DEF TypeOK
<1>2. late' \subseteq Session \cup {None}
  BY SaveEffect DEF TypeOK
<1>. QED  BY <1>1, <1>2

\* Every variable of the session keeps its type, the flag says whether there are
\* tokens in memory, and a process that ended left no call behind.
THEOREM TypeCorrect == Spec => []TypeOK
<1>1. Init => TypeOK
  <2>. SUFFICES ASSUME Init PROVE TypeOK
    OBVIOUS
  <2>1. issued \in 0..MaxSession /\ starts \in 0..MaxStarts
    BY BoundAssumption DEF Init
  <2>2. authed <=> mem # None
    BY DEF Init
  <2>. QED
    BY <2>1, <2>2 DEF Init, TypeOK
<1>2. TypeOK /\ [Next]_vars => TypeOK'
  <2>. SUFFICES ASSUME TypeOK, [Next]_vars PROVE TypeOK'
    OBVIOUS
  <2>. USE BoundAssumption DEF TypeOK, None, Session
  <2>1. CASE Start
    <3>1. ready' \in BOOLEAN
      BY <2>1 DEF Start
    <3>2. \/ store # None /\ mem' = store /\ authed' = TRUE
          \/ UNCHANGED <<mem, authed>>
      BY <2>1 DEF Start
    <3>3. up' = TRUE /\ starts' \in 0..MaxStarts
      BY <2>1 DEF Start
    <3>4. UNCHANGED <<faults, store, late, issued, expired, ended, sure>>
      BY <2>1 DEF Start
    <3>5. authed' \in BOOLEAN /\ mem' \in Session \cup {None}
      BY <3>2
    <3>6. authed' <=> mem' # None
      BY <3>2
    <3>. QED
      BY <3>1, <3>3, <3>4, <3>5, <3>6
  <2>2. CASE Quit
    BY <2>2 DEF Quit
  <2>3. CASE Login
    <3>1. issued' \in Session /\ mem' = issued' /\ up /\ SaveCredentials(issued')
      BY <2>3 DEF Login
    <3>2. /\ store' \in Session \cup {None}
          /\ late' \subseteq Session \cup {None}
      BY <3>1, SaveType
    <3>3. authed' <=> mem' # None
      BY <2>3, <3>1 DEF Login
    <3>4. issued' \in 0..MaxSession /\ mem' \in Session \cup {None} /\ authed' \in BOOLEAN
      BY <2>3, <3>1 DEF Login
    <3>5. UNCHANGED <<faults, up, ready, expired, ended, starts>> /\ sure' = FALSE
      BY <2>3 DEF Login
    <3>. QED
      BY <3>1, <3>2, <3>3, <3>4, <3>5
  <2>4. CASE LoginFails
    <3>1. up /\ ClearCredentials
      BY <2>4 DEF LoginFails
    <3>. QED
      BY <2>4, <3>1, ClearType DEF LoginFails
  <2>5. CASE Logout
    <3>1. up /\ ClearCredentials
      BY <2>5 DEF Logout
    <3>2. ended' \subseteq Session
      BY <2>5 DEF Logout
    <3>3. sure' \in BOOLEAN
      BY <2>5 DEF Logout
    <3>. QED
      BY <2>5, <3>1, <3>2, <3>3, ClearType DEF Logout
  <2>6. CASE IsAuthenticated
    <3>1. up /\ ClearCredentials
      BY <2>6 DEF IsAuthenticated
    <3>. QED
      BY <2>6, <3>1, ClearType DEF IsAuthenticated
  <2>7. CASE RefreshToken
    <3>1. issued' \in Session /\ mem' = issued' /\ up /\ SaveCredentials(issued')
      BY <2>7 DEF RefreshToken
    <3>2. /\ store' \in Session \cup {None}
          /\ late' \subseteq Session \cup {None}
      BY <3>1, SaveType
    <3>3. authed' <=> mem' # None
      BY <2>7, <3>1 DEF RefreshToken
    <3>4. issued' \in 0..MaxSession /\ mem' \in Session \cup {None} /\ authed' \in BOOLEAN
      BY <2>7, <3>1 DEF RefreshToken
    <3>5. UNCHANGED <<faults, up, ready, expired, ended, starts>> /\ sure' = FALSE
      BY <2>7 DEF RefreshToken
    <3>. QED
      BY <3>1, <3>2, <3>3, <3>4, <3>5
  <2>8. CASE RefreshFails
    <3>1. up /\ ClearCredentials
      BY <2>8 DEF RefreshFails
    <3>. QED
      BY <2>8, <3>1, ClearType DEF RefreshFails
  <2>9. CASE Late
    BY <2>9 DEF Late
  <2>10. CASE Expire
    BY <2>10 DEF Expire
  <2>11. CASE UNCHANGED vars
    BY <2>11 DEF vars
  <2>. QED
    BY <2>1, <2>2, <2>3, <2>4, <2>5, <2>6, <2>7, <2>8, <2>9, <2>10, <2>11 DEF Next
<1>. QED  BY <1>1, <1>2, PTL DEF Spec

----------------------------------------------------------------------------
(* A log out that went through is final                                     *)

\* What may still be waiting after such a log out only deletes.
FinalInv ==
  "undeleted" \notin faults /\ sure => mem = None /\ store = None /\ late \subseteq {None}

\* A log out that reached the keyring and left no call waiting is final: until
\* the next log in nothing puts a session back into memory or into the keyring,
\* whatever fails, stalls, is locked or is started again.
THEOREM LogoutIsFinal == Spec => []SureLogoutIsFinal
<1>1. Init => FinalInv
  BY DEF Init, FinalInv
<1>2. TypeOK /\ FinalInv /\ [Next]_vars => FinalInv'
  <2>. SUFFICES ASSUME TypeOK, FinalInv, [Next]_vars PROVE FinalInv'
    OBVIOUS
  <2>. USE DEF FinalInv, None
  <2>1. CASE Start
    BY <2>1 DEF Start
  <2>2. CASE Quit
    BY <2>2 DEF Quit
  <2>3. CASE Login
    BY <2>3 DEF Login
  <2>4. CASE LoginFails
    BY <2>4 DEF LoginFails, ClearCredentials, KeyringCall
  <2>5. CASE Logout
    BY <2>5 DEF Logout, ClearCredentials, KeyringCall
  <2>6. CASE IsAuthenticated
    BY <2>6 DEF IsAuthenticated, ClearCredentials, KeyringCall
  <2>7. CASE RefreshToken
    BY <2>7 DEF RefreshToken
  <2>8. CASE RefreshFails
    BY <2>8 DEF RefreshFails, ClearCredentials, KeyringCall
  <2>9. CASE Late
    BY <2>9 DEF Late
  <2>10. CASE Expire
    BY <2>10 DEF Expire
  <2>11. CASE UNCHANGED vars
    BY <2>11 DEF vars
  <2>. QED
    BY <2>1, <2>2, <2>3, <2>4, <2>5, <2>6, <2>7, <2>8, <2>9, <2>10, <2>11 DEF Next
<1>3. FinalInv => SureLogoutIsFinal
  BY DEF FinalInv, SureLogoutIsFinal
<1>. QED  BY <1>1, <1>2, <1>3, TypeCorrect, PTL DEF Spec

----------------------------------------------------------------------------
(* With a keyring that is there, answers in time and deletes                *)

Reliable == faults \cap {"locked", "stalled", "undeleted"} = {}

\* The sessions that ended are among those issued, so a new one is none of them;
\* and neither place holds one of them.
EndedInv ==
  /\ ended \subseteq 1..issued
  /\ Reliable =>
       /\ late = {}
       /\ up => ready
       /\ mem \notin ended
       /\ store \notin ended

\* What that says of the faults, and that it does not change.
LEMMA ReliableMeans ==
  /\ Reliable => "locked" \notin faults /\ "stalled" \notin faults
  /\ UNCHANGED faults => (Reliable' <=> Reliable)
  BY DEF Reliable

\* Then clearing empties both places, or leaves the keyring alone as it is not there.
LEMMA ClearReliable ==
  ASSUME ClearCredentials, Reliable, late = {}
  PROVE  /\ mem' = None /\ late' = {}
         /\ store' = store \/ store' = None
         /\ ready => store' = None
<1>1. "stalled" \notin faults /\ "undeleted" \notin faults
  BY DEF Reliable
<1>. QED
  BY <1>1 DEF ClearCredentials, KeyringCall

\* With nothing in memory there is nothing in it that ended.
LEMMA ClearKeepsEnded ==
  ASSUME EndedInv, up, ClearCredentials, UNCHANGED <<faults, up, ready, issued, ended>>
  PROVE  EndedInv'
<1>1. ended' \subseteq 1..issued' /\ None \notin ended'
  BY DEF EndedInv, None
<1>2. ASSUME Reliable
      PROVE  late' = {} /\ (up' => ready') /\ mem' \notin ended' /\ store' \notin ended'
  BY <1>1, <1>2, ClearReliable DEF EndedInv
<1>. QED
  BY <1>1, <1>2, ReliableMeans DEF EndedInv

\* A new session is none of those that ended.
LEMMA SaveKeepsEnded ==
  ASSUME TypeOK, EndedInv, up, SaveCredentials(issued'), issued' = issued + 1, mem' = issued',
         UNCHANGED <<faults, up, ready, ended>>
  PROVE  EndedInv'
<1>1. ended' \subseteq 1..issued' /\ issued' \notin ended'
  BY DEF TypeOK, EndedInv
<1>2. ASSUME Reliable
      PROVE  late' = {} /\ (up' => ready') /\ mem' \notin ended' /\ store' \notin ended'
  BY <1>1, <1>2, SaveEffect, ReliableMeans DEF EndedInv
<1>. QED
  BY <1>1, <1>2, ReliableMeans DEF EndedInv

\* A session the user logged out of is never used again, by this process or by
\* a later one, if the keyring does what it is asked.
THEOREM LogoutStays == Spec => []LoggedOutStaysOut
<1>1. Init => EndedInv
  BY DEF Init, EndedInv
<1>2. TypeOK /\ EndedInv /\ [Next]_vars => EndedInv'
  <2>. SUFFICES ASSUME TypeOK, EndedInv, [Next]_vars PROVE EndedInv'
    OBVIOUS
  <2>1. CASE Start
    <3>1. UNCHANGED faults /\ ended' \subseteq 1..issued'
      BY <2>1 DEF Start, EndedInv
    <3>2. ASSUME Reliable
          PROVE  late' = {} /\ (up' => ready') /\ mem' \notin ended' /\ store' \notin ended'
      <4>1. ready' = TRUE
        BY <2>1, <3>2, ReliableMeans DEF Start
      <4>2. mem' = store \/ mem' = mem
        BY <2>1 DEF Start
      <4>. QED
        BY <2>1, <3>2, <4>1, <4>2 DEF Start, EndedInv
    <3>. QED
      BY <3>1, <3>2, ReliableMeans DEF EndedInv
  <2>2. CASE Quit
    <3>1. UNCHANGED faults /\ ended' \subseteq 1..issued' /\ None \notin ended'
      BY <2>2 DEF Quit, EndedInv, None
    <3>2. ASSUME Reliable
          PROVE  late' = {} /\ (up' => ready') /\ mem' \notin ended' /\ store' \notin ended'
      BY <2>2, <3>1, <3>2 DEF Quit, EndedInv
    <3>. QED
      BY <3>1, <3>2, ReliableMeans DEF EndedInv
  <2>3. CASE Login
    BY <2>3, SaveKeepsEnded DEF Login
  <2>4. CASE LoginFails
    BY <2>4, ClearKeepsEnded DEF LoginFails
  <2>5. CASE Logout
    <3>1. UNCHANGED <<faults, up, ready, issued>> /\ up /\ ClearCredentials
      BY <2>5 DEF Logout
    <3>2. ended' \subseteq 1..issued' /\ None \notin ended'
      <4>1. ended' = ended \/ ended' = ended \cup 1..issued
        BY <2>5 DEF Logout
      <4>2. ended' \subseteq 1..issued
        BY <4>1 DEF EndedInv
      <4>3. issued' = issued /\ None \notin 1..issued
        BY <3>1 DEF None, TypeOK
      <4>. QED
        BY <4>2, <4>3
    <3>3. ASSUME Reliable
          PROVE  late' = {} /\ (up' => ready') /\ mem' \notin ended' /\ store' \notin ended'
      BY <3>1, <3>2, <3>3, ClearReliable DEF EndedInv
    <3>. QED
      BY <3>1, <3>2, <3>3, ReliableMeans DEF EndedInv
  <2>6. CASE IsAuthenticated
    BY <2>6, ClearKeepsEnded DEF IsAuthenticated
  <2>7. CASE RefreshToken
    BY <2>7, SaveKeepsEnded DEF RefreshToken
  <2>8. CASE RefreshFails
    BY <2>8, ClearKeepsEnded DEF RefreshFails
  <2>9. CASE Late
    <3>1. UNCHANGED faults /\ ended' \subseteq 1..issued'
      BY <2>9 DEF Late, EndedInv
    <3>2. ASSUME Reliable
          PROVE  late' = {} /\ (up' => ready') /\ mem' \notin ended' /\ store' \notin ended'
      BY <2>9, <3>2, ReliableMeans DEF Late, EndedInv
    <3>. QED
      BY <3>1, <3>2, ReliableMeans DEF EndedInv
  <2>10. CASE Expire
    <3>1. UNCHANGED faults /\ ended' \subseteq 1..issued'
      BY <2>10 DEF Expire, EndedInv
    <3>2. ASSUME Reliable
          PROVE  late' = {} /\ (up' => ready') /\ mem' \notin ended' /\ store' \notin ended'
      BY <2>10, <3>2, ReliableMeans DEF Expire, EndedInv
    <3>. QED
      BY <3>1, <3>2, ReliableMeans DEF EndedInv
  <2>11. CASE UNCHANGED vars
    <3>1. UNCHANGED faults /\ ended' \subseteq 1..issued'
      BY <2>11 DEF vars, EndedInv
    <3>2. ASSUME Reliable
          PROVE  late' = {} /\ (up' => ready') /\ mem' \notin ended' /\ store' \notin ended'
      BY <2>11, <3>2, ReliableMeans DEF vars, EndedInv
    <3>. QED
      BY <3>1, <3>2, ReliableMeans DEF EndedInv
  <2>. QED
    BY <2>1, <2>2, <2>3, <2>4, <2>5, <2>6, <2>7, <2>8, <2>9, <2>10, <2>11 DEF Next
<1>3. EndedInv => LoggedOutStaysOut
  BY DEF EndedInv, LoggedOutStaysOut, Reliable
<1>. QED  BY <1>1, <1>2, <1>3, TypeCorrect, PTL DEF Spec
----------------------------------------------------------------------------
(* Memory and keyring                                                       *)

Faithful == faults \cap {"stalled", "unsaved", "undeleted"} = {}

\* Nothing is left waiting that could part the two.
FollowInv == Faithful => late = {} /\ (up /\ ready => store = mem)

\* What that says of the faults, and that it does not change.
LEMMA FaithfulMeans ==
  /\ Faithful => "stalled" \notin faults /\ "unsaved" \notin faults /\ "undeleted" \notin faults
  /\ UNCHANGED faults => (Faithful' <=> Faithful)
  BY DEF Faithful

\* Clearing empties the memory, and the keyring if it is there.
LEMMA ClearFollows ==
  ASSUME FollowInv, ClearCredentials, UNCHANGED <<faults, up, ready>>
  PROVE  FollowInv'
  BY FaithfulMeans DEF FollowInv, ClearCredentials, KeyringCall

\* Saving puts the session in memory into the keyring, if it is there.
LEMMA SaveFollows ==
  ASSUME FollowInv, SaveCredentials(issued'), mem' = issued', UNCHANGED <<faults, up, ready>>
  PROVE  FollowInv'
  BY FaithfulMeans DEF FollowInv, SaveCredentials, KeyringCall

\* While the application runs with a keyring that does what it is asked, the
\* keyring holds the session in memory, over any number of restarts, log ins,
\* refreshes and log outs.
THEOREM StoreFollows == Spec => []KeyringFollows
<1>1. Init => FollowInv
  BY DEF Init, FollowInv
<1>2. TypeOK /\ FollowInv /\ [Next]_vars => FollowInv'
  <2>. SUFFICES ASSUME TypeOK, FollowInv, [Next]_vars PROVE FollowInv'
    OBVIOUS
  <2>1. CASE Start
    <3>1. UNCHANGED <<faults, late, store>> /\ mem = None
      BY <2>1 DEF Start, TypeOK
    <3>. QED
      BY <2>1, <3>1, FaithfulMeans DEF Start, FollowInv
  <2>2. CASE Quit
    BY <2>2, FaithfulMeans DEF Quit, FollowInv
  <2>3. CASE Login
    BY <2>3, SaveFollows DEF Login
  <2>4. CASE LoginFails
    BY <2>4, ClearFollows DEF LoginFails
  <2>5. CASE Logout
    BY <2>5, ClearFollows DEF Logout
  <2>6. CASE IsAuthenticated
    BY <2>6, ClearFollows DEF IsAuthenticated
  <2>7. CASE RefreshToken
    BY <2>7, SaveFollows DEF RefreshToken
  <2>8. CASE RefreshFails
    BY <2>8, ClearFollows DEF RefreshFails
  <2>9. CASE Late
    BY <2>9, FaithfulMeans DEF Late, FollowInv
  <2>10. CASE Expire
    BY <2>10, FaithfulMeans DEF Expire, FollowInv
  <2>11. CASE UNCHANGED vars
    BY <2>11, FaithfulMeans DEF vars, FollowInv
  <2>. QED
    BY <2>1, <2>2, <2>3, <2>4, <2>5, <2>6, <2>7, <2>8, <2>9, <2>10, <2>11 DEF Next
<1>3. FollowInv => KeyringFollows
  BY DEF FollowInv, KeyringFollows, Faithful
<1>. QED  BY <1>1, <1>2, <1>3, TypeCorrect, PTL DEF Spec

-----------------------------------------------------------------------------
(* The page                                                                 *)

\* Each button that is off, and the latch, has a call in flight that will put it
\* back.  The latch alone does not say that: any answer clears it, and calls of
\* different kinds overlap.
LatchInv ==
  /\ busy \in BOOLEAN /\ dialog \in Changes \cup {Nothing}
  /\ busy => calls # {}
  /\ "show" \notin on => \E c \in calls : c.kind = "status" \/ c.kind \in Changes
  /\ "checks" \notin on => \E c \in calls : c.kind \in Checks
  /\ "enroll" \notin on => \E c \in calls : c.kind \in Changes

\* A call that starts is in flight, with the kind it was started for.
LEMMA StartAdds ==
  ASSUME NEW kind, Begin(kind)
  PROVE  /\ busy' = TRUE
         /\ \E c \in calls' : c.kind = kind
         /\ \A c \in calls : c \in calls'
<1>1. calls' = calls \cup {[id |-> count', kind |-> kind, out |-> "open"]} /\ busy' = TRUE
  BY DEF Begin
<1>2. [id |-> count', kind |-> kind, out |-> "open"].kind = kind
  OBVIOUS
<1>. QED
  BY <1>1, <1>2

\* In every state the latch and the buttons that are off have a call to wait for.
THEOREM LatchHasACall == PageSpec => []LatchInv
<1>1. PageInit => LatchInv
  BY DEF PageInit, LatchInv
<1>2. LatchInv /\ [PageNext]_pageVars => LatchInv'
  <2>. SUFFICES ASSUME LatchInv, [PageNext]_pageVars PROVE LatchInv'
    OBVIOUS
  <2>1. CASE Load
    <3>1. Begin("status") /\ on' = on \ {"show"} /\ dialog' = dialog
      BY <2>1 DEF Load
    <3>. QED
      BY <3>1, StartAdds DEF LatchInv
  <2>2. ASSUME NEW k \in Checks, Check(k)
        PROVE  LatchInv'
    <3>1. Begin(k) /\ on' = on \ {"checks"} /\ dialog' = dialog
      BY <2>2 DEF Check
    <3>. QED
      BY <3>1, StartAdds DEF LatchInv
  <2>3. CASE Confirm
    <3>1. Begin(dialog) /\ dialog \in Changes /\ dialog' = Nothing
      BY <2>3 DEF Confirm, LatchInv
    <3>2. busy' = TRUE /\ \E c \in calls' : c.kind \in Changes
      BY <3>1, StartAdds
    <3>3. "checks" \notin on' => "checks" \notin on
      BY <2>3 DEF Confirm, Membership, Changes
    <3>4. "checks" \notin on' => \E c \in calls' : c.kind \in Checks
      BY <3>1, <3>3, StartAdds DEF LatchInv
    <3>. QED
      BY <3>1, <3>2, <3>4 DEF LatchInv
  <2>4. CASE CloseDialog \/ \E k \in Changes : OpenDialog(k)
    BY <2>4 DEF CloseDialog, OpenDialog, LatchInv
  <2>5. ASSUME NEW c \in calls, Done(c)
        PROVE  LatchInv'
    <3>1. calls' = calls \ {c} /\ busy' = FALSE /\ dialog' = dialog
      BY <2>5 DEF Done
    <3>2. CASE LoadDone(c)
      <4>1. c.kind = "status" /\ "show" \in on'
        BY <3>1, <3>2 DEF LoadDone, Show, Membership, Changes
      <4>2. /\ "checks" \in on => "checks" \in on'
            /\ "enroll" \in on => "enroll" \in on'
        BY <3>1, <3>2 DEF LoadDone, Show, Membership, Changes
      <4>. QED
        BY <3>1, <4>1, <4>2 DEF LatchInv, Checks, Changes
    <3>3. CASE CheckDone(c)
      <4>1. c.kind \in Checks /\ on' = on \cup {"checks"}
        BY <3>3 DEF CheckDone
      <4>. QED
        BY <3>1, <4>1 DEF LatchInv, Checks, Changes
    <3>4. CASE ChangeDone(c)
      <4>1. c.kind \in Changes /\ on' = Membership(on \cup {"show"})
        BY <3>4 DEF ChangeDone
      <4>2. "show" \in on' /\ "enroll" \in on'
        BY <3>1, <4>1 DEF Membership, Changes
      <4>3. "checks" \in on => "checks" \in on'
        BY <4>1 DEF Membership, Changes
      <4>. QED
        BY <3>1, <4>1, <4>2, <4>3 DEF LatchInv, Checks, Changes
    <3>. QED
      BY <2>5, <3>2, <3>3, <3>4 DEF Done
  <2>6. ASSUME NEW c \in calls, AgentEnds(c)
        PROVE  LatchInv'
    <3>1. PICK how : Ends(c, how)
      BY <2>6 DEF AgentEnds
    <3>2. calls' = (calls \ {c}) \cup {[c EXCEPT !.out = how]}
      BY <3>1 DEF Ends
    <3>3. [c EXCEPT !.out = how].kind = c.kind
      OBVIOUS
    <3>4. \A d \in calls : \E e \in calls' : e.kind = d.kind
      BY <3>2, <3>3
    <3>5. UNCHANGED <<busy, dialog, on>>
      BY <2>6 DEF AgentEnds
    <3>. QED
      BY <3>4, <3>5 DEF LatchInv
  <2>7. CASE UNCHANGED pageVars
    BY <2>7 DEF pageVars, LatchInv
  <2>. QED
    BY <2>1, <2>2, <2>3, <2>4, <2>5, <2>6, <2>7 DEF PageNext
<1>. QED  BY <1>1, <1>2, PTL DEF PageSpec

\* Whatever order the calls end in, the latch opens with the last of them, and
\* Show, the checks and Enroll can be pressed again.
THEOREM LatchReopens == PageSpec => []LatchOpens
<1>1. LatchInv => LatchOpens
  BY DEF LatchInv, LatchOpens
<1>. QED  BY <1>1, LatchHasACall, PTL

\* What a call in flight can be.
CallInv ==
  /\ count \in Nat
  /\ calls \subseteq [id : Nat, kind : Kinds, out : Outcomes]
  /\ dialog \in Changes \cup {Nothing}
  /\ device \in {"yes", "no"}

\* What the page says of the device.
PageIsTrue ==
  /\ known \in {"unread", device}
  /\ group \in {Nothing, device}
  /\ "uninstall" \in on => device = "yes"

\* A user who waits has one call in flight, or a dialog open, and not both.  An
\* answer about the device is about the device as it is, and the page is true
\* until a change has gone through that the page has not been told of.
WaitingInv ==
  ~hasty =>
    /\ \A c, d \in calls : c = d
    /\ dialog # Nothing => calls = {}
    /\ \A c \in calls : /\ c.out \in {"yes", "no"} => c.out = device
                        /\ c.out = "ok" => c.kind \in Changes
    /\ (\A c \in calls : c.out # "ok") => PageIsTrue

TruthInv == CallInv /\ WaitingInv

\* A call that starts alone is the only one, and has not ended.
LEMMA StartsAlone ==
  ASSUME TruthInv, NEW kind \in Kinds, Begin(kind), calls = {}
  PROVE  /\ count' \in Nat
         /\ calls' \subseteq [id : Nat, kind : Kinds, out : Outcomes]
         /\ \A c, d \in calls' : c = d
         /\ \A c \in calls' : c.out = "open"
BY DEF TruthInv, CallInv, Begin, Outcomes

\* A call that starts is a call, whatever else is in flight.
LEMMA StartsTyped ==
  ASSUME TruthInv, NEW kind \in Kinds, Begin(kind)
  PROVE  /\ count' \in Nat
         /\ calls' \subseteq [id : Nat, kind : Kinds, out : Outcomes]
BY DEF TruthInv, CallInv, Begin, Outcomes

\* The page is true, for a user who waits, whenever no change waits to be told.
THEOREM PageFollowsDevice == PageSpec => []TruthInv
<1>1. PageInit => TruthInv
  BY DEF PageInit, TruthInv, CallInv, WaitingInv, PageIsTrue, Nothing
<1>2. TruthInv /\ [PageNext]_pageVars => TruthInv'
  <2> SUFFICES ASSUME TruthInv, [PageNext]_pageVars PROVE TruthInv'
    OBVIOUS
  <2>1. CASE Load
    <3>1. CallInv'
      BY <2>1, StartsTyped DEF Load, TruthInv, CallInv, Kinds
    <3>2. ASSUME ~hasty PROVE WaitingInv'
      <4>1. calls = {}
        BY <2>1, <3>2 DEF Load, CanAct
      <4> QED
        BY <2>1, <3>2, <4>1, StartsAlone
           DEF Load, TruthInv, WaitingInv, PageIsTrue, membershipVars, Kinds, CanAct
    <3> QED
      BY <2>1, <3>1, <3>2 DEF Load, TruthInv, WaitingInv
  <2>2. ASSUME NEW k \in Checks, Check(k) PROVE TruthInv'
    <3>1. CallInv'
      BY <2>2, StartsTyped DEF Check, TruthInv, CallInv, Kinds
    <3>2. ASSUME ~hasty PROVE WaitingInv'
      <4>1. calls = {}
        BY <2>2, <3>2 DEF Check, CanAct
      <4> QED
        BY <2>2, <3>2, <4>1, StartsAlone
           DEF Check, TruthInv, WaitingInv, PageIsTrue, membershipVars, Kinds, CanAct
    <3> QED
      BY <2>2, <3>1, <3>2 DEF Check, TruthInv, WaitingInv
  <2>3. ASSUME NEW k \in Changes, OpenDialog(k) PROVE TruthInv'
    BY <2>3 DEF OpenDialog, CanAct, TruthInv, CallInv, WaitingInv, PageIsTrue, membershipVars
  <2>4. CASE CloseDialog
    BY <2>4 DEF CloseDialog, TruthInv, CallInv, WaitingInv, PageIsTrue, membershipVars
  <2>5. CASE Confirm
    <3>1. dialog \in Changes /\ dialog \in Kinds /\ Begin(dialog)
      BY <2>5 DEF Confirm, TruthInv, CallInv, Kinds
    <3>2. CallInv'
      BY <2>5, <3>1, StartsTyped DEF Confirm, TruthInv, CallInv
    <3>3. ASSUME ~hasty PROVE WaitingInv'
      <4>1. calls = {} /\ PageIsTrue /\ dialog' = Nothing
        BY <2>5, <3>3 DEF Confirm, TruthInv, WaitingInv
      <4>2. busy' /\ "uninstall" \notin on'
        BY <2>5 DEF Confirm, Begin, Membership, Changes
      <4> QED
        BY <2>5, <3>1, <3>3, <4>1, <4>2, StartsAlone
           DEF Confirm, WaitingInv, PageIsTrue, membershipVars
    <3> QED
      BY <2>5, <3>2, <3>3 DEF Confirm, TruthInv, WaitingInv
  <2>6. ASSUME NEW c \in calls, Done(c) PROVE TruthInv'
    <3>1. calls' = calls \ {c} /\ busy' = FALSE /\ UNCHANGED <<hasty, device, count, dialog>>
      BY <2>6 DEF Done
    <3>2. CallInv'
      BY <3>1 DEF TruthInv, CallInv
    <3>3. ASSUME ~hasty PROVE WaitingInv'
      <4>1. /\ calls' = {}
            /\ c.out # "ok" => PageIsTrue
            /\ c.out \in {"yes", "no"} => c.out = device
            /\ c.out = "ok" => c.kind \in Changes
        BY <3>1, <3>3 DEF TruthInv, WaitingInv
      <4>2. CASE LoadDone(c)
        <5>1. PageIsTrue
          BY <4>1, <4>2 DEF LoadDone, Changes
        <5>2. known' \in {"unread", device} /\ group' \in {Nothing, device}
          BY <4>1, <4>2, <5>1 DEF LoadDone, Show, PageIsTrue
        <5>3. "uninstall" \in on' => device = "yes"
          BY <3>1, <4>2, <5>1, <5>2 DEF LoadDone, Show, Membership, Changes, PageIsTrue
        <5> QED
          BY <3>1, <4>1, <5>2, <5>3 DEF WaitingInv, PageIsTrue
      <4>3. CASE CheckDone(c)
        BY <3>1, <4>1, <4>3
           DEF CheckDone, Checks, Changes, PageIsTrue, WaitingInv, membershipVars
      <4>4. CASE ChangeDone(c)
        <5>1. known' \in {"unread", device} /\ group' \in {Nothing, device}
          BY <4>1, <4>4 DEF ChangeDone, PageIsTrue, membershipVars
        <5>2. "uninstall" \in on' => known' = "yes"
          BY <3>1, <4>4 DEF ChangeDone, Membership, Changes
        <5> QED
          BY <3>1, <4>1, <5>1, <5>2 DEF WaitingInv, PageIsTrue
      <4> QED
        BY <2>6, <4>2, <4>3, <4>4 DEF Done
    <3> QED
      BY <3>1, <3>2, <3>3 DEF TruthInv, WaitingInv
  <2>7. ASSUME NEW c \in calls, AgentEnds(c) PROVE TruthInv'
    <3>1. PICK how \in Outcomes :
            /\ Ends(c, how)
            /\ how \in {"yes", "no"} => how = device'
            /\ how = "ok" => c.kind \in Changes
            /\ how # "ok" => device' = device
            /\ device' \in {"yes", "no"}
      BY <2>7 DEF AgentEnds, TruthInv, CallInv, Outcomes
    <3>2. UNCHANGED <<hasty, count, on, dialog, known, group>> /\ c.out = "open"
      BY <2>7 DEF AgentEnds, membershipVars
    <3>3. c \in [id : Nat, kind : Kinds, out : Outcomes]
      BY DEF TruthInv, CallInv
    <3> DEFINE e == [c EXCEPT !.out = how]
    <3>4. e \in [id : Nat, kind : Kinds, out : Outcomes] /\ e.out = how /\ e.kind = c.kind
      BY <3>3
    <3>5. calls' = (calls \ {c}) \cup {e}
      BY <3>1 DEF Ends
    <3> HIDE DEF e
    <3>6. CallInv'
      BY <3>1, <3>2, <3>4, <3>5 DEF TruthInv, CallInv
    <3>7. ASSUME ~hasty PROVE WaitingInv'
      <4>1. calls = {c} /\ calls' = {e} /\ dialog = Nothing /\ PageIsTrue
        BY <3>2, <3>5, <3>7 DEF TruthInv, WaitingInv
      <4> QED
        BY <3>1, <3>2, <3>4, <4>1 DEF WaitingInv, PageIsTrue
    <3> QED
      BY <3>2, <3>6, <3>7 DEF TruthInv, WaitingInv
  <2>8. CASE UNCHANGED pageVars
    BY <2>8 DEF pageVars, TruthInv, CallInv, WaitingInv, PageIsTrue, membershipVars
  <2> QED
    BY <2>1, <2>2, <2>3, <2>4, <2>5, <2>6, <2>7, <2>8 DEF PageNext
<1> QED  BY <1>1, <1>2, PTL DEF PageSpec

\* For a user who does one thing at a time, what the page says about its
\* membership is what the agent would say now, in whatever way calls end and
\* however many there were (fleet.py, _show and exited).
THEOREM MembershipStaysTrue == PageSpec => []MembershipIsTrue
<1>1. TruthInv => MembershipIsTrue
  BY DEF TruthInv, WaitingInv, PageIsTrue, MembershipIsTrue
<1> QED  BY <1>1, PageFollowsDevice, PTL

\* A check in flight has been named by a click, and the two reports and the rows
\* are calls' numbers.  Only the check last clicked is drawn, so a report that
\* ends for the other one draws the named one again, below.
FindingsInv ==
  /\ result \in [Checks -> Nat]
  /\ from \in Checks \cup {Nothing}
  /\ from = Nothing => \A c \in calls : c.kind \notin Checks
  /\ rows \in Seq(Nat)
  /\ FindingsDrawn

\* What is drawn is drawn last, whatever is above it.
LEMMA FindingsLast ==
  ASSUME NEW old \in Seq(Nat), result' \in [Checks -> Nat], from' \in Checks,
         rows' = Findings(old)
  PROVE  rows' \in Seq(Nat) /\ FindingsDrawn'
<1> DEFINE told == result'[from']
<1>1. told \in Nat
  OBVIOUS
<1>2. rows' = old \o IF told = 0 THEN << >> ELSE <<told>>
  BY DEF Findings
<1> HIDE DEF told
<1>3. CASE told = 0
  <2>1. rows' \in Seq(Nat)
    BY <1>2, <1>3
  <2> QED  BY <1>3, <2>1 DEF FindingsDrawn, told
<1>4. CASE told # 0
  <2>1. <<told>> \in Seq(Nat) /\ Len(<<told>>) = 1 /\ <<told>>[1] = told
    BY <1>1
  <2>2. rows' = old \o <<told>>
    BY <1>2, <1>4
  <2>3. rows' \in Seq(Nat) /\ Len(rows') = Len(old) + 1
    BY <2>1, <2>2
  <2>4. rows'[Len(old) + 1] = told
    BY <2>1, <2>2
  <2>5. rows' # << >>
    BY <2>3
  <2> QED  BY <2>3, <2>4, <2>5 DEF FindingsDrawn, told
<1> QED  BY <1>3, <1>4

\* Whatever ran beside it, and in whatever order the two checks end, the report
\* the page holds of the check it names is the lowest of the group
\* (_render_findings, fleet.py:298-406).
THEOREM FindingsAreDrawn == PageSpec => []FindingsDrawn
<1>1. PageInit => FindingsInv
  BY DEF PageInit, FindingsInv, FindingsDrawn
<1>2. CallInv /\ FindingsInv /\ [PageNext]_pageVars => FindingsInv'
  <2> SUFFICES ASSUME CallInv, FindingsInv, [PageNext]_pageVars PROVE FindingsInv'
    OBVIOUS
  <2>1. ASSUME NEW kind \in {"status"} \cup Changes, Begin(kind), UNCHANGED findingVars
        PROVE  FindingsInv'
    <3>1. kind \notin Checks
      BY DEF Checks, Changes
    <3>2. \A c \in calls' : c \in calls \/ c.kind = kind
      BY <2>1 DEF Begin
    <3> QED
      BY <2>1, <3>1, <3>2 DEF FindingsInv, FindingsDrawn, findingVars
  <2>2. CASE Load
    BY <2>1, <2>2 DEF Load
  <2>3. CASE Confirm
    BY <2>1, <2>3 DEF Confirm, CallInv
  <2>4. ASSUME NEW k \in Checks, Check(k) PROVE FindingsInv'
    <3>1. result' = result /\ from' = k /\ rows' = Findings(<< >>)
      BY <2>4 DEF Check
    <3>2. result' \in [Checks -> Nat] /\ from' \in Checks /\ << >> \in Seq(Nat)
      BY <3>1 DEF FindingsInv
    <3>3. rows' \in Seq(Nat) /\ FindingsDrawn'
      BY <3>1, <3>2, FindingsLast
    <3>4. from' # Nothing
      BY <3>2 DEF Checks, Nothing
    <3> QED
      BY <3>2, <3>3, <3>4 DEF FindingsInv
  <2>5. CASE CloseDialog \/ \E k \in Changes : OpenDialog(k)
    BY <2>5 DEF CloseDialog, OpenDialog, FindingsInv, FindingsDrawn, findingVars
  <2>6. ASSUME NEW c \in calls, Done(c) PROVE FindingsInv'
    <3>1. calls' = calls \ {c}
      BY <2>6 DEF Done
    <3>2. CASE LoadDone(c) \/ ChangeDone(c)
      BY <3>1, <3>2 DEF LoadDone, ChangeDone, FindingsInv, FindingsDrawn, findingVars
    <3>3. CASE CheckDone(c)
      <4>1. /\ c.kind \in Checks /\ from' = from /\ rows' = Findings(rows)
            /\ result' = [result EXCEPT ![c.kind] = IF c.out = "report" THEN c.id ELSE 0]
        BY <3>3 DEF CheckDone
      <4>2. c.id \in Nat
        BY DEF CallInv
      <4>3. result' \in [Checks -> Nat]
        BY <4>1, <4>2 DEF FindingsInv
      <4>4. from' \in Checks /\ from' # Nothing
        BY <4>1 DEF FindingsInv, Checks, Nothing
      <4>5. rows' \in Seq(Nat) /\ FindingsDrawn'
        BY <4>1, <4>3, <4>4, FindingsLast DEF FindingsInv
      <4> QED
        BY <4>3, <4>4, <4>5 DEF FindingsInv
    <3> QED
      BY <2>6, <3>2, <3>3 DEF Done
  <2>7. ASSUME NEW c \in calls, AgentEnds(c) PROVE FindingsInv'
    <3>1. PICK how : Ends(c, how)
      BY <2>7 DEF AgentEnds
    <3>2. calls' = (calls \ {c}) \cup {[c EXCEPT !.out = how]}
      BY <3>1 DEF Ends
    <3>3. [c EXCEPT !.out = how].kind = c.kind
      OBVIOUS
    <3>4. \A e \in calls' : \E d \in calls : e.kind = d.kind
      BY <3>2, <3>3
    <3>5. UNCHANGED findingVars
      BY <2>7 DEF AgentEnds
    <3> QED
      BY <3>4, <3>5 DEF FindingsInv, FindingsDrawn, findingVars
  <2>8. CASE UNCHANGED pageVars
    BY <2>8 DEF pageVars, FindingsInv, FindingsDrawn, findingVars
  <2> QED
    BY <2>2, <2>3, <2>4, <2>5, <2>6, <2>7, <2>8 DEF PageNext
<1>3. FindingsInv => FindingsDrawn
  BY DEF FindingsInv
<1>4. TruthInv => CallInv
  BY DEF TruthInv
<1> QED  BY <1>1, <1>2, <1>3, <1>4, PageFollowsDevice, PTL DEF PageSpec
=============================================================================
