------------------------- MODULE FprintEnrollProofs -------------------------
(***************************************************************************)
(* Theorems about FprintEnroll, for every number of attempts.              *)
(*                                                                         *)
(* The argument is about one token, the reader: it is with fprintd, in an  *)
(* answer on its way to the page, held by the attempt, or on its way back. *)
(***************************************************************************)
EXTENDS FprintEnroll, SequenceTheorems, TLAPS

\* How an attempt can end, as the page says it.
Ends == {"stored", "error", "deadline", "cancelled"}

\* The types.  A timer belongs to an attempt, and a running scan to one too.
TypeOK ==
  /\ current \in Attempt \cup {0} /\ attempts \in Nat
  /\ claimed \in BOOLEAN /\ started \in BOOLEAN /\ timer \in BOOLEAN /\ sub \in BOOLEAN
  /\ timer => current # 0
  /\ stray \in [timers : Nat, subs : Nat]
  /\ sent \in Seq(Call) /\ inbox \in Seq(Message)
  /\ reader \in [ours : BOOLEAN, scan : {"no", "on", "over"}, for : Attempt \cup {0}]
  /\ reader.scan = "on" => reader.for # 0
  /\ stored \subseteq Attempt
  /\ said \in [Attempt -> Ends \cup {""}]

\* What is where: a message of the inbox, a call that is not served.
IsReply(i, m) == i \in DOMAIN inbox /\ inbox[i].what = "reply" /\ inbox[i].m = m
IsSignal(i)   == i \in DOMAIN inbox /\ inbox[i].what \in {"completed", "failed"}
IsCall(i, m)  == i \in DOMAIN sent /\ sent[i].m = m
Granted(i)    == IsReply(i, "Claim") /\ inbox[i].ok
OnlyClaims    == \A i \in DOMAIN sent : sent[i].m = "Claim"

\* The reader is a token.  While fprintd has it there is no scan, nothing is asked
\* of it but to claim it, and no answer on its way says that we hold it.
FreeInv ==
  ~reader.ours => /\ reader.scan = "no" /\ OnlyClaims /\ ~claimed
                  /\ \A i \in DOMAIN inbox : ~Granted(i) /\ ~IsReply(i, "EnrollStop")

\* The token is in an answer on its way: nothing has been done with it yet, and no
\* other message speaks of it.
GrantedInv ==
  \A i \in DOMAIN inbox : Granted(i) =>
    /\ reader.scan = "no" /\ OnlyClaims /\ ~claimed
    /\ \A j \in DOMAIN inbox : /\ ~IsReply(j, "EnrollStop")
                               /\ Granted(j) => j = i
                               /\ j > i => ~IsSignal(j)

\* The attempt holds the token: the scan is its own, nobody gives the reader back
\* behind it, and a "completed" that it will hear is of a finger that is stored.
HeldInv ==
  /\ sub = claimed /\ stray.subs = 0
  /\ claimed =>
       /\ current # 0
       /\ reader.scan = "on" => reader.for = current
       /\ \A i \in DOMAIN sent : sent[i].m = "Claim" \/ (sent[i].m = "EnrollStart" /\ sent[i].by = current)
       /\ \A i \in DOMAIN inbox : ~IsReply(i, "EnrollStop") /\ (inbox[i].what = "completed" => current \in stored)

\* The token is on its way back, once: an EnrollStop, its answer, a Release.
UndoneInv ==
  /\ \A i, j \in DOMAIN inbox : IsReply(i, "EnrollStop") /\ IsReply(j, "EnrollStop") => i = j
  /\ \A i \in DOMAIN inbox : IsReply(i, "EnrollStop") =>
        \A j \in DOMAIN sent : ~IsCall(j, "Release") /\ (IsCall(j, "EnrollStop") => ~sent[j].live)
  /\ \A i, j \in DOMAIN sent : IsCall(i, "EnrollStop") /\ sent[i].live =>
        /\ IsCall(j, "EnrollStop") /\ sent[j].live => j = i
        /\ ~IsCall(j, "Release")
  /\ \A i, j \in DOMAIN sent : IsCall(i, "Release") /\ j > i => IsCall(j, "Claim")

\* The strengthening of StoredIsTrue, whatever fprintd and the user do.
TokenInv == FreeInv /\ GrantedInv /\ HeldInv /\ UndoneInv /\ StoredIsTrue

\* A Claim, or its answer, is of the attempt under way, which waits for it.
ClaimInv ==
  /\ \A i \in DOMAIN sent : IsCall(i, "Claim") =>
       /\ sent[i].by = current /\ current # 0 /\ ~claimed
       /\ \A j \in DOMAIN sent : IsCall(j, "Claim") => j = i
       /\ \A j \in DOMAIN inbox : ~IsReply(j, "Claim")
  /\ \A i \in DOMAIN inbox : IsReply(i, "Claim") =>
       /\ inbox[i].by = current /\ current # 0 /\ ~claimed
       /\ \A j \in DOMAIN inbox : IsReply(j, "Claim") => j = i

\* An EnrollStart, or its answer, is of the attempt under way, which holds the
\* reader and waits for it; no signal comes before the answer, and a refused one
\* starts no scan.
StartInv ==
  /\ \A i \in DOMAIN sent : IsCall(i, "EnrollStart") =>
       /\ sent[i].by = current /\ claimed /\ ~started /\ reader.scan = "no"
       /\ \A j \in DOMAIN sent : IsCall(j, "EnrollStart") => j = i
       /\ \A j \in DOMAIN inbox : ~IsReply(j, "EnrollStart") /\ ~IsSignal(j)
  /\ \A i \in DOMAIN inbox : IsReply(i, "EnrollStart") =>
       /\ inbox[i].by = current /\ claimed /\ ~started
       /\ ~inbox[i].ok => reader.scan = "no"
       /\ \A j \in DOMAIN inbox : /\ IsReply(j, "EnrollStart") => j = i
                                  /\ IsSignal(j) => i < j
  /\ claimed /\ ~started => \/ \E i \in DOMAIN sent : IsCall(i, "EnrollStart")
                            \/ \E i \in DOMAIN inbox : IsReply(i, "EnrollStart")

\* No answer comes after its call was given up, and no timer is left behind.
FlagInv ==
  /\ \A i \in DOMAIN sent : sent[i].live
  /\ stray.timers = 0 /\ (timer => started) /\ (started => claimed)

\* A reader that is ours is held by the attempt, or on its way to it or back.
TokenThere ==
  reader.ours =>
    \/ \E i \in DOMAIN inbox : Granted(i) \/ IsReply(i, "EnrollStop")
    \/ claimed
    \/ \E i \in DOMAIN sent : IsCall(i, "EnrollStop") \/ IsCall(i, "Release")

\* What is given back has no scan under way.
StoppedInv ==
  /\ \A i \in DOMAIN sent : IsCall(i, "Release") => reader.scan = "no"
  /\ \A i \in DOMAIN inbox : IsReply(i, "EnrollStop") => reader.scan = "no"

\* The strengthening of ReaderGivenBack, for a user who waits and an fprintd that
\* answers in time.
OrderlyInv == ClaimInv /\ StartInv /\ FlagInv /\ TokenThere /\ StoppedInv
PatientInv == Patient => OrderlyInv

-----------------------------------------------------------------------------
\* What is left of a sequence without one of its elements.
LEMMA WithoutOne ==
  ASSUME NEW S, NEW s \in Seq(S), NEW i \in DOMAIN s
  PROVE  /\ Without(s, i) \in Seq(S)
         /\ DOMAIN Without(s, i) = 1..Len(s) - 1
         /\ \A j \in 1..Len(s) - 1 : Without(s, i)[j] = s[IF j < i THEN j ELSE j + 1]
<1>1. i \in 1..Len(s) /\ Len(s) \in Nat
  OBVIOUS
<1>2. /\ SubSeq(s, 1, i - 1) \in Seq(S) /\ Len(SubSeq(s, 1, i - 1)) = i - 1
      /\ \A j \in 1..i - 1 : SubSeq(s, 1, i - 1)[j] = s[j]
  BY <1>1
<1>3. /\ SubSeq(s, i + 1, Len(s)) \in Seq(S) /\ Len(SubSeq(s, i + 1, Len(s))) = Len(s) - i
      /\ \A j \in 1..Len(s) - i : SubSeq(s, i + 1, Len(s))[j] = s[i + j]
  BY <1>1
<1> DEFINE t == SubSeq(s, 1, i - 1)
           u == SubSeq(s, i + 1, Len(s))
<1>4. /\ t \in Seq(S) /\ Len(t) = i - 1 /\ u \in Seq(S) /\ Len(u) = Len(s) - i
      /\ \A j \in 1..i - 1 : t[j] = s[j]
      /\ \A j \in 1..Len(s) - i : u[j] = s[i + j]
  BY <1>2, <1>3
<1>5. Without(s, i) = t \o u
  BY DEF Without
<1> HIDE DEF t, u
<1>6. t \o u \in Seq(S) /\ DOMAIN (t \o u) = 1..Len(s) - 1
  BY <1>1, <1>4
<1>7. ASSUME NEW j \in 1..Len(s) - 1
      PROVE  (t \o u)[j] = s[IF j < i THEN j ELSE j + 1]
  <2>1. CASE j < i
    BY <1>1, <1>4, <2>1
  <2>2. CASE j >= i
    <3>1. \A m, k, n \in Nat : k \in 1..n /\ m \in 1..n - 1 /\ m >= k =>
            /\ m - (k - 1) \in 1..n - k /\ m \in 1..(k - 1) + (n - k) /\ ~(m <= k - 1)
            /\ k + (m - (k - 1)) = m + 1 /\ ~(m < k)
      OBVIOUS
    <3>2. /\ j - (i - 1) \in 1..Len(s) - i /\ j \in 1..Len(t) + Len(u) /\ ~(j <= Len(t))
          /\ i + (j - (i - 1)) = j + 1 /\ ~(j < i)
      <4>1. i \in Nat /\ j \in Nat /\ Len(s) \in Nat
        BY <1>1
      <4>2. Len(t) = i - 1 /\ Len(u) = Len(s) - i
        BY <1>4
      <4> QED  BY ONLY <1>1, <2>2, <3>1, <4>1, <4>2, j \in 1..Len(s) - 1
    <3>3. \A k \in 1..Len(t) + Len(u) : (t \o u)[k] = IF k <= Len(t) THEN t[k] ELSE u[k - Len(t)]
      BY <1>4, ConcatProperties
    <3>4. (t \o u)[j] = u[j - (i - 1)]
      BY <1>4, <3>2, <3>3
    <3>5. u[j - (i - 1)] = s[i + (j - (i - 1))]
      BY <1>4, <3>2
    <3> QED  BY <3>2, <3>4, <3>5
  <2>3. i \in Nat /\ j \in Nat
    BY <1>1
  <2>4. j < i \/ j >= i
    BY <2>3
  <2> QED  BY ONLY <2>1, <2>2, <2>4
<1> QED  BY <1>5, <1>6, <1>7

\* The ends of an attempt.
LEMMA EndIs ==
  ASSUME TypeOK, NEW how, End(how)
  PROVE  /\ current' = 0 /\ claimed' = FALSE /\ started' = FALSE /\ timer' = FALSE /\ sub' = FALSE
         /\ attempts' = attempts /\ said' = [said EXCEPT ![current] = how]
         /\ \/ ~claimed /\ sent' = sent
            \/ claimed /\ ~started /\ sent' = Append(sent, CallOf("Release", current))
            \/ claimed /\ started /\ sent' = Append(sent, CallOf("EnrollStop", current))
BY DEF TypeOK, End, NoAttempt, Make

\* What Make sends is a call.
LEMMA CallIs == ASSUME NEW m \in Methods, NEW a \in Attempt PROVE CallOf(m, a) \in Call
BY DEF CallOf, Call

\* What a call leaves that is served or given up.
LEMMA AnswerIs ==
  ASSUME NEW m \in Methods, NEW a \in Attempt, NEW ok \in BOOLEAN
  PROVE  [what |-> "reply", m |-> m, by |-> a, ok |-> ok] \in Message
BY DEF Message

\* A served call leaves the queue, in the order of the others, and is answered
\* unless D-Bus gave up on it.
LEMMA ServeIs ==
  ASSUME TypeOK, NEW i, NEW ok \in BOOLEAN, Serve(i, ok)
  PROVE  /\ i \in 1..Len(sent) /\ Len(sent) \in Nat /\ sent[i] \in Call
         /\ sent' \in Seq(Call) /\ DOMAIN sent' = 1..Len(sent) - 1
         /\ \A j \in DOMAIN sent' : sent'[j] = sent[IF j < i THEN j ELSE j + 1]
         /\ inbox' \in Seq(Message)
         /\ \/ ~sent[i].live /\ inbox' = inbox
            \/ sent[i].live /\ inbox' = Append(inbox, [what |-> "reply", m |-> sent[i].m,
                                                       by |-> sent[i].by, ok |-> ok])
         /\ sent[i].m # "Claim" => \A j \in 1..i - 1 : sent[j].m = "Claim"
         /\ UNCHANGED <<faults, attemptVars, stray, stored>>
<1>1. i \in DOMAIN sent /\ sent' = Without(sent, i) /\ sent \in Seq(Call)
  BY DEF Serve, TypeOK
<1>2. i \in 1..Len(sent) /\ Len(sent) \in Nat /\ sent[i] \in Call
  BY <1>1
<1>3. /\ sent' \in Seq(Call) /\ DOMAIN sent' = 1..Len(sent) - 1
      /\ \A j \in DOMAIN sent' : sent'[j] = sent[IF j < i THEN j ELSE j + 1]
  BY <1>1, WithoutOne
<1>4. sent[i].m \in Methods /\ sent[i].by \in Attempt /\ sent[i].live \in BOOLEAN
  BY <1>2 DEF Call
<1>5. [what |-> "reply", m |-> sent[i].m, by |-> sent[i].by, ok |-> ok] \in Message
  BY <1>4, AnswerIs
<1>6. inbox' \in Seq(Message)
  <2> DEFINE e == [what |-> "reply", m |-> sent[i].m, by |-> sent[i].by, ok |-> ok]
  <2>1. inbox \in Seq(Message) /\ (inbox' = inbox \/ inbox' = Append(inbox, e)) /\ e \in Message
    BY <1>5 DEF Serve, TypeOK
  <2> HIDE DEF e
  <2> QED  BY <2>1
<1> QED  BY <1>2, <1>3, <1>4, <1>6 DEF Serve

\* A call that D-Bus gives up on stays in the queue, and an error is sent.
LEMMA GiveUpIs ==
  ASSUME TypeOK, NEW i, GiveUp(i)
  PROVE  /\ "slow" \in faults
         /\ i \in 1..Len(sent) /\ Len(sent) \in Nat /\ sent[i] \in Call /\ sent[i].live
         /\ sent' \in Seq(Call) /\ DOMAIN sent' = DOMAIN sent
         /\ \A j \in DOMAIN sent : /\ sent'[j].m = sent[j].m /\ sent'[j].by = sent[j].by
                                   /\ j # i => sent'[j].live = sent[j].live
         /\ ~sent'[i].live
         /\ inbox' \in Seq(Message)
         /\ inbox' = Append(inbox, [what |-> "reply", m |-> sent[i].m, by |-> sent[i].by, ok |-> FALSE])
         /\ UNCHANGED <<attemptVars, stray, fprintdVars>>
<1>1. i \in DOMAIN sent /\ sent' = [sent EXCEPT ![i].live = FALSE] /\ sent \in Seq(Call)
  BY DEF GiveUp, TypeOK
<1>2. i \in 1..Len(sent) /\ Len(sent) \in Nat /\ sent[i] \in Call
  BY <1>1
<1>3. sent[i].m \in Methods /\ sent[i].by \in Attempt
  BY <1>2 DEF Call
<1>4. [what |-> "reply", m |-> sent[i].m, by |-> sent[i].by, ok |-> FALSE] \in Message
  BY <1>3, AnswerIs
<1>5. inbox' \in Seq(Message)
  <2> DEFINE e == [what |-> "reply", m |-> sent[i].m, by |-> sent[i].by, ok |-> FALSE]
  <2>1. inbox \in Seq(Message) /\ inbox' = Append(inbox, e) /\ e \in Message
    BY <1>4 DEF GiveUp, TypeOK
  <2> HIDE DEF e
  <2> QED  BY <2>1
<1>6. [sent[i] EXCEPT !.live = FALSE] \in Call
  BY <1>2 DEF Call
<1>7. sent' = [sent EXCEPT ![i] = [sent[i] EXCEPT !.live = FALSE]]
  BY <1>1
<1>8. sent' \in Seq(Call) /\ DOMAIN sent' = DOMAIN sent
  BY <1>1, <1>6, <1>7
<1>9. \A j \in DOMAIN sent : /\ sent'[j].m = sent[j].m /\ sent'[j].by = sent[j].by
                             /\ j # i => sent'[j].live = sent[j].live
  <2>1. \A j \in DOMAIN sent : j # i => sent'[j] = sent[j]
    BY <1>1, <1>7
  <2>2. sent'[i] = [sent[i] EXCEPT !.live = FALSE]
    BY <1>1, <1>7
  <2>3. sent'[i].m = sent[i].m /\ sent'[i].by = sent[i].by
    BY <1>2, <2>2 DEF Call
  <2> QED  BY <2>1, <2>3
<1>10. ~sent'[i].live
  BY <1>1, <1>2, <1>7 DEF Call
<1> QED  BY <1>2, <1>5, <1>8, <1>9, <1>10 DEF GiveUp

\* The main loop takes the first message.
LEMMA DispatchIs ==
  ASSUME TypeOK, Dispatch
  PROVE  /\ inbox # << >> /\ Head(inbox) \in Message /\ inbox' \in Seq(Message)
         /\ 1 \in DOMAIN inbox /\ Head(inbox) = inbox[1]
         /\ \A j \in DOMAIN inbox' : j \in Nat /\ j + 1 \in DOMAIN inbox /\ inbox'[j] = inbox[j + 1]
         /\ \A j \in DOMAIN inbox : j = 1 \/ (j - 1 \in DOMAIN inbox' /\ inbox'[j - 1] = inbox[j])
         /\ UNCHANGED fprintdVars
         /\ \/ /\ inbox[1].what = "reply" /\ inbox[1].m = "Claim" /\ OnClaimed(inbox[1].ok)
            \/ /\ inbox[1].what = "reply" /\ inbox[1].m = "EnrollStart" /\ OnEnrolled(inbox[1].ok)
            \/ /\ inbox[1].what = "reply" /\ inbox[1].m \in {"EnrollStop", "Release"}
               /\ OnUndone(inbox[1].m, inbox[1].by)
            \/ inbox[1].what \in {"completed", "failed"} /\ OnSignal(inbox[1].what)
<1>1. inbox \in Seq(Message) /\ inbox # << >> /\ inbox' = Tail(inbox)
  BY DEF Dispatch, TypeOK
<1>2. 1 \in DOMAIN inbox /\ Head(inbox) = inbox[1] /\ inbox' \in Seq(Message) /\ inbox[1] \in Message
  BY <1>1
<1>3. /\ \A j \in DOMAIN inbox' : j \in Nat /\ j + 1 \in DOMAIN inbox /\ inbox'[j] = inbox[j + 1]
      /\ \A j \in DOMAIN inbox : j = 1 \/ (j - 1 \in DOMAIN inbox' /\ inbox'[j - 1] = inbox[j])
  BY <1>1
<1>4. \/ inbox[1].what = "reply" /\ inbox[1].m \in Methods
      \/ inbox[1].what \in {"completed", "failed"}
  BY <1>2 DEF Message
<1>5. CASE inbox[1].what = "reply" /\ inbox[1].m \in Methods
  <2>1. OnReply(inbox[1].m, inbox[1].by, inbox[1].ok)
    BY <1>2, <1>5 DEF Dispatch
  <2>2. CASE inbox[1].m = "Claim"
    BY <1>1, <1>2, <1>3, <1>5, <2>1, <2>2 DEF OnReply, Dispatch
  <2>3. CASE inbox[1].m = "EnrollStart"
    BY <1>1, <1>2, <1>3, <1>5, <2>1, <2>3 DEF OnReply, Dispatch
  <2>4. CASE inbox[1].m \notin {"Claim", "EnrollStart"}
    <3>1. OnUndone(inbox[1].m, inbox[1].by)
      BY <2>1, <2>4 DEF OnReply
    <3> QED  BY <1>1, <1>2, <1>3, <1>5, <2>4, <3>1 DEF Dispatch, Methods
  <2> QED  BY <2>2, <2>3, <2>4
<1>6. CASE inbox[1].what \in {"completed", "failed"}
  BY <1>1, <1>2, <1>3, <1>6 DEF Dispatch
<1> QED  BY <1>4, <1>5, <1>6

\* A call of the page, at the end of those that wait.
LEMMA MakeIs ==
  ASSUME TypeOK, NEW m \in Methods, NEW a \in Attempt, sent' = Append(sent, CallOf(m, a))
  PROVE  /\ sent' \in Seq(Call) /\ Len(sent) \in Nat
         /\ DOMAIN sent = 1..Len(sent) /\ DOMAIN sent' = 1..Len(sent) + 1
         /\ \A j \in DOMAIN sent : sent'[j] = sent[j]
         /\ sent'[Len(sent) + 1].m = m /\ sent'[Len(sent) + 1].by = a /\ sent'[Len(sent) + 1].live
<1> DEFINE e == CallOf(m, a)
<1>1. e \in Call /\ e.m = m /\ e.by = a /\ e.live
  BY CallIs DEF CallOf
<1>2. sent \in Seq(Call) /\ sent' = Append(sent, e)
  BY DEF TypeOK
<1> HIDE DEF e
<1>3. sent' \in Seq(Call) /\ sent'[Len(sent) + 1] = e
  BY <1>1, <1>2
<1>4. /\ Len(sent) \in Nat /\ DOMAIN sent = 1..Len(sent) /\ DOMAIN sent' = 1..Len(sent) + 1
      /\ \A j \in DOMAIN sent : sent'[j] = sent[j]
  BY <1>1, <1>2
<1> QED  BY <1>1, <1>3, <1>4

\* The end of an attempt keeps the types of what it writes.
LEMMA EndTyped ==
  ASSUME TypeOK, NEW how \in Ends, current # 0, End(how)
  PROVE  /\ current' \in Attempt \cup {0} /\ attempts' \in Nat
         /\ claimed' \in BOOLEAN /\ started' \in BOOLEAN /\ ~timer' /\ timer' \in BOOLEAN /\ sub' \in BOOLEAN
         /\ sent' \in Seq(Call)
         /\ said' \in [Attempt -> Ends \cup {""}]
<1>1. current \in Attempt
  BY DEF TypeOK
<1>2. sent' \in Seq(Call)
  BY <1>1, EndIs, MakeIs DEF Methods, TypeOK
<1>3. said' \in [Attempt -> Ends \cup {""}]
  <2>1. said' = [said EXCEPT ![current] = how]
    BY EndIs
  <2>2. said \in [Attempt -> Ends \cup {""}] /\ how \in Ends \cup {""}
    BY DEF TypeOK
  <2> HIDE DEF Ends
  <2> QED  BY <1>1, <2>1, <2>2
<1>4. attempts' \in Nat
  BY EndIs DEF TypeOK
<1> QED  BY <1>1, <1>2, <1>3, <1>4, EndIs

\* Each step keeps the types.
LEMMA TypeStep == TypeOK /\ [Next]_vars => TypeOK'
<1> SUFFICES ASSUME TypeOK, [Next]_vars PROVE TypeOK'
  OBVIOUS
<1>1. CASE StartEnroll
  <2>1. attempts + 1 \in Attempt
    <3>1. attempts \in Nat /\ attempts < MaxAttempts
      BY <1>1 DEF StartEnroll, TypeOK
    <3> QED  BY <3>1, BoundAssumption DEF Attempt
  <2>2. sent' \in Seq(Call)
    BY <1>1, <2>1, MakeIs DEF StartEnroll, Make, Methods
  <2>3. attempts' \in Nat /\ current' \in Attempt
    <3>1. attempts' = attempts + 1 /\ current' = attempts + 1 /\ attempts \in Nat
      BY <1>1 DEF StartEnroll, TypeOK
    <3> QED  BY <2>1, <3>1
  <2> QED  BY <1>1, <2>2, <2>3 DEF StartEnroll, fprintdVars, TypeOK
<1>2. CASE CancelEnroll
  <2>1. current # 0 /\ End("cancelled") /\ UNCHANGED <<stray, inbox, fprintdVars>>
    BY <1>2 DEF CancelEnroll
  <2> QED  BY <2>1, EndTyped DEF Ends, fprintdVars, TypeOK
<1>3. CASE Dispatch
  <2>2. inbox' \in Seq(Message) /\ UNCHANGED fprintdVars
    BY <1>3, DispatchIs
  <2>3. CASE UNCHANGED <<attemptVars, stray, sent>>
    BY <2>2, <2>3 DEF attemptVars, fprintdVars, TypeOK
  <2>4. ASSUME NEW how \in Ends, current # 0, End(how), UNCHANGED stray
        PROVE  TypeOK'
    BY <2>2, <2>4, EndTyped DEF fprintdVars, TypeOK
  <2>5. ASSUME NEW m \in Methods, NEW a \in Attempt, Make(m, a)
        PROVE  sent' \in Seq(Call)
    BY <2>5, MakeIs DEF Make
  <2>6. /\ stray \in [timers : Nat, subs : Nat]
        /\ [stray EXCEPT !.subs = @ + 1] \in [timers : Nat, subs : Nat]
        /\ [stray EXCEPT !.timers = @ + 1] \in [timers : Nat, subs : Nat]
    <3>1. stray \in [timers : Nat, subs : Nat]
      BY DEF TypeOK
    <3> QED  BY <3>1
  <2>7. current # 0 => current \in Attempt
    BY DEF TypeOK
  <2>8. CASE OnClaimed(inbox[1].ok)
    <3>1. CASE /\ current # 0 /\ claimed' = TRUE /\ sub' = TRUE
               /\ stray' = IF sub THEN [stray EXCEPT !.subs = @ + 1] ELSE stray
               /\ Make("EnrollStart", current)
               /\ UNCHANGED <<attempts, current, started, timer, said>>
      <4>1. sent' \in Seq(Call)
        BY <2>5, <2>7, <3>1 DEF Methods
      <4>2. stray' \in [timers : Nat, subs : Nat]
        BY <2>6, <3>1
      <4> QED  BY <2>2, <3>1, <4>1, <4>2 DEF fprintdVars, TypeOK
    <3> QED  BY <2>3, <2>4, <2>8, <3>1 DEF OnClaimed, Ends
  <2>9. CASE OnEnrolled(inbox[1].ok)
    <3>1. CASE /\ current # 0 /\ started' = TRUE /\ timer' = TRUE
               /\ stray' = IF timer THEN [stray EXCEPT !.timers = @ + 1] ELSE stray
               /\ UNCHANGED <<attempts, current, claimed, sub, said, sent>>
      <4>1. stray' \in [timers : Nat, subs : Nat]
        BY <2>6, <3>1
      <4> QED  BY <2>2, <3>1, <4>1 DEF fprintdVars, TypeOK
    <3> QED  BY <2>3, <2>4, <2>9, <3>1 DEF OnEnrolled, Ends
  <2>10. CASE OnUndone(inbox[1].m, inbox[1].by) /\ inbox[1].what = "reply"
    <3>1. inbox[1].by \in Attempt
      BY <1>3, <2>10, DispatchIs DEF Message
    <3>2. sent' \in Seq(Call)
      BY <2>5, <2>10, <3>1 DEF OnUndone, Methods, TypeOK
    <3> QED  BY <2>2, <2>10, <3>2 DEF OnUndone, attemptVars, fprintdVars, TypeOK
  <2>11. CASE OnSignal(inbox[1].what)
    BY <2>3, <2>4, <2>11 DEF OnSignal, Ends
  <2> QED  BY <1>3, <2>8, <2>9, <2>10, <2>11, DispatchIs
<1>4. CASE Deadline /\ UNCHANGED <<inbox, fprintdVars>>
  <2>1. ASSUME stray.timers > 0, stray' = [stray EXCEPT !.timers = @ - 1]
        PROVE  stray' \in [timers : Nat, subs : Nat]
    <3>1. stray \in [timers : Nat, subs : Nat]
      BY DEF TypeOK
    <3> QED  BY <2>1, <3>1
  <2>2. timer => current # 0
    BY DEF TypeOK
  <2>3. CASE End("deadline") /\ current # 0 /\ stray' \in [timers : Nat, subs : Nat]
    BY <1>4, <2>3, EndTyped DEF Ends, fprintdVars, TypeOK
  <2>4. CASE UNCHANGED <<attemptVars, sent>> /\ stray' \in [timers : Nat, subs : Nat]
    BY <1>4, <2>4 DEF attemptVars, fprintdVars, TypeOK
  <2> QED  BY <1>4, <2>1, <2>2, <2>3, <2>4 DEF Deadline, TypeOK
<1>5. ASSUME NEW i \in DOMAIN sent, Accept(i) PROVE TypeOK'
  <2>1. Serve(i, TRUE)
    BY <1>5 DEF Accept
  <2>2. reader' \in [ours : BOOLEAN, scan : {"no", "on", "over"}, for : Attempt \cup {0}]
    BY <1>5, <2>1, ServeIs DEF Accept, TypeOK, Call, Methods
  <2>3. reader'.scan = "on" => reader'.for # 0
    <3>1. sent[i].by # 0
      <4>1. sent[i] \in Call
        BY <2>1, ServeIs
      <4> QED  BY <4>1 DEF Call, Attempt
    <3>2. sent[i].m \in Methods
      BY <2>1, ServeIs DEF Call
    <3> QED  BY <1>5, <3>1, <3>2 DEF Accept, TypeOK, Methods
  <2> QED  BY <2>1, <2>2, <2>3, ServeIs DEF TypeOK, attemptVars
<1>6. ASSUME NEW i \in DOMAIN sent, Refuse(i) PROVE TypeOK'
  <2>1. Serve(i, FALSE) /\ UNCHANGED reader
    BY <1>6 DEF Refuse
  <2> QED  BY <2>1, ServeIs DEF TypeOK, attemptVars
<1>7. ASSUME NEW i \in DOMAIN sent, GiveUp(i) PROVE TypeOK'
  BY <1>7, GiveUpIs DEF TypeOK, attemptVars, fprintdVars
<1>8. CASE Scan
  <2>1. [what |-> "completed"] \in Message /\ [what |-> "failed"] \in Message
    BY DEF Message
  <2>2. inbox' \in Seq(Message)
    <3>1. inbox \in Seq(Message) /\ \E e \in Message : inbox' = Append(inbox, e)
      BY <1>8, <2>1 DEF Scan, TypeOK
    <3> QED  BY <3>1
  <2>3. /\ reader' \in [ours : BOOLEAN, scan : {"no", "on", "over"}, for : Attempt \cup {0}]
        /\ reader'.scan = "over" /\ stored' \subseteq Attempt
    BY <1>8 DEF Scan, TypeOK
  <2> QED  BY <1>8, <2>2, <2>3 DEF Scan, TypeOK, attemptVars
<1>9. CASE UNCHANGED vars
  BY <1>9 DEF vars, TypeOK
<1> QED  BY <1>1, <1>2, <1>3, <1>4, <1>5, <1>6, <1>7, <1>8, <1>9 DEF Next, Page, Loop, Fprintd

-----------------------------------------------------------------------------
\* The messages that are left are those that were there, but for the first d.
Shrunk(d) == \A j \in DOMAIN inbox' : j \in Nat /\ j + d \in DOMAIN inbox /\ inbox'[j] = inbox[j + d]

\* A message that changes nothing of the attempt is dropped.
LEMMA StillKeeps ==
  ASSUME TypeOK, TypeOK', TokenInv, NEW d \in {0, 1}, Shrunk(d), stray'.subs = stray.subs,
         UNCHANGED <<current, claimed, sub, sent, reader, stored, said>>
  PROVE  TokenInv'
<1>1. FreeInv'
  BY DEF TokenInv, FreeInv, Shrunk, Granted, IsReply, OnlyClaims
<1>2. GrantedInv'
  BY DEF TokenInv, GrantedInv, Shrunk, Granted, IsReply, IsSignal, OnlyClaims
<1>3. HeldInv'
  BY DEF TokenInv, HeldInv, Shrunk, IsReply
<1>4. UndoneInv'
  BY DEF TokenInv, UndoneInv, Shrunk, IsReply, IsCall
<1>5. StoredIsTrue'
  BY DEF TokenInv, StoredIsTrue
<1> QED  BY <1>1, <1>2, <1>3, <1>4, <1>5 DEF TokenInv

\* The attempt ends, and the token goes on its way back.
LEMMA EndKeeps ==
  ASSUME TypeOK, TypeOK', TokenInv, NEW d \in {0, 1}, Shrunk(d), stray'.subs = stray.subs,
         UNCHANGED <<reader, stored>>, current # 0,
         NEW how \in Ends, End(how), how = "stored" => current \in stored
  PROVE  TokenInv'
<1>1. current \in Attempt
  BY DEF TypeOK
<1>2. /\ current' = 0 /\ claimed' = FALSE /\ sub' = FALSE
      /\ said' = [said EXCEPT ![current] = how]
  BY EndIs
<1>3. StoredIsTrue'
  <2>1. said \in [Attempt -> Ends \cup {""}]
    BY DEF TypeOK
  <2> QED  BY <1>1, <1>2, <2>1 DEF TokenInv, StoredIsTrue
<1>4. HeldInv'
  BY <1>2 DEF TokenInv, HeldInv
<1>5. CASE ~claimed /\ sent' = sent
  <2>1. FreeInv'
    BY <1>2, <1>5 DEF TokenInv, FreeInv, Shrunk, Granted, IsReply, OnlyClaims
  <2>2. GrantedInv'
    BY <1>2, <1>5 DEF TokenInv, GrantedInv, Shrunk, Granted, IsReply, IsSignal, OnlyClaims
  <2>3. UndoneInv'
    BY <1>5 DEF TokenInv, UndoneInv, Shrunk, IsReply, IsCall
  <2> QED  BY <1>3, <1>4, <2>1, <2>2, <2>3 DEF TokenInv
<1>6. ASSUME NEW m \in {"EnrollStop", "Release"}, claimed, sent' = Append(sent, CallOf(m, current))
      PROVE  TokenInv'
  <2>1. /\ sent' \in Seq(Call) /\ Len(sent) \in Nat
        /\ DOMAIN sent = 1..Len(sent) /\ DOMAIN sent' = 1..Len(sent) + 1
        /\ \A j \in DOMAIN sent : sent'[j] = sent[j]
        /\ sent'[Len(sent) + 1].m = m
    BY <1>1, <1>6, MakeIs DEF Methods
  <2>2. FreeInv'
    BY <1>6 DEF TokenInv, FreeInv
  <2>3. \A i \in DOMAIN inbox : ~Granted(i) /\ ~IsReply(i, "EnrollStop")
    BY <1>6 DEF TokenInv, GrantedInv, HeldInv
  <2>4. \A i \in DOMAIN inbox' : ~Granted(i)' /\ ~IsReply(i, "EnrollStop")'
    BY <2>3 DEF Shrunk, Granted, IsReply
  <2>5. GrantedInv'
    BY <2>4 DEF GrantedInv
  <2>6. \A j \in DOMAIN sent : sent[j].m \in {"Claim", "EnrollStart"}
    BY <1>6 DEF TokenInv, HeldInv
  <2>7. UndoneInv'
    BY <2>1, <2>4, <2>6 DEF UndoneInv, IsCall
  <2> QED  BY <1>3, <1>4, <2>2, <2>5, <2>7 DEF TokenInv
<1> QED  BY <1>5, <1>6, EndIs

\* A new attempt asks for the token.
LEMMA StartKeeps == ASSUME TypeOK, TypeOK', TokenInv, StartEnroll PROVE TokenInv'
<1>1. /\ current = 0 /\ attempts' = attempts + 1 /\ current' = attempts + 1
      /\ sent' = Append(sent, CallOf("Claim", attempts'))
      /\ UNCHANGED <<claimed, started, timer, sub, said, stray, inbox, reader, stored>>
  BY DEF StartEnroll, Make, fprintdVars
<1>2. ~claimed
  BY <1>1 DEF TokenInv, HeldInv
<1>3. current' \in Attempt
  <2>1. current' \in Attempt \cup {0} /\ attempts \in Nat
    BY DEF TypeOK
  <2> QED  BY <1>1, <2>1
<1>4. /\ sent' \in Seq(Call) /\ Len(sent) \in Nat
      /\ DOMAIN sent = 1..Len(sent) /\ DOMAIN sent' = 1..Len(sent) + 1
      /\ \A j \in DOMAIN sent : sent'[j] = sent[j]
      /\ sent'[Len(sent) + 1].m = "Claim"
  BY <1>1, <1>3, MakeIs DEF Methods
<1>5. FreeInv'
  BY <1>1, <1>4 DEF TokenInv, FreeInv, Granted, IsReply, OnlyClaims
<1>6. GrantedInv'
  BY <1>1, <1>4 DEF TokenInv, GrantedInv, Granted, IsReply, IsSignal, OnlyClaims
<1>7. HeldInv' /\ StoredIsTrue'
  BY <1>1, <1>2 DEF TokenInv, HeldInv, StoredIsTrue
<1>8. UndoneInv'
  BY <1>1, <1>4 DEF TokenInv, UndoneInv, IsReply, IsCall
<1> QED  BY <1>5, <1>6, <1>7, <1>8 DEF TokenInv

\* A Claim that was granted makes the attempt of the moment the holder.
LEMMA ClaimedKeeps ==
  ASSUME TypeOK, TypeOK', TokenInv, Shrunk(1), Granted(1),
         \A j \in DOMAIN inbox' : j \in Nat /\ j > 0,
         current # 0, claimed' = TRUE, sub' = TRUE,
         stray' = IF sub THEN [stray EXCEPT !.subs = @ + 1] ELSE stray,
         sent' = Append(sent, CallOf("EnrollStart", current)),
         UNCHANGED <<current, reader, stored, said>>
  PROVE  TokenInv'
<1>1. /\ reader.scan = "no" /\ OnlyClaims /\ ~claimed /\ reader.ours
      /\ \A j \in DOMAIN inbox : /\ ~IsReply(j, "EnrollStop")
                                 /\ j # 1 => ~Granted(j)
                                 /\ j > 1 => ~IsSignal(j)
  BY DEF TokenInv, FreeInv, GrantedInv, Granted, IsReply
<1>2. current \in Attempt /\ stray' = stray
  BY <1>1 DEF TokenInv, HeldInv, TypeOK
<1>3. /\ sent' \in Seq(Call) /\ Len(sent) \in Nat
      /\ DOMAIN sent = 1..Len(sent) /\ DOMAIN sent' = 1..Len(sent) + 1
      /\ \A j \in DOMAIN sent : sent'[j] = sent[j]
      /\ sent'[Len(sent) + 1].m = "EnrollStart" /\ sent'[Len(sent) + 1].by = current
  BY <1>2, MakeIs DEF Methods
<1>4. \A j \in DOMAIN inbox' : /\ ~Granted(j)' /\ ~IsReply(j, "EnrollStop")' /\ ~IsSignal(j)'
  BY <1>1 DEF Shrunk, Granted, IsReply, IsSignal
<1>5. FreeInv' /\ GrantedInv'
  BY <1>1, <1>4 DEF FreeInv, GrantedInv
<1>6. \A j \in DOMAIN sent' : sent'[j].m = "Claim" \/ (sent'[j].m = "EnrollStart" /\ sent'[j].by = current)
  BY <1>1, <1>3 DEF OnlyClaims
<1>7. HeldInv'
  BY <1>1, <1>2, <1>4, <1>6 DEF TokenInv, HeldInv, IsSignal
<1>8. UndoneInv'
  BY <1>4, <1>6 DEF UndoneInv, IsCall
<1>9. StoredIsTrue'
  BY DEF TokenInv, StoredIsTrue
<1> QED  BY <1>5, <1>7, <1>8, <1>9 DEF TokenInv

\* After the scans were stopped the reader is given back.
LEMMA StoppedKeeps ==
  ASSUME TypeOK, TypeOK', TokenInv, Shrunk(1), IsReply(1, "EnrollStop"),
         \A j \in DOMAIN inbox' : j \in Nat /\ j > 0,
         sent' = Append(sent, CallOf("Release", inbox[1].by)),
         UNCHANGED <<current, claimed, sub, stray, reader, stored, said>>
  PROVE  TokenInv'
<1>1. inbox[1].by \in Attempt
  <2>1. inbox[1] \in Message /\ inbox[1].what = "reply"
    <3>1. inbox \in Seq(Message) /\ 1 \in DOMAIN inbox /\ inbox[1].what = "reply"
      BY DEF TypeOK, IsReply
    <3> QED  BY <3>1
  <2> QED  BY <2>1 DEF Message
<1>2. /\ sent' \in Seq(Call) /\ Len(sent) \in Nat
      /\ DOMAIN sent = 1..Len(sent) /\ DOMAIN sent' = 1..Len(sent) + 1
      /\ \A j \in DOMAIN sent : sent'[j] = sent[j]
      /\ sent'[Len(sent) + 1].m = "Release"
  BY <1>1, MakeIs DEF Methods
<1>3. /\ reader.ours /\ ~claimed
      /\ \A j \in DOMAIN inbox : ~Granted(j) /\ (j # 1 => ~IsReply(j, "EnrollStop"))
      /\ \A j \in DOMAIN sent : ~IsCall(j, "Release") /\ (IsCall(j, "EnrollStop") => ~sent[j].live)
  BY DEF TokenInv, FreeInv, GrantedInv, HeldInv, UndoneInv, IsReply
<1>4. \A j \in DOMAIN inbox' : ~Granted(j)' /\ ~IsReply(j, "EnrollStop")'
  BY <1>3 DEF Shrunk, Granted, IsReply
<1>5. FreeInv' /\ GrantedInv' /\ HeldInv'
  BY <1>3, <1>4 DEF TokenInv, FreeInv, GrantedInv, HeldInv
<1>6. UndoneInv'
  BY <1>2, <1>3, <1>4 DEF UndoneInv, IsCall
<1>7. StoredIsTrue'
  BY DEF TokenInv, StoredIsTrue
<1> QED  BY <1>5, <1>6, <1>7 DEF TokenInv

\* So each message keeps the token.
LEMMA DispatchKeeps == ASSUME TypeOK, TypeOK', TokenInv, Dispatch PROVE TokenInv'
<1>1. /\ 1 \in DOMAIN inbox /\ Shrunk(1) /\ \A j \in DOMAIN inbox' : j \in Nat /\ j > 0
      /\ UNCHANGED <<reader, stored>>
  <2>1. inbox' \in Seq(Message)
    BY DispatchIs
  <2>2. \A j \in DOMAIN inbox' : j \in Nat /\ j > 0
    BY <2>1
  <2> QED  BY <2>2, DispatchIs DEF Shrunk, fprintdVars
<1>2. CASE UNCHANGED <<attemptVars, stray, sent>>
  BY <1>1, <1>2, StillKeeps DEF attemptVars
<1>3. ASSUME NEW how \in Ends, current # 0, End(how), UNCHANGED stray, how = "stored" => current \in stored
      PROVE  TokenInv'
  BY <1>1, <1>3, EndKeeps
<1>4. CASE inbox[1].what = "reply" /\ inbox[1].m = "Claim" /\ OnClaimed(inbox[1].ok)
  <2>1. CASE /\ current # 0 /\ inbox[1].ok /\ claimed' = TRUE /\ sub' = TRUE
             /\ stray' = IF sub THEN [stray EXCEPT !.subs = @ + 1] ELSE stray
             /\ Make("EnrollStart", current)
             /\ UNCHANGED <<attempts, current, started, timer, said>>
    <3>1. Granted(1)
      BY <1>1, <1>4, <2>1 DEF Granted, IsReply
    <3> QED  BY <1>1, <2>1, <3>1, ClaimedKeeps DEF Make
  <2> QED  BY <1>2, <1>3, <1>4, <2>1 DEF OnClaimed, Ends
<1>5. CASE inbox[1].what = "reply" /\ inbox[1].m = "EnrollStart" /\ OnEnrolled(inbox[1].ok)
  <2>1. CASE /\ stray' = IF timer THEN [stray EXCEPT !.timers = @ + 1] ELSE stray
             /\ UNCHANGED <<attempts, current, claimed, sub, said, sent>>
    <3>1. stray'.subs = stray.subs
      BY <2>1 DEF TypeOK
    <3> QED  BY <1>1, <2>1, <3>1, StillKeeps
  <2> QED  BY <1>2, <1>3, <1>5, <2>1 DEF OnEnrolled, Ends
<1>6. CASE /\ inbox[1].what = "reply" /\ inbox[1].m \in {"EnrollStop", "Release"}
           /\ OnUndone(inbox[1].m, inbox[1].by)
  <2>1. CASE inbox[1].m = "EnrollStop"
    <3>1. IsReply(1, "EnrollStop") /\ sent' = Append(sent, CallOf("Release", inbox[1].by))
          /\ UNCHANGED <<attemptVars, stray>>
      BY <1>1, <1>6, <2>1 DEF IsReply, OnUndone, Make
    <3> QED  BY <1>1, <3>1, StoppedKeeps DEF attemptVars
  <2>2. CASE inbox[1].m = "Release"
    BY <1>2, <1>6, <2>2 DEF OnUndone
  <2> QED  BY <1>6, <2>1, <2>2
<1>7. CASE inbox[1].what \in {"completed", "failed"} /\ OnSignal(inbox[1].what)
  <2>1. CASE current # 0 /\ (sub \/ stray.subs > 0)
    <3>1. claimed
      BY <2>1 DEF TokenInv, HeldInv
    <3>2. inbox[1].what = "completed" => current \in stored
      BY <1>1, <3>1 DEF TokenInv, HeldInv
    <3>3. End(IF inbox[1].what = "completed" THEN "stored" ELSE "error") /\ UNCHANGED stray
      BY <1>7, <2>1 DEF OnSignal
    <3> QED  BY <1>3, <2>1, <3>2, <3>3 DEF Ends
  <2>2. CASE ~(current # 0 /\ (sub \/ stray.subs > 0))
    BY <1>2, <1>7, <2>2 DEF OnSignal
  <2> QED  BY <2>1, <2>2
<1> QED  BY <1>4, <1>5, <1>6, <1>7, DispatchIs

-----------------------------------------------------------------------------
\* Where the j-th call was before the i-th was served.
Old(i, j) == IF j < i THEN j ELSE j + 1

\* A message more, at the end.
LEMMA MoreIs ==
  ASSUME TypeOK, NEW msg, inbox' = Append(inbox, msg)
  PROVE  /\ Len(inbox) \in Nat /\ Len(inbox) + 1 \in DOMAIN inbox' /\ inbox'[Len(inbox) + 1] = msg
         /\ \A j \in DOMAIN inbox : j \in DOMAIN inbox' /\ inbox'[j] = inbox[j] /\ j < Len(inbox) + 1
         /\ \A j \in DOMAIN inbox' : j \in DOMAIN inbox \/ j = Len(inbox) + 1
<1>1. inbox \in Seq(Message) /\ Len(inbox) \in Nat /\ DOMAIN inbox = 1..Len(inbox)
  <2>1. inbox \in Seq(Message)
    BY DEF TypeOK
  <2> QED  BY <2>1
<1>2. /\ DOMAIN inbox' = 1..Len(inbox) + 1 /\ inbox'[Len(inbox) + 1] = msg
      /\ \A j \in DOMAIN inbox : inbox'[j] = inbox[j]
  BY <1>1
<1> QED  BY <1>1, <1>2

\* The calls and messages after a call is served, by where they were before.
LEMMA ServeShape ==
  ASSUME TypeOK, NEW i, NEW ok \in BOOLEAN, Serve(i, ok)
  PROVE  /\ \A j \in DOMAIN sent' : /\ Old(i, j) \in DOMAIN sent /\ Old(i, j) # i
                                    /\ sent'[j] = sent[Old(i, j)]
         /\ \A j, k \in DOMAIN sent' : /\ Old(i, j) = Old(i, k) => j = k
                                       /\ j > k => Old(i, j) > Old(i, k)
         /\ \A j \in DOMAIN inbox : j \in DOMAIN inbox' /\ inbox'[j] = inbox[j]
         /\ \A j \in DOMAIN inbox' :
              \/ j \in DOMAIN inbox
              \/ /\ sent[i].live /\ inbox'[j].what = "reply" /\ inbox'[j].m = sent[i].m
                 /\ inbox'[j].by = sent[i].by /\ inbox'[j].ok = ok
                 /\ j = Len(inbox) + 1 /\ \A k \in DOMAIN inbox : k < j
<1>1. /\ i \in 1..Len(sent) /\ Len(sent) \in Nat /\ DOMAIN sent = 1..Len(sent)
      /\ DOMAIN sent' = 1..Len(sent) - 1
      /\ \A j \in DOMAIN sent' : sent'[j] = sent[IF j < i THEN j ELSE j + 1]
  <2>1. sent \in Seq(Call)
    BY DEF TypeOK
  <2>2. DOMAIN sent = 1..Len(sent)
    BY <2>1
  <2> QED  BY <2>2, ServeIs
<1>2. \A j \in DOMAIN sent' : Old(i, j) \in DOMAIN sent /\ Old(i, j) # i /\ sent'[j] = sent[Old(i, j)]
  BY <1>1 DEF Old
<1>3. \A j, k \in DOMAIN sent' : /\ Old(i, j) = Old(i, k) => j = k
                                 /\ j > k => Old(i, j) > Old(i, k)
  BY <1>1 DEF Old
<1>4. CASE inbox' = inbox
  BY <1>2, <1>3, <1>4
<1>5. CASE sent[i].live /\ inbox' = Append(inbox, [what |-> "reply", m |-> sent[i].m,
                                                   by |-> sent[i].by, ok |-> ok])
  BY <1>2, <1>3, <1>5, MoreIs
<1> QED  BY <1>4, <1>5, ServeIs

\* A call that is served leaves at most the answer to the stop of the scans.
LEMMA ServeUndone ==
  ASSUME TypeOK, UndoneInv, NEW i, NEW ok \in BOOLEAN, Serve(i, ok)
  PROVE  UndoneInv'
<1>1. i \in DOMAIN sent
  BY DEF Serve
<1>2. /\ \A j, k \in DOMAIN sent' : IsCall(j, "Release")' /\ k > j => IsCall(k, "Claim")'
      /\ \A j, k \in DOMAIN sent' : IsCall(j, "EnrollStop")' /\ sent'[j].live =>
            /\ IsCall(k, "EnrollStop")' /\ sent'[k].live => k = j
            /\ ~IsCall(k, "Release")'
  BY ServeShape DEF UndoneInv, IsCall
<1>3. \A j, k \in DOMAIN inbox' : IsReply(j, "EnrollStop")' /\ IsReply(k, "EnrollStop")' => j = k
  BY <1>1, ServeShape DEF UndoneInv, IsCall, IsReply
<1>4. \A j \in DOMAIN inbox' : IsReply(j, "EnrollStop")' =>
        \A k \in DOMAIN sent' : ~IsCall(k, "Release")' /\ (IsCall(k, "EnrollStop")' => ~sent'[k].live)
  <2> SUFFICES ASSUME NEW j \in DOMAIN inbox', IsReply(j, "EnrollStop")', NEW k \in DOMAIN sent'
               PROVE  ~IsCall(k, "Release")' /\ (IsCall(k, "EnrollStop")' => ~sent'[k].live)
    OBVIOUS
  <2>1. Old(i, k) \in DOMAIN sent /\ Old(i, k) # i /\ sent'[k] = sent[Old(i, k)]
    BY ServeShape
  <2>2. CASE j \in DOMAIN inbox
    BY <2>1, <2>2, ServeShape DEF UndoneInv, IsCall, IsReply
  <2>3. CASE j \notin DOMAIN inbox
    <3>1. IsCall(i, "EnrollStop") /\ sent[i].live
      BY <1>1, <2>3, ServeShape DEF IsCall, IsReply
    <3> QED  BY <1>1, <2>1, <3>1 DEF UndoneInv, IsCall
  <2> QED  BY <2>2, <2>3
<1> QED  BY <1>2, <1>3, <1>4 DEF UndoneInv

\* A call that is served and is neither a Claim that is granted nor a Release.
LEMMA ServeKeeps ==
  ASSUME TypeOK, TypeOK', TokenInv, NEW i \in DOMAIN sent, NEW ok \in BOOLEAN, Serve(i, ok),
         ok => sent[i].m # "Claim", reader'.ours = reader.ours,
         \/ reader'.scan = reader.scan /\ reader'.for = reader.for
         \/ reader'.scan = "no"
         \/ sent[i].m = "EnrollStart" /\ reader'.for = sent[i].by
  PROVE  TokenInv'
<1>1. UNCHANGED <<current, claimed, sub, stray, stored, said>>
  BY ServeIs DEF attemptVars
<1>2. FreeInv'
  BY <1>1, ServeShape DEF TokenInv, FreeInv, OnlyClaims, Granted, IsReply
<1>3. ASSUME NEW j \in DOMAIN inbox', Granted(j)'
      PROVE  /\ reader'.scan = "no" /\ OnlyClaims' /\ ~claimed'
             /\ \A k \in DOMAIN inbox' :
                  /\ ~IsReply(k, "EnrollStop")'
                  /\ Granted(k)' => k = j
                  /\ k > j => ~IsSignal(k)'
  <2>1. j \in DOMAIN inbox /\ Granted(j)
    BY <1>3, ServeShape DEF Granted, IsReply
  <2>2. /\ reader.scan = "no" /\ OnlyClaims /\ ~claimed
        /\ \A k \in DOMAIN inbox : /\ ~IsReply(k, "EnrollStop")
                                   /\ Granted(k) => k = j
                                   /\ k > j => ~IsSignal(k)
    BY <2>1 DEF TokenInv, GrantedInv
  <2>3. sent[i].m = "Claim" /\ reader'.scan = "no"
    BY <2>2 DEF OnlyClaims
  <2>4. OnlyClaims'
    BY <2>2, ServeShape DEF OnlyClaims
  <2> QED  BY <1>1, <2>2, <2>3, <2>4, ServeShape DEF Granted, IsReply, IsSignal
<1>4. HeldInv'
  BY <1>1, ServeShape DEF TokenInv, HeldInv, IsReply
<1>5. UndoneInv' /\ StoredIsTrue'
  BY <1>1, ServeUndone DEF TokenInv, StoredIsTrue
<1>6. GrantedInv'
  BY ONLY <1>3 DEF GrantedInv
<1> QED  BY <1>2, <1>4, <1>5, <1>6 DEF TokenInv

\* A Claim that is accepted puts the token in an answer.
LEMMA ClaimKeeps ==
  ASSUME TypeOK, TypeOK', TokenInv, NEW i \in DOMAIN sent, NEW ok \in BOOLEAN, Serve(i, ok), sent[i].m = "Claim",
         ~reader.ours, reader'.ours, reader'.scan = reader.scan
  PROVE  TokenInv'
<1>1. UNCHANGED <<current, claimed, sub, stray, stored, said>>
  BY ServeIs DEF attemptVars
<1>2. /\ reader.scan = "no" /\ OnlyClaims /\ ~claimed
      /\ \A j \in DOMAIN inbox : ~Granted(j) /\ ~IsReply(j, "EnrollStop")
  BY DEF TokenInv, FreeInv
<1>3. OnlyClaims'
  BY <1>2, ServeShape DEF OnlyClaims
<1>4. GrantedInv'
  <2>1. \A j \in DOMAIN inbox' : ~IsReply(j, "EnrollStop")'
    BY <1>2, ServeShape DEF IsReply
  <2>2. \A j \in DOMAIN inbox' : Granted(j)' =>
          /\ j = Len(inbox) + 1
          /\ \A k \in DOMAIN inbox : k < j
    BY <1>2, ServeShape DEF Granted, IsReply
  <2>3. \A k \in DOMAIN inbox' : k \in DOMAIN inbox \/ k = Len(inbox) + 1
    BY ServeShape
  <2>4. \A j, k \in DOMAIN inbox' : Granted(j)' => /\ Granted(k)' => k = j
                                                   /\ ~(k > j)
    <3> SUFFICES ASSUME NEW j \in DOMAIN inbox', NEW k \in DOMAIN inbox', Granted(j)', k # j
                 PROVE  ~Granted(k)' /\ ~(k > j)
      BY <2>2, <2>3
    <3>1. j = Len(inbox) + 1 /\ k \in DOMAIN inbox /\ k < j
      BY <2>2, <2>3
    <3>2. ~Granted(k)'
      BY <2>2, <3>1
    <3>3. j \in Int /\ k \in Int
      <4>1. inbox' \in Seq(Message)
        BY DEF TypeOK
      <4>2. \A s \in Seq(Message) : DOMAIN s \subseteq Int
        OBVIOUS
      <4> QED  BY <4>1, <4>2
    <3> QED  BY <3>1, <3>2, <3>3
  <2> QED  BY <1>1, <1>2, <1>3, <2>1, <2>4 DEF GrantedInv
<1>5. FreeInv' /\ HeldInv' /\ UndoneInv' /\ StoredIsTrue'
  BY <1>1, <1>2, ServeUndone DEF TokenInv, FreeInv, HeldInv, StoredIsTrue
<1> QED  BY <1>4, <1>5 DEF TokenInv

\* A Release that is accepted gives the token back.
LEMMA ReleaseKeeps ==
  ASSUME TypeOK, TypeOK', TokenInv, NEW i \in DOMAIN sent, NEW ok \in BOOLEAN, Serve(i, ok), sent[i].m = "Release",
         ~reader'.ours, reader'.scan = "no"
  PROVE  TokenInv'
<1>1. UNCHANGED <<current, claimed, sub, stray, stored, said>>
  BY ServeIs DEF attemptVars
<1>2. /\ ~claimed /\ ~OnlyClaims
      /\ \A j \in DOMAIN inbox : ~Granted(j) /\ ~IsReply(j, "EnrollStop")
      /\ \A j \in DOMAIN sent : j > i => sent[j].m = "Claim"
  BY DEF TokenInv, GrantedInv, HeldInv, UndoneInv, OnlyClaims, IsCall
<1>3. \A j \in DOMAIN sent : j # i => sent[j].m = "Claim"
  <2>1. \A j \in 1..i - 1 : sent[j].m = "Claim"
    BY ServeIs
  <2>2. \A j \in DOMAIN sent : j \in Nat /\ j > 0
    <3>1. sent \in Seq(Call)
      BY DEF TypeOK
    <3> QED  BY <3>1
  <2> QED  BY <1>2, <2>1, <2>2
<1>4. OnlyClaims'
  BY <1>3, ServeShape DEF OnlyClaims
<1>5. \A j \in DOMAIN inbox' : ~Granted(j)' /\ ~IsReply(j, "EnrollStop")'
  BY <1>2, ServeShape DEF Granted, IsReply
<1>6. FreeInv' /\ GrantedInv' /\ HeldInv' /\ UndoneInv' /\ StoredIsTrue'
  BY <1>1, <1>2, <1>4, <1>5, ServeUndone DEF TokenInv, FreeInv, GrantedInv, HeldInv, StoredIsTrue
<1> QED  BY <1>6 DEF TokenInv

\* So each call that fprintd serves keeps the token.
LEMMA FprintdKeeps ==
  ASSUME TypeOK, TypeOK', TokenInv, NEW i \in DOMAIN sent, Accept(i) \/ Refuse(i)
  PROVE  TokenInv'
<1>1. CASE Refuse(i)
  BY <1>1, ServeKeeps DEF Refuse
<1>2. CASE Accept(i) /\ sent[i].m = "Claim"
  <2>1. Serve(i, TRUE) /\ ~reader.ours /\ reader' = [reader EXCEPT !.ours = TRUE]
    BY <1>2 DEF Accept, Can
  <2>2. reader'.ours /\ reader'.scan = reader.scan
    BY <2>1 DEF TypeOK
  <2> QED  BY <1>2, <2>1, <2>2, ClaimKeeps
<1>3. CASE Accept(i) /\ sent[i].m = "EnrollStart"
  <2>1. Serve(i, TRUE) /\ reader' = [reader EXCEPT !.scan = "on", !.for = sent[i].by]
    BY <1>3 DEF Accept
  <2>2. reader'.ours = reader.ours /\ reader'.for = sent[i].by
    BY <2>1 DEF TypeOK
  <2> QED  BY <1>3, <2>1, <2>2, ServeKeeps
<1>4. CASE Accept(i) /\ sent[i].m = "EnrollStop"
  <2>1. Serve(i, TRUE) /\ reader' = [reader EXCEPT !.scan = "no", !.for = 0]
    BY <1>4 DEF Accept
  <2>2. reader'.ours = reader.ours /\ reader'.scan = "no"
    BY <2>1 DEF TypeOK
  <2> QED  BY <1>4, <2>1, <2>2, ServeKeeps
<1>5. CASE Accept(i) /\ sent[i].m = "Release"
  <2>1. Serve(i, TRUE) /\ reader' = [ours |-> FALSE, scan |-> "no", for |-> 0]
    BY <1>5 DEF Accept
  <2> QED  BY <1>5, <2>1, ReleaseKeeps
<1>6. sent[i].m \in Methods
  <2>1. sent[i] \in Call
    <3>1. sent \in Seq(Call)
      BY DEF TypeOK
    <3> QED  BY <3>1
  <2> QED  BY <2>1 DEF Call
<1> QED  BY <1>1, <1>2, <1>3, <1>4, <1>5, <1>6 DEF Methods

\* So does a call that D-Bus gives up on,
LEMMA GiveUpKeeps ==
  ASSUME TypeOK, TypeOK', TokenInv, NEW i \in DOMAIN sent, GiveUp(i)
  PROVE  TokenInv'
<1>1. /\ UNCHANGED <<current, claimed, sub, stray, reader, stored, said>>
      /\ DOMAIN sent' = DOMAIN sent /\ sent[i].live /\ ~sent'[i].live
      /\ \A j \in DOMAIN sent : /\ sent'[j].m = sent[j].m /\ sent'[j].by = sent[j].by
                                /\ j # i => sent'[j].live = sent[j].live
  BY GiveUpIs DEF attemptVars, fprintdVars
<1>2. /\ \A j \in DOMAIN inbox : j \in DOMAIN inbox' /\ inbox'[j] = inbox[j]
      /\ \A j \in DOMAIN inbox' :
           \/ j \in DOMAIN inbox
           \/ /\ inbox'[j].what = "reply" /\ inbox'[j].m = sent[i].m /\ ~inbox'[j].ok
              /\ j = Len(inbox) + 1
  <2>1. inbox' = Append(inbox, [what |-> "reply", m |-> sent[i].m, by |-> sent[i].by, ok |-> FALSE])
    BY GiveUpIs
  <2> QED  BY <2>1, MoreIs
<1>3. OnlyClaims' <=> OnlyClaims
  BY <1>1 DEF OnlyClaims
<1>4. FreeInv'
  BY <1>1, <1>2, <1>3 DEF TokenInv, FreeInv, OnlyClaims, Granted, IsReply
<1>5. \A j \in DOMAIN inbox' : Granted(j)' => j \in DOMAIN inbox /\ Granted(j)
  BY <1>2 DEF Granted, IsReply
<1>6. GrantedInv'
  <2>1. \A j \in DOMAIN inbox' : IsSignal(j)' => IsSignal(j)
    BY <1>2 DEF IsSignal
  <2>2. OnlyClaims => \A j \in DOMAIN inbox' : IsReply(j, "EnrollStop")' => IsReply(j, "EnrollStop")
    BY <1>2 DEF IsReply, OnlyClaims
  <2>3. \A j \in DOMAIN inbox' : IsReply(j, "EnrollStop") \/ IsSignal(j) => j \in DOMAIN inbox
    BY DEF IsReply, IsSignal
  <2> QED  BY <1>1, <1>3, <1>5, <2>1, <2>2, <2>3 DEF TokenInv, GrantedInv
<1>7. HeldInv'
  BY <1>1, <1>2 DEF TokenInv, HeldInv, IsReply
<1>8. UndoneInv'
  <2>1. /\ \A j, k \in DOMAIN sent' : IsCall(j, "Release")' /\ k > j => IsCall(k, "Claim")'
        /\ \A j, k \in DOMAIN sent' : IsCall(j, "EnrollStop")' /\ sent'[j].live =>
              /\ IsCall(k, "EnrollStop")' /\ sent'[k].live => k = j
              /\ ~IsCall(k, "Release")'
    BY <1>1 DEF TokenInv, UndoneInv, IsCall
  <2>2. \A j, k \in DOMAIN inbox' : IsReply(j, "EnrollStop")' /\ IsReply(k, "EnrollStop")' => j = k
    BY <1>1, <1>2 DEF TokenInv, UndoneInv, IsCall, IsReply
  <2>3. \A j \in DOMAIN inbox' : IsReply(j, "EnrollStop")' =>
          \A k \in DOMAIN sent' : ~IsCall(k, "Release")' /\ (IsCall(k, "EnrollStop")' => ~sent'[k].live)
    BY <1>1, <1>2 DEF TokenInv, UndoneInv, IsCall, IsReply
  <2> QED  BY <2>1, <2>2, <2>3 DEF UndoneInv
<1>9. StoredIsTrue'
  BY <1>1 DEF TokenInv, StoredIsTrue
<1> QED  BY <1>4, <1>6, <1>7, <1>8, <1>9 DEF TokenInv

\* and the last scan: what it stores is stored for the attempt that hears it.
LEMMA ScanKeeps == ASSUME TypeOK, TypeOK', TokenInv, Scan PROVE TokenInv'
<1>1. /\ reader.scan = "on" /\ reader'.ours = reader.ours /\ reader'.scan = "over" /\ reader.ours
      /\ UNCHANGED <<current, claimed, sub, stray, sent, said>>
      /\ stored \subseteq stored'
  BY DEF Scan, TypeOK, TokenInv, FreeInv, attemptVars
<1>2. \A j \in DOMAIN inbox : ~Granted(j)
  BY <1>1 DEF TokenInv, GrantedInv
<1>3. PICK what \in {"completed", "failed"} :
        inbox' = Append(inbox, [what |-> what]) /\ (what = "completed" => reader.for \in stored')
  BY DEF Scan
<1>4. /\ \A j \in DOMAIN inbox : j \in DOMAIN inbox' /\ inbox'[j] = inbox[j]
      /\ \A j \in DOMAIN inbox' : j \in DOMAIN inbox \/ inbox'[j] = [what |-> what]
  BY <1>3, MoreIs
<1>5. \A j \in DOMAIN inbox' : ~Granted(j)' /\ (IsReply(j, "EnrollStop")' => IsReply(j, "EnrollStop"))
  BY <1>2, <1>3, <1>4 DEF Granted, IsReply
<1>6. FreeInv' /\ GrantedInv'
  BY <1>1, <1>5 DEF FreeInv, GrantedInv
<1>7. HeldInv'
  BY <1>1, <1>3, <1>4, <1>5 DEF TokenInv, HeldInv, IsReply
<1>8. UndoneInv'
  <2>1. \A j \in DOMAIN inbox' : IsReply(j, "EnrollStop")' => j \in DOMAIN inbox /\ IsReply(j, "EnrollStop")
    BY <1>5 DEF IsReply
  <2> QED  BY <1>1, <2>1 DEF TokenInv, UndoneInv, IsCall
<1>9. StoredIsTrue'
  BY <1>1 DEF TokenInv, StoredIsTrue
<1> QED  BY <1>6, <1>7, <1>8, <1>9 DEF TokenInv

\* Each step keeps the token, whatever fprintd and the user do.
LEMMA TokenStep == ASSUME TypeOK, TypeOK', TokenInv, [Next]_vars PROVE TokenInv'
<1>1. ASSUME UNCHANGED <<inbox, reader, stored>>
      PROVE  Shrunk(0) /\ UNCHANGED <<reader, stored>>
  <2>1. inbox \in Seq(Message)
    BY DEF TypeOK
  <2> QED  BY <1>1, <2>1 DEF Shrunk
<1>2. CASE StartEnroll
  BY <1>2, StartKeeps
<1>3. CASE CancelEnroll
  <2>1. current # 0 /\ End("cancelled") /\ UNCHANGED <<stray, inbox, reader, stored>>
    BY <1>3 DEF CancelEnroll, fprintdVars
  <2> QED  BY <1>1, <2>1, EndKeeps DEF Ends
<1>4. CASE Dispatch
  BY <1>4, DispatchKeeps
<1>5. CASE Deadline /\ UNCHANGED <<inbox, fprintdVars>>
  <2>1. stray'.subs = stray.subs /\ UNCHANGED <<inbox, reader, stored>>
    BY <1>5 DEF Deadline, fprintdVars, TypeOK
  <2>2. CASE End("deadline") /\ current # 0
    BY <1>1, <2>1, <2>2, EndKeeps DEF Ends
  <2>3. CASE UNCHANGED <<attemptVars, sent>>
    BY <1>1, <2>1, <2>3, StillKeeps DEF attemptVars
  <2> QED  BY <1>5, <2>2, <2>3 DEF Deadline, TypeOK
<1>6. ASSUME NEW i \in DOMAIN sent, Accept(i) \/ Refuse(i) \/ GiveUp(i) PROVE TokenInv'
  BY <1>6, FprintdKeeps, GiveUpKeeps
<1>7. CASE Scan
  BY <1>7, ScanKeeps
<1>8. CASE UNCHANGED vars
  BY <1>1, <1>8, StillKeeps DEF vars
<1> QED  BY <1>2, <1>3, <1>4, <1>5, <1>6, <1>7, <1>8 DEF Next, Page, Loop, Fprintd

\* The page opens with nothing under way, and the types hold.
LEMMA TypeInit == Init => TypeOK
<1> SUFFICES ASSUME Init PROVE TypeOK
  OBVIOUS
<1>1. << >> \in Seq(Call) /\ << >> \in Seq(Message)
  OBVIOUS
<1> QED  BY <1>1 DEF Init, TypeOK

\* fprintd has the token then.
LEMMA TokenInit == Init => TokenInv
<1> SUFFICES ASSUME Init PROVE TokenInv
  OBVIOUS
<1>1. DOMAIN inbox = {} /\ DOMAIN sent = {}
  <2>1. inbox = << >> /\ sent = << >>
    BY DEF Init
  <2>2. \A s \in Seq(Call) \cup Seq(Message) : s = << >> => DOMAIN s = {}
    OBVIOUS
  <2>3. << >> \in Seq(Call)
    OBVIOUS
  <2> QED  BY <2>1, <2>2, <2>3
<1>2. FreeInv /\ GrantedInv /\ HeldInv /\ UndoneInv
  BY <1>1 DEF Init, FreeInv, GrantedInv, HeldInv, UndoneInv, OnlyClaims
<1>3. StoredIsTrue
  BY DEF Init, StoredIsTrue
<1> QED  BY <1>2, <1>3 DEF TokenInv

\* The types and the token hold in every state.
LEMMA TokenAlways == Spec => [](TypeOK /\ TokenInv)
<1>1. TypeOK /\ TokenInv /\ [Next]_vars => (TypeOK /\ TokenInv)'
  BY TypeStep, TokenStep
<1> QED  BY <1>1, TypeInit, TokenInit, PTL DEF Spec

\* "Fingerprint stored" is true whenever the page says it, for any number of
\* attempts and every fault: a user who cancels with calls unanswered, an fprintd
\* that refuses or answers after D-Bus has given up.  The answers of one attempt
\* reach the next (biometrics.py, the callbacks look at self._enroll), but not a
\* "completed": no attempt that holds the reader hears one that is not its own.
THEOREM StoredStaysTrue == Spec => []StoredIsTrue
BY TokenAlways, PTL DEF TokenInv

-----------------------------------------------------------------------------
\* All but the first d messages are still there.
Kept(d) == \A j \in DOMAIN inbox : /\ j \in Nat
                                   /\ (j = 1 /\ d = 1) \/ (j - d \in DOMAIN inbox' /\ inbox'[j - d] = inbox[j])

\* A message that holds nothing: the answer to a Release, or a signal.
Idle(i) == IsReply(i, "Release") \/ IsSignal(i)

\* Nothing is disturbed when an idle message is dropped.
LEMMA StillOrderly ==
  ASSUME TypeOK, OrderlyInv, NEW d \in {0, 1}, Shrunk(d), Kept(d), d = 1 => Idle(1),
         UNCHANGED <<current, claimed, started, timer, stray, sent, reader>>
  PROVE  OrderlyInv'
<1>1. \A j \in DOMAIN inbox : (j - d \in DOMAIN inbox' /\ inbox'[j - d] = inbox[j]) \/ Idle(j)
  BY DEF Kept
<1>2. ClaimInv'
  BY DEF OrderlyInv, ClaimInv, Shrunk, IsReply, IsCall
<1>3. StartInv'
  <2>1. \A j \in DOMAIN inbox' : /\ IsReply(j, "EnrollStart")' => IsReply(j + d, "EnrollStart")
                                 /\ IsSignal(j)' => IsSignal(j + d)
    BY DEF Shrunk, IsReply, IsSignal
  <2>2. \A j \in DOMAIN inbox' : j \in Nat /\ j + d \in DOMAIN inbox /\ inbox'[j] = inbox[j + d]
    BY DEF Shrunk
  <2>3. /\ \A i \in DOMAIN sent : IsCall(i, "EnrollStart") =>
             /\ sent[i].by = current /\ claimed /\ ~started /\ reader.scan = "no"
             /\ \A j \in DOMAIN sent : IsCall(j, "EnrollStart") => j = i
             /\ \A j \in DOMAIN inbox : ~IsReply(j, "EnrollStart") /\ ~IsSignal(j)
        /\ claimed /\ ~started => \/ \E i \in DOMAIN sent : IsCall(i, "EnrollStart")
                                  \/ \E i \in DOMAIN inbox : IsReply(i, "EnrollStart")
    BY DEF OrderlyInv, StartInv
  <2>4. \A i \in DOMAIN inbox' : IsReply(i, "EnrollStart")' =>
          /\ inbox'[i].by = current /\ claimed /\ ~started
          /\ ~inbox'[i].ok => reader.scan = "no"
          /\ \A j \in DOMAIN inbox' : /\ IsReply(j, "EnrollStart")' => j = i
                                      /\ IsSignal(j)' => i < j
    <3> SUFFICES ASSUME NEW i \in DOMAIN inbox', IsReply(i, "EnrollStart")'
                 PROVE  /\ inbox'[i].by = current /\ claimed /\ ~started
                        /\ ~inbox'[i].ok => reader.scan = "no"
                        /\ \A j \in DOMAIN inbox' : /\ IsReply(j, "EnrollStart")' => j = i
                                                    /\ IsSignal(j)' => i < j
      OBVIOUS
    <3>1. i + d \in DOMAIN inbox /\ IsReply(i + d, "EnrollStart") /\ inbox'[i] = inbox[i + d]
      BY <2>1, <2>2
    <3>2. /\ inbox[i + d].by = current /\ claimed /\ ~started
          /\ ~inbox[i + d].ok => reader.scan = "no"
          /\ \A j \in DOMAIN inbox : /\ IsReply(j, "EnrollStart") => j = i + d
                                     /\ IsSignal(j) => i + d < j
      BY <3>1 DEF OrderlyInv, StartInv
    <3>3. ASSUME NEW j \in DOMAIN inbox'
          PROVE  /\ IsReply(j, "EnrollStart")' => j = i
                 /\ IsSignal(j)' => i < j
      BY <2>1, <2>2, <3>2
    <3> QED  BY <3>1, <3>2, <3>3
  <2>5. (\E i \in DOMAIN inbox : IsReply(i, "EnrollStart")) => \E i \in DOMAIN inbox' : IsReply(i, "EnrollStart")'
    <3> SUFFICES ASSUME NEW i \in DOMAIN inbox, IsReply(i, "EnrollStart")
                 PROVE  \E k \in DOMAIN inbox' : IsReply(k, "EnrollStart")'
      OBVIOUS
    <3>1. ~Idle(i)
      BY DEF Idle, IsReply, IsSignal
    <3>2. i - d \in DOMAIN inbox' /\ inbox'[i - d] = inbox[i]
      BY <1>1, <3>1
    <3> QED  BY <3>2 DEF IsReply
  <2>6. \A i \in DOMAIN sent : IsCall(i, "EnrollStart")' <=> IsCall(i, "EnrollStart")
    BY DEF IsCall
  <2> QED  BY <2>1, <2>2, <2>3, <2>4, <2>5, <2>6 DEF StartInv
<1>4. FlagInv'
  BY DEF OrderlyInv, FlagInv
<1>5. TokenThere'
  <2>1. ASSUME NEW i \in DOMAIN inbox, Granted(i) \/ IsReply(i, "EnrollStop")
        PROVE  \E k \in DOMAIN inbox' : (Granted(k) \/ IsReply(k, "EnrollStop"))'
    <3>1. ~Idle(i)
      BY <2>1 DEF Idle, Granted, IsReply, IsSignal
    <3>2. i - d \in DOMAIN inbox' /\ inbox'[i - d] = inbox[i]
      BY <1>1, <3>1
    <3> QED  BY <2>1, <3>2 DEF Granted, IsReply
  <2> QED  BY <2>1 DEF OrderlyInv, TokenThere, IsCall
<1>6. StoppedInv'
  BY DEF OrderlyInv, StoppedInv, Shrunk, IsReply, IsCall
<1> QED  BY <1>2, <1>3, <1>4, <1>5, <1>6 DEF OrderlyInv

\* An attempt that waits for no answer ends.
LEMMA EndOrderly ==
  ASSUME TypeOK, OrderlyInv, NEW d \in {0, 1}, Shrunk(d), Kept(d),
         d = 1 => ~Granted(1) /\ ~IsReply(1, "EnrollStop"),
         UNCHANGED <<stray, reader>>, current # 0, NEW how \in Ends, End(how),
         \A i \in DOMAIN sent : ~IsCall(i, "Claim") /\ ~IsCall(i, "EnrollStart"),
         \A i \in DOMAIN inbox' : ~IsReply(i, "Claim")' /\ ~IsReply(i, "EnrollStart")',
         claimed /\ ~started => reader.scan = "no"
  PROVE  OrderlyInv'
<1>1. /\ current' = 0 /\ claimed' = FALSE /\ started' = FALSE /\ timer' = FALSE
      /\ current \in Attempt
  BY EndIs DEF TypeOK
<1>2. /\ \A j \in DOMAIN sent : j \in DOMAIN sent' /\ sent'[j] = sent[j]
      /\ \A j \in DOMAIN sent' :
           \/ j \in DOMAIN sent
           \/ claimed /\ sent'[j].live /\ sent'[j].m = IF started THEN "EnrollStop" ELSE "Release"
      /\ claimed => \E j \in DOMAIN sent' : IsCall(j, "EnrollStop")' \/ IsCall(j, "Release")'
  <2>1. CASE ~claimed /\ sent' = sent
    BY <2>1
  <2>2. CASE claimed /\ ~started /\ sent' = Append(sent, CallOf("Release", current))
    BY <1>1, <2>2, MakeIs DEF Methods, IsCall
  <2>3. CASE claimed /\ started /\ sent' = Append(sent, CallOf("EnrollStop", current))
    BY <1>1, <2>3, MakeIs DEF Methods, IsCall
  <2> QED  BY <2>1, <2>2, <2>3, EndIs
<1>3. \A j \in DOMAIN sent' : ~IsCall(j, "Claim")' /\ ~IsCall(j, "EnrollStart")'
  BY <1>2 DEF IsCall
<1>4. ClaimInv' /\ StartInv'
  BY <1>1, <1>3 DEF ClaimInv, StartInv
<1>5. FlagInv'
  BY <1>1, <1>2 DEF OrderlyInv, FlagInv
<1>6. TokenThere'
  <2>1. ASSUME NEW i \in DOMAIN inbox, Granted(i) \/ IsReply(i, "EnrollStop")
        PROVE  \E k \in DOMAIN inbox' : (Granted(k) \/ IsReply(k, "EnrollStop"))'
    <3>1. i - d \in DOMAIN inbox' /\ inbox'[i - d] = inbox[i]
      BY <2>1 DEF Kept
    <3> QED  BY <2>1, <3>1 DEF Granted, IsReply
  <2> QED  BY <1>2, <2>1 DEF OrderlyInv, TokenThere, IsCall
<1>7. StoppedInv'
  BY <1>2 DEF OrderlyInv, StoppedInv, Shrunk, IsReply, IsCall
<1> QED  BY <1>4, <1>5, <1>6, <1>7 DEF OrderlyInv

\* A new attempt waits for its Claim.
LEMMA StartOrderly == ASSUME TypeOK, TypeOK', TokenInv, OrderlyInv, StartEnroll PROVE OrderlyInv'
<1>1. /\ current = 0 /\ attempts' = attempts + 1 /\ current' = attempts + 1
      /\ sent' = Append(sent, CallOf("Claim", attempts'))
      /\ UNCHANGED <<claimed, started, timer, sub, said, stray, inbox, reader, stored>>
  BY DEF StartEnroll, Make, fprintdVars
<1>2. current' \in Attempt /\ current' # 0
  <2>1. current' \in Attempt \cup {0} /\ attempts \in Nat
    BY DEF TypeOK
  <2> QED  BY <1>1, <2>1
<1>3. /\ Len(sent) \in Nat /\ DOMAIN sent = 1..Len(sent) /\ DOMAIN sent' = 1..Len(sent) + 1
      /\ \A j \in DOMAIN sent : sent'[j] = sent[j]
      /\ sent'[Len(sent) + 1].m = "Claim" /\ sent'[Len(sent) + 1].by = current' /\ sent'[Len(sent) + 1].live
  BY <1>1, <1>2, MakeIs DEF Methods
<1>4. /\ ~claimed
      /\ \A j \in DOMAIN sent : ~IsCall(j, "Claim") /\ ~IsCall(j, "EnrollStart")
      /\ \A j \in DOMAIN inbox : ~IsReply(j, "Claim") /\ ~IsReply(j, "EnrollStart")
  BY <1>1 DEF TokenInv, HeldInv, OrderlyInv, ClaimInv, StartInv
<1>5. \A j \in DOMAIN inbox' : ~IsReply(j, "Claim")' /\ ~IsReply(j, "EnrollStart")'
  BY <1>1, <1>4 DEF IsReply
<1>6. ClaimInv'
  BY <1>1, <1>2, <1>3, <1>4, <1>5 DEF ClaimInv, IsCall
<1>7. StartInv'
  BY <1>1, <1>3, <1>4, <1>5 DEF StartInv, IsCall
<1>8. FlagInv' /\ StoppedInv'
  BY <1>1, <1>3 DEF OrderlyInv, FlagInv, StoppedInv, IsCall, IsReply
<1>9. TokenThere'
  BY <1>1, <1>3 DEF OrderlyInv, TokenThere, IsCall, IsReply, Granted
<1> QED  BY <1>6, <1>7, <1>8, <1>9 DEF OrderlyInv

\* A claimed one for its EnrollStart.
LEMMA ClaimedOrderly ==
  ASSUME TypeOK, TokenInv, OrderlyInv, Shrunk(1), Granted(1),
         \A j \in DOMAIN inbox' : j \in Nat /\ j > 0,
         current # 0, claimed' = TRUE, sent' = Append(sent, CallOf("EnrollStart", current)),
         stray' = IF sub THEN [stray EXCEPT !.subs = @ + 1] ELSE stray,
         UNCHANGED <<current, started, timer, reader>>
  PROVE  OrderlyInv'
<1>1. /\ reader.scan = "no" /\ OnlyClaims /\ ~claimed /\ 1 \in DOMAIN inbox
      /\ \A j \in DOMAIN inbox : /\ ~IsReply(j, "EnrollStop")
                                 /\ j > 1 => ~IsSignal(j)
  BY DEF TokenInv, GrantedInv, Granted, IsReply
<1>2. /\ current \in Attempt /\ stray' = stray
      /\ \A j \in DOMAIN sent : ~IsCall(j, "Claim")
      /\ \A j \in DOMAIN inbox : /\ IsReply(j, "Claim") => j = 1
                                 /\ ~IsReply(j, "EnrollStart")
  BY <1>1 DEF TypeOK, TokenInv, HeldInv, OrderlyInv, ClaimInv, StartInv, Granted, IsReply
<1>3. /\ Len(sent) \in Nat /\ DOMAIN sent = 1..Len(sent) /\ DOMAIN sent' = 1..Len(sent) + 1
      /\ \A j \in DOMAIN sent : sent'[j] = sent[j]
      /\ sent'[Len(sent) + 1].m = "EnrollStart" /\ sent'[Len(sent) + 1].by = current
      /\ sent'[Len(sent) + 1].live
  BY <1>2, MakeIs DEF Methods
<1>4. DOMAIN sent = {}
  BY <1>1, <1>2 DEF OnlyClaims, IsCall
<1>5. DOMAIN sent' = {Len(sent) + 1}
  BY <1>3, <1>4
<1>6. \A j \in DOMAIN inbox' : /\ ~IsReply(j, "Claim")' /\ ~IsReply(j, "EnrollStart")'
                               /\ ~IsReply(j, "EnrollStop")' /\ ~IsSignal(j)'
  BY <1>1, <1>2 DEF Shrunk, IsReply, IsSignal
<1>7. ~started
  BY <1>1 DEF OrderlyInv, FlagInv
<1>8. ClaimInv'
  BY <1>3, <1>5, <1>6 DEF ClaimInv, IsCall
<1>9. StartInv'
  BY <1>1, <1>3, <1>5, <1>6, <1>7 DEF StartInv, IsCall
<1>10. FlagInv'
  BY <1>2, <1>3, <1>5 DEF OrderlyInv, FlagInv
<1>11. TokenThere' /\ StoppedInv'
  BY <1>3, <1>5, <1>6 DEF TokenThere, StoppedInv, IsCall
<1> QED  BY <1>8, <1>9, <1>10, <1>11 DEF OrderlyInv

\* A started one for a signal, and its timer is the only one.
LEMMA EnrolledOrderly ==
  ASSUME TypeOK, OrderlyInv, Shrunk(1), IsReply(1, "EnrollStart"),
         \A j \in DOMAIN inbox' : j \in Nat /\ j > 0,
         started' = TRUE, timer' = TRUE,
         stray' = IF timer THEN [stray EXCEPT !.timers = @ + 1] ELSE stray,
         UNCHANGED <<current, claimed, sent, reader>>
  PROVE  OrderlyInv'
<1>1. 1 \in DOMAIN inbox
  BY DEF IsReply
<1>2. /\ claimed /\ ~started /\ \A j \in DOMAIN inbox : IsReply(j, "EnrollStart") => j = 1
      /\ \A j \in DOMAIN sent : ~IsCall(j, "EnrollStart")
  BY <1>1 DEF OrderlyInv, StartInv
<1>3. stray' = stray
  BY <1>2 DEF OrderlyInv, FlagInv
<1>4. \A j \in DOMAIN inbox' : ~IsReply(j, "EnrollStart")'
  BY <1>2 DEF Shrunk, IsReply
<1>5. /\ \A j \in DOMAIN sent : ~IsCall(j, "Claim")
      /\ \A j \in DOMAIN inbox : ~IsReply(j, "Claim")
  BY <1>2 DEF OrderlyInv, ClaimInv
<1>6. ClaimInv'
  BY <1>5 DEF ClaimInv, IsCall, IsReply, Shrunk
<1>7. StartInv'
  BY <1>2, <1>4 DEF StartInv, IsCall
<1>8. FlagInv' /\ TokenThere'
  BY <1>2, <1>3 DEF OrderlyInv, FlagInv, TokenThere
<1>9. StoppedInv'
  BY DEF OrderlyInv, StoppedInv, Shrunk, IsReply, IsCall
<1> QED  BY <1>6, <1>7, <1>8, <1>9 DEF OrderlyInv

\* A stopped one for nothing but the Release.
LEMMA StoppedOrderly ==
  ASSUME TypeOK, TokenInv, OrderlyInv, Shrunk(1), IsReply(1, "EnrollStop"),
         \A j \in DOMAIN inbox' : j \in Nat /\ j > 0,
         sent' = Append(sent, CallOf("Release", inbox[1].by)),
         UNCHANGED <<current, claimed, started, timer, stray, reader>>
  PROVE  OrderlyInv'
<1>1. inbox[1].by \in Attempt /\ 1 \in DOMAIN inbox
  <2>1. inbox \in Seq(Message) /\ 1 \in DOMAIN inbox /\ inbox[1].what = "reply"
    BY DEF TypeOK, IsReply
  <2>2. inbox[1] \in Message
    BY <2>1
  <2> QED  BY <2>1, <2>2 DEF Message
<1>2. /\ Len(sent) \in Nat /\ DOMAIN sent = 1..Len(sent) /\ DOMAIN sent' = 1..Len(sent) + 1
      /\ \A j \in DOMAIN sent : sent'[j] = sent[j]
      /\ sent'[Len(sent) + 1].m = "Release" /\ sent'[Len(sent) + 1].live
  BY <1>1, MakeIs DEF Methods
<1>3. ~claimed /\ reader.scan = "no"
  BY <1>1 DEF TokenInv, HeldInv, OrderlyInv, StoppedInv
<1>4. ClaimInv'
  BY <1>2 DEF OrderlyInv, ClaimInv, IsCall, IsReply, Shrunk
<1>5. StartInv'
  BY <1>2, <1>3 DEF OrderlyInv, StartInv, IsCall, IsReply, Shrunk
<1>6. FlagInv' /\ StoppedInv'
  BY <1>2, <1>3 DEF OrderlyInv, FlagInv, StoppedInv
<1>7. TokenThere'
  BY <1>2 DEF TokenThere, IsCall
<1> QED  BY <1>4, <1>5, <1>6, <1>7 DEF OrderlyInv

\* So each message keeps the order.
LEMMA DispatchOrderly ==
  ASSUME TypeOK, TypeOK', TokenInv, OrderlyInv, Dispatch
  PROVE  OrderlyInv'
<1>1. /\ 1 \in DOMAIN inbox /\ Shrunk(1) /\ Kept(1)
      /\ \A j \in DOMAIN inbox' : j \in Nat /\ j > 0
      /\ UNCHANGED reader
  <2>1. inbox' \in Seq(Message) /\ inbox \in Seq(Message)
    BY DispatchIs DEF TypeOK
  <2>2. \A j \in DOMAIN inbox' : j \in Nat /\ j > 0
    BY <2>1
  <2>3. \A j \in DOMAIN inbox : j \in Nat
    BY <2>1
  <2> QED  BY <2>2, <2>3, DispatchIs DEF Shrunk, Kept, fprintdVars
<1>2. CASE UNCHANGED <<attemptVars, stray, sent>> /\ Idle(1)
  BY <1>1, <1>2, StillOrderly DEF attemptVars
<1>3. CASE inbox[1].what = "reply" /\ inbox[1].m = "Claim" /\ OnClaimed(inbox[1].ok)
  <2>1. IsReply(1, "Claim")
    BY <1>1, <1>3 DEF IsReply
  <2>2. /\ current # 0 /\ ~claimed
        /\ \A i \in DOMAIN sent : ~IsCall(i, "Claim") /\ ~IsCall(i, "EnrollStart")
        /\ \A i \in DOMAIN inbox : (IsReply(i, "Claim") => i = 1) /\ ~IsReply(i, "EnrollStart")
    BY <1>1, <2>1 DEF OrderlyInv, ClaimInv, StartInv
  <2>3. CASE inbox[1].ok
    BY <1>1, <1>3, <2>1, <2>2, <2>3, ClaimedOrderly DEF OnClaimed, Make, Granted
  <2>4. CASE ~inbox[1].ok
    <3>1. End("error") /\ UNCHANGED stray
      BY <1>3, <2>2, <2>4 DEF OnClaimed
    <3>2. \A i \in DOMAIN inbox' : ~IsReply(i, "Claim")' /\ ~IsReply(i, "EnrollStart")'
      BY <1>1, <2>2 DEF Shrunk, IsReply
    <3>3. ~Granted(1) /\ ~IsReply(1, "EnrollStop")
      BY <1>3, <2>4 DEF Granted, IsReply
    <3> QED  BY <1>1, <2>2, <3>1, <3>2, <3>3, EndOrderly DEF Ends
  <2> QED  BY <2>3, <2>4
<1>4. CASE inbox[1].what = "reply" /\ inbox[1].m = "EnrollStart" /\ OnEnrolled(inbox[1].ok)
  <2>1. IsReply(1, "EnrollStart")
    BY <1>1, <1>4 DEF IsReply
  <2>2. /\ current # 0 /\ claimed /\ ~started /\ (~inbox[1].ok => reader.scan = "no")
        /\ \A i \in DOMAIN sent : ~IsCall(i, "Claim") /\ ~IsCall(i, "EnrollStart")
        /\ \A i \in DOMAIN inbox : ~IsReply(i, "Claim") /\ (IsReply(i, "EnrollStart") => i = 1)
    BY <1>1, <2>1 DEF TokenInv, HeldInv, OrderlyInv, ClaimInv, StartInv
  <2>3. CASE inbox[1].ok
    <3>1. /\ started' = TRUE /\ timer' = TRUE
          /\ stray' = IF timer THEN [stray EXCEPT !.timers = @ + 1] ELSE stray
          /\ UNCHANGED <<attempts, current, claimed, sub, said, sent>>
      BY <1>4, <2>2, <2>3 DEF OnEnrolled
    <3> QED  BY <1>1, <2>1, <3>1, EnrolledOrderly
  <2>4. CASE ~inbox[1].ok
    <3>1. End("error") /\ UNCHANGED stray
      BY <1>4, <2>2, <2>4 DEF OnEnrolled
    <3>2. \A i \in DOMAIN inbox' : ~IsReply(i, "Claim")' /\ ~IsReply(i, "EnrollStart")'
      BY <1>1, <2>2 DEF Shrunk, IsReply
    <3>3. ~Granted(1) /\ ~IsReply(1, "EnrollStop")
      BY <1>4 DEF Granted, IsReply
    <3> QED  BY <1>1, <2>2, <2>4, <3>1, <3>2, <3>3, EndOrderly DEF Ends
  <2> QED  BY <2>3, <2>4
<1>5. CASE /\ inbox[1].what = "reply" /\ inbox[1].m \in {"EnrollStop", "Release"}
           /\ OnUndone(inbox[1].m, inbox[1].by)
  <2>1. CASE inbox[1].m = "EnrollStop"
    <3>1. IsReply(1, "EnrollStop") /\ sent' = Append(sent, CallOf("Release", inbox[1].by))
          /\ UNCHANGED <<attemptVars, stray>>
      BY <1>1, <1>5, <2>1 DEF IsReply, OnUndone, Make
    <3> QED  BY <1>1, <3>1, StoppedOrderly DEF attemptVars
  <2>2. CASE inbox[1].m = "Release"
    BY <1>1, <1>2, <1>5, <2>2 DEF OnUndone, Idle, IsReply
  <2> QED  BY <1>5, <2>1, <2>2
<1>6. CASE inbox[1].what \in {"completed", "failed"} /\ OnSignal(inbox[1].what)
  <2>1. IsSignal(1)
    BY <1>1, <1>6 DEF IsSignal
  <2>2. CASE current # 0 /\ (sub \/ stray.subs > 0)
    <3>1. claimed
      BY <2>2 DEF TokenInv, HeldInv
    <3>2. \A i \in DOMAIN inbox : i \in Nat /\ i > 0
      <4>1. inbox \in Seq(Message)
        BY DEF TypeOK
      <4> QED  BY <4>1
    <3>3. /\ \A i \in DOMAIN sent : ~IsCall(i, "Claim") /\ ~IsCall(i, "EnrollStart")
          /\ \A i \in DOMAIN inbox : ~IsReply(i, "Claim")
      BY <1>1, <2>1, <3>1 DEF OrderlyInv, ClaimInv, StartInv
    <3>4. \A i \in DOMAIN inbox : ~IsReply(i, "EnrollStart")
      <4>1. ASSUME NEW i \in DOMAIN inbox, IsReply(i, "EnrollStart") PROVE FALSE
        <5>1. i < 1
          BY <1>1, <2>1, <4>1 DEF OrderlyInv, StartInv
        <5> QED  BY <3>2, <5>1
      <4> QED  BY <4>1
    <3>5. started
      BY <3>1, <3>3, <3>4 DEF OrderlyInv, StartInv
    <3>6. \A i \in DOMAIN inbox' : ~IsReply(i, "Claim")' /\ ~IsReply(i, "EnrollStart")'
      BY <1>1, <3>3, <3>4 DEF Shrunk, IsReply
    <3>7. ~Granted(1) /\ ~IsReply(1, "EnrollStop")
      BY <2>1 DEF Granted, IsReply, IsSignal
    <3>8. \E how \in Ends : End(how) /\ UNCHANGED stray
      BY <1>6, <2>2 DEF OnSignal, Ends
    <3> QED  BY <1>1, <2>2, <3>3, <3>5, <3>6, <3>7, <3>8, EndOrderly
  <2>3. CASE ~(current # 0 /\ (sub \/ stray.subs > 0))
    BY <1>2, <1>6, <2>1, <2>3 DEF OnSignal, Idle
  <2> QED  BY <2>2, <2>3
<1> QED  BY <1>3, <1>4, <1>5, <1>6, DispatchIs

\* A call that is served: it and its answer are not both there.
LEMMA ServeOrderly ==
  ASSUME TypeOK, TypeOK', TokenInv, OrderlyInv, NEW i \in DOMAIN sent, NEW ok \in BOOLEAN, Serve(i, ok),
         \/ reader'.scan = reader.scan
         \/ reader'.scan = "no"
         \/ sent[i].m = "EnrollStart" /\ ok,
         sent[i].m = "EnrollStop" => reader'.scan = "no",
         reader'.ours => \/ reader.ours /\ sent[i].m # "Release"
                         \/ sent[i].m = "Claim" /\ ok
  PROVE  OrderlyInv'
<1>1. UNCHANGED <<current, claimed, started, timer, stray>>
  BY ServeIs DEF attemptVars
<1>2. sent[i].live
  BY DEF OrderlyInv, FlagInv
<1>3. PICK n \in DOMAIN inbox' :
        /\ inbox'[n].what = "reply" /\ inbox'[n].m = sent[i].m /\ inbox'[n].by = sent[i].by
        /\ inbox'[n].ok = ok /\ n \notin DOMAIN inbox
        /\ \A j \in DOMAIN inbox : j < n /\ j \in DOMAIN inbox' /\ inbox'[j] = inbox[j]
        /\ \A j \in DOMAIN inbox' : j \in DOMAIN inbox \/ j = n
  <2>1. inbox' = Append(inbox, [what |-> "reply", m |-> sent[i].m, by |-> sent[i].by, ok |-> ok])
    BY <1>2, ServeIs
  <2>2. /\ Len(inbox) + 1 \in DOMAIN inbox'
        /\ inbox'[Len(inbox) + 1] = [what |-> "reply", m |-> sent[i].m, by |-> sent[i].by, ok |-> ok]
        /\ \A j \in DOMAIN inbox : j \in DOMAIN inbox' /\ inbox'[j] = inbox[j] /\ j < Len(inbox) + 1
        /\ \A j \in DOMAIN inbox' : j \in DOMAIN inbox \/ j = Len(inbox) + 1
    BY <2>1, MoreIs
  <2>3. Len(inbox) + 1 \notin DOMAIN inbox
    <3>1. inbox \in Seq(Message)
      BY DEF TypeOK
    <3> QED  BY <3>1
  <2> QED  BY <2>2, <2>3
<1>4. /\ \A j \in DOMAIN sent' : Old(i, j) \in DOMAIN sent /\ Old(i, j) # i /\ sent'[j] = sent[Old(i, j)]
      /\ \A j, k \in DOMAIN sent' : Old(i, j) = Old(i, k) => j = k
  BY ServeShape
<1>5. \A j \in DOMAIN sent : j # i => \E k \in DOMAIN sent' : sent'[k] = sent[j]
  <2> SUFFICES ASSUME NEW j \in DOMAIN sent, j # i PROVE \E k \in DOMAIN sent' : sent'[k] = sent[j]
    OBVIOUS
  <2>1. /\ i \in 1..Len(sent) /\ j \in 1..Len(sent) /\ Len(sent) \in Nat
        /\ DOMAIN sent' = 1..Len(sent) - 1
        /\ \A k \in DOMAIN sent' : sent'[k] = sent[IF k < i THEN k ELSE k + 1]
    <3>1. sent \in Seq(Call)
      BY DEF TypeOK
    <3>2. i \in 1..Len(sent) /\ j \in 1..Len(sent) /\ Len(sent) \in Nat
      BY <3>1
    <3> QED  BY <3>2, ServeIs
  <2>2. CASE j < i
    BY <2>1, <2>2
  <2>3. CASE j > i
    <3>1. j - 1 \in DOMAIN sent' /\ ~(j - 1 < i) /\ (j - 1) + 1 = j
      BY <2>1, <2>3
    <3> QED  BY <2>1, <3>1
  <2> QED  BY <2>1, <2>2, <2>3
<1>6. ClaimInv'
  BY <1>1, <1>3, <1>4 DEF OrderlyInv, ClaimInv, IsCall, IsReply
<1>7. sent[i].m = "EnrollStart" =>
        /\ sent[i].by = current /\ claimed /\ ~started /\ reader.scan = "no"
        /\ \A j \in DOMAIN sent : IsCall(j, "EnrollStart") => j = i
        /\ \A j \in DOMAIN sent : ~IsCall(j, "Release")
        /\ \A j \in DOMAIN inbox : /\ ~IsReply(j, "EnrollStart") /\ ~IsSignal(j)
                                   /\ ~IsReply(j, "EnrollStop")
  BY DEF TokenInv, HeldInv, OrderlyInv, StartInv, IsCall
<1>8. StartInv'
  <2>1. ASSUME NEW j \in DOMAIN sent', IsCall(j, "EnrollStart")'
        PROVE  /\ sent'[j].by = current' /\ claimed' /\ ~started' /\ reader'.scan = "no"
               /\ \A k \in DOMAIN sent' : IsCall(k, "EnrollStart")' => k = j
               /\ \A k \in DOMAIN inbox' : ~IsReply(k, "EnrollStart")' /\ ~IsSignal(k)'
    <3>1. Old(i, j) \in DOMAIN sent /\ IsCall(Old(i, j), "EnrollStart") /\ sent'[j] = sent[Old(i, j)]
      BY <1>4, <2>1 DEF IsCall
    <3>2. /\ sent[Old(i, j)].by = current /\ claimed /\ ~started /\ reader.scan = "no"
          /\ \A k \in DOMAIN sent : IsCall(k, "EnrollStart") => k = Old(i, j)
          /\ \A k \in DOMAIN inbox : ~IsReply(k, "EnrollStart") /\ ~IsSignal(k)
      BY <3>1 DEF OrderlyInv, StartInv
    <3>3. sent[i].m # "EnrollStart"
      BY <1>4, <3>1, <1>7
    <3>4. \A k \in DOMAIN sent' : IsCall(k, "EnrollStart")' => k = j
      BY <1>4, <3>2 DEF IsCall
    <3>5. \A k \in DOMAIN inbox' : ~IsReply(k, "EnrollStart")' /\ ~IsSignal(k)'
      BY <1>3, <3>2, <3>3 DEF IsReply, IsSignal
    <3> QED  BY <1>1, <3>1, <3>2, <3>3, <3>4, <3>5
  <2>2. ASSUME NEW j \in DOMAIN inbox', IsReply(j, "EnrollStart")'
        PROVE  /\ inbox'[j].by = current' /\ claimed' /\ ~started'
               /\ ~inbox'[j].ok => reader'.scan = "no"
               /\ \A k \in DOMAIN inbox' : (IsReply(k, "EnrollStart")' => k = j) /\ (IsSignal(k)' => j < k)
    <3>1. CASE j \in DOMAIN inbox
      <4>1. IsReply(j, "EnrollStart") /\ inbox'[j] = inbox[j]
        BY <1>3, <2>2, <3>1 DEF IsReply
      <4>2. /\ inbox[j].by = current /\ claimed /\ ~started
            /\ ~inbox[j].ok => reader.scan = "no"
            /\ \A k \in DOMAIN inbox : (IsReply(k, "EnrollStart") => k = j) /\ (IsSignal(k) => j < k)
        BY <3>1, <4>1 DEF OrderlyInv, StartInv
      <4>3. sent[i].m # "EnrollStart"
        BY <1>7, <3>1, <4>1
      <4>4. \A k \in DOMAIN inbox' : (IsReply(k, "EnrollStart")' => k = j) /\ (IsSignal(k)' => j < k)
        BY <1>3, <4>2, <4>3 DEF IsReply, IsSignal
      <4> QED  BY <1>1, <4>1, <4>2, <4>3, <4>4
    <3>2. CASE j = n
      <4>1. sent[i].m = "EnrollStart"
        BY <1>3, <2>2, <3>2 DEF IsReply
      <4>2. \A k \in DOMAIN inbox' : (IsReply(k, "EnrollStart")' => k = j) /\ ~IsSignal(k)'
        BY <1>3, <1>7, <3>2, <4>1 DEF IsReply, IsSignal
      <4> QED  BY <1>1, <1>3, <1>7, <3>2, <4>1, <4>2
    <3> QED  BY <1>3, <3>1, <3>2
  <2>3. claimed' /\ ~started' => \/ \E j \in DOMAIN sent' : IsCall(j, "EnrollStart")'
                                 \/ \E j \in DOMAIN inbox' : IsReply(j, "EnrollStart")'
    <3> SUFFICES ASSUME claimed, ~started
                 PROVE  \/ \E j \in DOMAIN sent' : IsCall(j, "EnrollStart")'
                        \/ \E j \in DOMAIN inbox' : IsReply(j, "EnrollStart")'
      BY <1>1
    <3>1. ASSUME NEW j \in DOMAIN inbox, IsReply(j, "EnrollStart")
          PROVE  \E k \in DOMAIN inbox' : IsReply(k, "EnrollStart")'
      BY <1>3, <3>1 DEF IsReply
    <3>2. ASSUME NEW j \in DOMAIN sent, IsCall(j, "EnrollStart"), j # i
          PROVE  \E k \in DOMAIN sent' : IsCall(k, "EnrollStart")'
      BY <1>5, <3>2 DEF IsCall
    <3>3. CASE IsCall(i, "EnrollStart")
      BY <1>3, <3>3 DEF IsCall, IsReply
    <3> QED  BY <3>1, <3>2, <3>3 DEF OrderlyInv, StartInv
  <2> QED  BY ONLY <2>1, <2>2, <2>3 DEF StartInv
<1>9. FlagInv'
  BY <1>1, <1>4 DEF OrderlyInv, FlagInv
<1>10. TokenThere'
  <2> SUFFICES ASSUME reader'.ours
               PROVE  \/ \E j \in DOMAIN inbox' : Granted(j)' \/ IsReply(j, "EnrollStop")'
                      \/ claimed'
                      \/ \E j \in DOMAIN sent' : IsCall(j, "EnrollStop")' \/ IsCall(j, "Release")'
    BY DEF TokenThere
  <2>1. CASE sent[i].m = "Claim" /\ ok
    BY <1>3, <2>1 DEF Granted, IsReply
  <2>2. CASE reader.ours /\ sent[i].m # "Release"
    <3>1. ASSUME NEW j \in DOMAIN inbox, Granted(j) \/ IsReply(j, "EnrollStop")
          PROVE  \E k \in DOMAIN inbox' : Granted(k)' \/ IsReply(k, "EnrollStop")'
      BY <1>3, <3>1 DEF Granted, IsReply
    <3>2. ASSUME NEW j \in DOMAIN sent, IsCall(j, "EnrollStop") \/ IsCall(j, "Release"), j # i
          PROVE  \E k \in DOMAIN sent' : IsCall(k, "EnrollStop")' \/ IsCall(k, "Release")'
      BY <1>5, <3>2 DEF IsCall
    <3>3. CASE IsCall(i, "EnrollStop")
      BY <1>3, <3>3 DEF IsCall, IsReply
    <3> QED  BY <1>1, <2>2, <3>1, <3>2, <3>3 DEF OrderlyInv, TokenThere, IsCall
  <2> QED  BY <2>1, <2>2
<1>11. StoppedInv'
  <2>1. \A j \in DOMAIN sent' : IsCall(j, "Release")' => reader'.scan = "no"
    BY <1>4, <1>7 DEF OrderlyInv, StoppedInv, IsCall
  <2>2. \A j \in DOMAIN inbox' : IsReply(j, "EnrollStop")' => reader'.scan = "no"
    BY <1>3, <1>7 DEF OrderlyInv, StoppedInv, IsReply
  <2> QED  BY <2>1, <2>2 DEF StoppedInv
<1> QED  BY <1>6, <1>8, <1>9, <1>10, <1>11 DEF OrderlyInv

\* and the last scan, after the answer that started it.
LEMMA ScanOrderly == ASSUME TypeOK, TypeOK', TokenInv, OrderlyInv, Scan PROVE OrderlyInv'
<1>1. /\ reader.scan = "on" /\ reader'.ours = reader.ours
      /\ UNCHANGED <<current, claimed, started, timer, stray, sent>>
  BY DEF Scan, TypeOK, attemptVars
<1>2. PICK what \in {"completed", "failed"} : inbox' = Append(inbox, [what |-> what])
  BY DEF Scan
<1>3. /\ \A j \in DOMAIN inbox : j \in DOMAIN inbox' /\ inbox'[j] = inbox[j] /\ j < Len(inbox) + 1
      /\ \A j \in DOMAIN inbox' : j \in DOMAIN inbox \/ (j = Len(inbox) + 1 /\ inbox'[j] = [what |-> what])
  BY <1>2, MoreIs
<1>4. \A j \in DOMAIN inbox' : \A m \in Methods : IsReply(j, m)' <=> j \in DOMAIN inbox /\ IsReply(j, m)
  BY <1>3 DEF IsReply
<1>5. /\ \A j \in DOMAIN sent : ~IsCall(j, "EnrollStart") /\ ~IsCall(j, "Release")
      /\ \A j \in DOMAIN inbox : /\ IsReply(j, "EnrollStart") => inbox[j].ok
                                 /\ ~IsReply(j, "EnrollStop")
  BY <1>1 DEF OrderlyInv, StartInv, StoppedInv
<1>6. ClaimInv'
  BY <1>1, <1>3 DEF OrderlyInv, ClaimInv, IsCall, IsReply
<1>7. StartInv'
  <2>1. \A j \in DOMAIN sent' : ~IsCall(j, "EnrollStart")'
    BY <1>1, <1>5 DEF IsCall
  <2>2. ASSUME NEW j \in DOMAIN inbox', IsReply(j, "EnrollStart")'
        PROVE  /\ inbox'[j].by = current' /\ claimed' /\ ~started'
               /\ ~inbox'[j].ok => reader'.scan = "no"
               /\ \A k \in DOMAIN inbox' : (IsReply(k, "EnrollStart")' => k = j) /\ (IsSignal(k)' => j < k)
    <3>1. j \in DOMAIN inbox /\ IsReply(j, "EnrollStart") /\ inbox'[j] = inbox[j]
      BY <1>3, <2>2 DEF IsReply
    <3>2. /\ inbox[j].by = current /\ claimed /\ ~started /\ inbox[j].ok
          /\ \A k \in DOMAIN inbox : (IsReply(k, "EnrollStart") => k = j) /\ (IsSignal(k) => j < k)
      BY <1>5, <3>1 DEF OrderlyInv, StartInv
    <3> QED  BY <1>1, <1>3, <3>1, <3>2 DEF IsReply, IsSignal
  <2>3. claimed' /\ ~started' => \E j \in DOMAIN inbox' : IsReply(j, "EnrollStart")'
    BY <1>1, <1>3, <1>5 DEF OrderlyInv, StartInv, IsReply
  <2> QED  BY <2>1, <2>2, <2>3 DEF StartInv
<1>8. FlagInv'
  BY <1>1 DEF OrderlyInv, FlagInv
<1>9. TokenThere'
  BY <1>1, <1>3 DEF OrderlyInv, TokenThere, Granted, IsReply, IsCall
<1>10. StoppedInv'
  BY <1>1, <1>3, <1>5 DEF StoppedInv, IsReply, IsCall
<1> QED  BY <1>6, <1>7, <1>8, <1>9, <1>10 DEF OrderlyInv

\* Each step keeps the order, while the user waits and fprintd is in time.
LEMMA PatientStep ==
  ASSUME TypeOK, TypeOK', TokenInv, PatientInv, [Next]_vars
  PROVE  PatientInv'
<1> SUFFICES ASSUME Patient' PROVE OrderlyInv'
  BY DEF PatientInv
<1>1. faults' = faults
  BY DEF Next, Page, StartEnroll, CancelEnroll, Loop, Dispatch, Fprintd, Accept, Refuse, Serve, GiveUp, Scan,
         vars, fprintdVars
<1>2. Patient /\ OrderlyInv
  BY <1>1 DEF Patient, PatientInv
<1>3. ASSUME UNCHANGED <<inbox, reader>>
      PROVE  Shrunk(0) /\ Kept(0)
  <2>1. inbox \in Seq(Message)
    BY DEF TypeOK
  <2> QED  BY <1>3, <2>1 DEF Shrunk, Kept
<1>4. ASSUME current # 0, started, NEW how \in Ends, End(how), UNCHANGED <<stray, inbox, reader>>
      PROVE  OrderlyInv'
  <2>1. /\ \A i \in DOMAIN sent : ~IsCall(i, "Claim") /\ ~IsCall(i, "EnrollStart")
        /\ \A i \in DOMAIN inbox : ~IsReply(i, "Claim") /\ ~IsReply(i, "EnrollStart")
    BY <1>2, <1>4 DEF OrderlyInv, ClaimInv, StartInv, FlagInv
  <2>2. \A i \in DOMAIN inbox' : ~IsReply(i, "Claim")' /\ ~IsReply(i, "EnrollStart")'
    BY <1>4, <2>1 DEF IsReply
  <2> QED  BY <1>2, <1>3, <1>4, <2>1, <2>2, EndOrderly
<1>5. CASE StartEnroll
  BY <1>2, <1>5, StartOrderly
<1>6. CASE CancelEnroll
  <2>1. current # 0 /\ started /\ End("cancelled") /\ UNCHANGED <<stray, inbox, reader>>
    BY <1>2, <1>6 DEF CancelEnroll, Patient, fprintdVars
  <2> QED  BY <1>4, <2>1 DEF Ends
<1>7. CASE Dispatch
  BY <1>2, <1>7, DispatchOrderly
<1>8. CASE Deadline /\ UNCHANGED <<inbox, fprintdVars>>
  <2>1. stray.timers = 0 /\ (timer => started /\ current # 0)
    BY <1>2 DEF OrderlyInv, FlagInv, TypeOK
  <2>2. timer /\ End("deadline") /\ UNCHANGED <<stray, inbox, reader>>
    BY <1>8, <2>1 DEF Deadline, fprintdVars
  <2> QED  BY <1>4, <2>1, <2>2 DEF Ends
<1>9. ASSUME NEW i \in DOMAIN sent, Accept(i) PROVE OrderlyInv'
  <2>1. Serve(i, TRUE) /\ sent[i].m \in Methods
    <3>1. sent \in Seq(Call)
      BY DEF TypeOK
    <3>2. sent[i] \in Call
      BY <3>1
    <3> QED  BY <1>9, <3>2 DEF Accept, Call
  <2>2. CASE sent[i].m = "Claim"
    <3>1. reader' = [reader EXCEPT !.ours = TRUE]
      BY <1>9, <2>2 DEF Accept
    <3>2. reader'.scan = reader.scan
      BY <3>1 DEF TypeOK
    <3> QED  BY <1>2, <2>1, <2>2, <3>2, ServeOrderly
  <2>3. CASE sent[i].m = "EnrollStart"
    <3>1. reader' = [reader EXCEPT !.scan = "on", !.for = sent[i].by]
      BY <1>9, <2>3 DEF Accept
    <3>2. reader'.ours = reader.ours
      BY <3>1 DEF TypeOK
    <3> QED  BY <1>2, <2>1, <2>3, <3>2, ServeOrderly
  <2>4. CASE sent[i].m = "EnrollStop"
    <3>1. reader' = [reader EXCEPT !.scan = "no", !.for = 0]
      BY <1>9, <2>4 DEF Accept
    <3>2. reader'.ours = reader.ours /\ reader'.scan = "no"
      BY <3>1 DEF TypeOK
    <3> QED  BY <1>2, <2>1, <2>4, <3>2, ServeOrderly
  <2>5. CASE sent[i].m = "Release"
    <3>1. reader' = [ours |-> FALSE, scan |-> "no", for |-> 0]
      BY <1>9, <2>5 DEF Accept
    <3>2. ~reader'.ours /\ reader'.scan = "no"
      BY <3>1
    <3> QED  BY <1>2, <2>1, <2>5, <3>2, ServeOrderly
  <2> QED  BY <2>1, <2>2, <2>3, <2>4, <2>5 DEF Methods
<1>10. ASSUME NEW i \in DOMAIN sent, Refuse(i) PROVE OrderlyInv'
  <2>1. Serve(i, FALSE) /\ reader' = reader
    BY <1>10 DEF Refuse
  <2>2. sent[i].m = "EnrollStop" => reader.scan = "no"
    BY <1>10 DEF Refuse, Can
  <2>3. sent[i].m # "Release"
    <3>1. ASSUME sent[i].m = "Release" PROVE FALSE
      <4>1. ~reader.ours
        BY <1>10, <3>1 DEF Refuse, Can
      <4>2. OnlyClaims
        BY <4>1 DEF TokenInv, FreeInv
      <4> QED  BY <3>1, <4>2 DEF OnlyClaims
    <3> QED  BY <3>1
  <2> QED  BY <1>2, <2>1, <2>2, <2>3, ServeOrderly
<1>11. ASSUME NEW i \in DOMAIN sent, GiveUp(i) PROVE FALSE
  BY <1>2, <1>11 DEF GiveUp, Patient
<1>12. CASE Scan
  BY <1>2, <1>12, ScanOrderly
<1>13. CASE UNCHANGED vars
  BY <1>2, <1>3, <1>13, StillOrderly DEF vars
<1> QED  BY <1>5, <1>6, <1>7, <1>8, <1>9, <1>10, <1>11, <1>12, <1>13 DEF Next, Page, Loop, Fprintd

\* At first there is nothing to be out of order.
LEMMA PatientInit == Init => PatientInv
<1> SUFFICES ASSUME Init PROVE OrderlyInv
  BY DEF PatientInv
<1>1. DOMAIN inbox = {} /\ DOMAIN sent = {}
  <2>1. inbox = << >> /\ sent = << >>
    BY DEF Init
  <2>2. \A s \in Seq(Call) \cup Seq(Message) : s = << >> => DOMAIN s = {}
    OBVIOUS
  <2>3. << >> \in Seq(Call)
    OBVIOUS
  <2> QED  BY <2>1, <2>2, <2>3
<1> QED  BY <1>1 DEF Init, OrderlyInv, ClaimInv, StartInv, FlagInv, TokenThere, StoppedInv

\* The types, the token and the order hold in every state.
LEMMA PatientAlways == Spec => [](TypeOK /\ TokenInv /\ PatientInv)
<1>1. TypeOK /\ TokenInv /\ PatientInv /\ [Next]_vars => (TypeOK /\ TokenInv /\ PatientInv)'
  BY TypeStep, TokenStep, PatientStep
<1> QED  BY <1>1, TypeInit, TokenInit, PatientInit, PTL DEF Spec

\* A reader is never left claimed by a page that is not enrolling and waits for
\* nothing, for any number of attempts and whatever fprintd refuses, when the user
\* waits for each answer and fprintd answers in time (biometrics.py, _end_enroll).
THEOREM ReaderComesBack == Spec => []ReaderGivenBack
<1>1. TypeOK /\ TokenInv /\ PatientInv => ReaderGivenBack
  <2> SUFFICES ASSUME TypeOK, TokenInv, PatientInv, Patient, Quiet, reader.ours
               PROVE  FALSE
    BY DEF ReaderGivenBack, GivenBack
  <2>1. OrderlyInv /\ ~claimed
    BY DEF PatientInv, TokenInv, HeldInv, Quiet
  <2>2. inbox = << >> /\ sent = << >>
    BY DEF Quiet
  <2>3. \A s \in Seq(Call) \cup Seq(Message) : s = << >> => DOMAIN s = {}
    OBVIOUS
  <2>4. << >> \in Seq(Call)
    OBVIOUS
  <2>5. DOMAIN inbox = {} /\ DOMAIN sent = {}
    BY <2>2, <2>3, <2>4
  <2> QED  BY <2>1, <2>5 DEF OrderlyInv, TokenThere
<1> QED  BY <1>1, PatientAlways, PTL

\* Under the same conditions the reader is not given back under a running scan.
THEOREM StopsFirst == Spec => StoppedBeforeRelease
<1> DEFINE Act == Patient /\ reader.ours /\ ~reader'.ours => reader.scan = "no"
<1>1. TypeOK /\ TokenInv /\ PatientInv /\ [Next]_vars => Act
  <2> SUFFICES ASSUME TypeOK, TokenInv, PatientInv, [Next]_vars, Patient, reader.ours, ~reader'.ours
               PROVE  reader.scan = "no"
    OBVIOUS
  <2>1. PICK i \in DOMAIN sent : Accept(i)
    BY DEF Next, Page, StartEnroll, CancelEnroll, Loop, Dispatch, Fprintd, Refuse, GiveUp, Scan, vars,
           fprintdVars, TypeOK
  <2>2. sent[i].m \in Methods
    BY <2>1, ServeIs DEF Accept, Call
  <2>3. reader \in [ours : BOOLEAN, scan : {"no", "on", "over"}, for : Attempt \cup {0}]
    BY DEF TypeOK
  <2>4. sent[i].m = "Release"
    <3>1. ASSUME sent[i].m = "Claim" PROVE FALSE
      <4>1. reader' = [reader EXCEPT !.ours = TRUE]
        BY <2>1, <3>1 DEF Accept
      <4> QED  BY <2>3, <4>1
    <3>2. ASSUME sent[i].m = "EnrollStart" PROVE FALSE
      <4>1. reader' = [reader EXCEPT !.scan = "on", !.for = sent[i].by]
        BY <2>1, <3>2 DEF Accept
      <4> QED  BY <2>3, <4>1
    <3>3. ASSUME sent[i].m = "EnrollStop" PROVE FALSE
      <4>1. reader' = [reader EXCEPT !.scan = "no", !.for = 0]
        BY <2>1, <3>3 DEF Accept
      <4> QED  BY <2>3, <4>1
    <3> QED  BY <2>2, <3>1, <3>2, <3>3 DEF Methods
  <2> QED  BY <2>4 DEF PatientInv, OrderlyInv, StoppedInv, IsCall
<1>2. TypeOK /\ TokenInv /\ PatientInv /\ [Next]_vars => [Act]_vars
  BY <1>1
<1> QED  BY <1>2, PatientAlways, PTL DEF Spec, StoppedBeforeRelease

\* What is left of a sequence is neither the sequence nor the sequence and more.
LEMMA TailIsShorter ==
  ASSUME NEW S, NEW s \in Seq(S), s # << >>
  PROVE  Tail(s) # s /\ \A e \in S : Tail(s) # Append(s, e)
<1>1. Len(s) \in Nat /\ Len(Tail(s)) = Len(s) - 1
  OBVIOUS
<1>2. \A e \in S : Len(Append(s, e)) = Len(s) + 1
  BY AppendProperties
<1>3. \A n \in Nat : n - 1 # n /\ n - 1 # n + 1
  OBVIOUS
<1> QED  BY <1>1, <1>2, <1>3

\* Under the same conditions an answer that ends an attempt was for that attempt.
THEOREM AnswersEndTheirs == Spec => AnswersItsOwn
<1> DEFINE Act == Patient /\ current # 0 /\ current' = 0 /\ inbox # << >> /\ inbox' = Tail(inbox)
                    /\ Head(inbox).what = "reply" => Head(inbox).by = current
<1>1. TypeOK /\ TokenInv /\ PatientInv /\ [Next]_vars => Act
  <2> SUFFICES ASSUME TypeOK, TokenInv, PatientInv, [Next]_vars, Patient, current # 0, current' = 0,
                      inbox # << >>, inbox' = Tail(inbox), Head(inbox).what = "reply"
               PROVE  Head(inbox).by = current
    OBVIOUS
  <2>1. inbox' # inbox /\ \A msg \in Message : inbox' # Append(inbox, msg)
    <3>1. inbox \in Seq(Message)
      BY DEF TypeOK
    <3> QED  BY <3>1, TailIsShorter
  <2>2. Dispatch
    <3>1. ~Fprintd
      BY DEF Fprintd, Accept, Refuse, Serve, GiveUp, attemptVars
    <3>2. ~Scan
      BY DEF Scan, attemptVars
    <3> QED  BY <2>1, <3>1, <3>2 DEF Next, Page, Loop, StartEnroll, CancelEnroll, vars
  <2>3. OrderlyInv /\ 1 \in DOMAIN inbox /\ Head(inbox) = inbox[1]
    BY <2>2, DispatchIs DEF PatientInv
  <2>4. CASE inbox[1].m = "Claim" \/ inbox[1].m = "EnrollStart"
    BY <2>3, <2>4 DEF OrderlyInv, ClaimInv, StartInv, IsReply
  <2>5. CASE OnUndone(inbox[1].m, inbox[1].by)
    BY <2>5 DEF OnUndone, attemptVars
  <2> QED  BY <2>2, <2>3, <2>4, <2>5, DispatchIs
<1>2. TypeOK /\ TokenInv /\ PatientInv /\ [Next]_vars => [Act]_vars
  BY <1>1
<1> QED  BY <1>2, PatientAlways, PTL DEF Spec, AnswersItsOwn
=============================================================================
