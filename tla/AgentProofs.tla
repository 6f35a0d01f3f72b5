---------------------------- MODULE AgentProofs ----------------------------
(* What the agent tells and remembers, for every set of versions, every     *)
(* number of boots and days, and whatever becomes of its notifications.     *)
EXTENDS Agent, TLAPS

\* An event that can still be due: an update, or one of this boot.
Live(e) == e.kind = "update" \/ e.boot = boot

\* A run: what is left is part of what is due, each event once, and counts as
\* said until it is taken back.
TypesInv ==
  /\ boot \in 1..MaxBoot /\ day \in Nat
  /\ reboot \in Versions \cup {None} /\ remote \in Versions \cup {None}
  /\ left \in Seq(Event)
  /\ \A e \in DOMAIN said : said[e] \in 0..day
  /\ \A e \in DOMAIN disk : disk[e] \in 0..day
  /\ \A e \in DOMAIN told : told[e] \in 0..day

RunInv ==
  /\ ~running => left = << >> /\ ~waiting
  /\ waiting => left # << >>
  /\ \A i, j \in 1..Len(left) : left[i] = left[j] => i = j
  /\ Range(left) \subseteq Range(due)
  /\ \A e \in Range(left) : e \in DOMAIN said /\ Live(e)

\* The event of the first of left, while it is on the screen.
Shown(e) == waiting /\ e = Head(left)

\* For SaidWasTold.  Finish writes the file only if the file may hold what was
\* taken back: the last conjuncts say what the file holds when it does not.
ToldInv ==
  "killed" \notin faults =>
    IF running
    THEN /\ DOMAIN said \subseteq DOMAIN told \cup Range(left)
         /\ waiting => Head(left) \in DOMAIN told
         /\ ~undelivered => DOMAIN disk \subseteq DOMAIN told \cup Range(left)
         /\ \/ DOMAIN disk \subseteq DOMAIN told
            \/ \E e \in Range(due) \cap DOMAIN said : e \notin Range(left)
    ELSE DOMAIN disk \subseteq DOMAIN told

\* A record of what was said agrees with what was shown, but that an update taken
\* back may be missing, and was then last shown on an earlier day.
Agrees(record, e) ==
  IF e \in DOMAIN record
  THEN e.kind = "update" => record[e] = told[e]
  ELSE e.kind = "update" /\ told[e] < day

DiskAgrees == \A e \in DOMAIN told : Live(e) => Agrees(disk, e)

\* For OncePerEvent: an event still to be shown was never shown, or is an update
\* of an earlier day.
OnceInv ==
  faults \subseteq {"refused"} =>
    /\ ~again
    /\ \A e \in DOMAIN told : e.kind # "update" => e.boot \in 1..boot
    /\ IF running
       THEN /\ \A e \in Range(left) \cap DOMAIN told :
                 IF Shown(e) THEN told[e] = said[e]
                 ELSE e.kind = "update" /\ told[e] < said[e]
            /\ waiting => Head(left) \in DOMAIN told
            /\ \A e \in DOMAIN told \ Range(left) : Live(e) => Agrees(said, e)
            /\ left = << >> => undelivered \/ disk = said
            /\ \/ DiskAgrees
               \/ \E e \in Range(due) \cap DOMAIN said : e \notin Range(left) \/ Shown(e)
       ELSE DiskAgrees

IInv == TypesInv /\ RunInv /\ ToldInv /\ OnceInv

----------------------------------------------------------------------------
(* Sequences without repetition                                             *)

\* The first of left goes, and nothing else.
LEMMA HeadGoes ==
  ASSUME NEW S, NEW s \in Seq(S), s # << >>,
         \A i, j \in 1..Len(s) : s[i] = s[j] => i = j
  PROVE  /\ Tail(s) \in Seq(S)
         /\ Head(s) \in Range(s)
         /\ Range(Tail(s)) = Range(s) \ {Head(s)}
         /\ \A i, j \in 1..Len(Tail(s)) : Tail(s)[i] = Tail(s)[j] => i = j
<1>1. /\ Len(s) \in Nat /\ Len(s) > 0 /\ DOMAIN s = 1..Len(s)
      /\ Tail(s) \in Seq(S) /\ Len(Tail(s)) = Len(s) - 1
      /\ DOMAIN Tail(s) = 1..(Len(s) - 1)
      /\ \A i \in 1..(Len(s) - 1) : Tail(s)[i] = s[i + 1]
      /\ Head(s) = s[1]
  OBVIOUS
<1>2. Head(s) \in Range(s)
  BY <1>1 DEF Range
<1>3. Range(Tail(s)) \subseteq Range(s) \ {Head(s)}
  BY <1>1 DEF Range
<1>4. ASSUME NEW e \in Range(s) \ {Head(s)} PROVE e \in Range(Tail(s))
  <2>1. PICK i \in 1..Len(s) : s[i] = e
    BY <1>1 DEF Range
  <2>2. i # 1 /\ i - 1 \in 1..(Len(s) - 1) /\ Tail(s)[i - 1] = e
    BY <1>1, <2>1
  <2> QED
    BY <1>1, <2>2 DEF Range
<1>5. \A i, j \in 1..Len(Tail(s)) : Tail(s)[i] = Tail(s)[j] => i = j
  BY <1>1
<1> QED
  BY <1>1, <1>2, <1>3, <1>4, <1>5

\* One event after another, and they are different.
LEMMA Joined ==
  ASSUME NEW S, NEW s \in Seq(S), NEW t \in Seq(S), Len(s) <= 1, Len(t) <= 1,
         \A i \in 1..Len(s), j \in 1..Len(t) : s[i] # t[j]
  PROVE  /\ s \o t \in Seq(S)
         /\ \A i, j \in 1..Len(s \o t) : (s \o t)[i] = (s \o t)[j] => i = j
         /\ \A e \in Range(s \o t) :
              (\E i \in 1..Len(s) : e = s[i]) \/ (\E i \in 1..Len(t) : e = t[i])
<1>1. Len(s) \in Nat /\ Len(t) \in Nat
  OBVIOUS
<1>2. Len(s) \in {0, 1} /\ Len(t) \in {0, 1}
  <2>1. \A n \in Nat : n <= 1 => n \in {0, 1}
    OBVIOUS
  <2> QED
    BY <1>1, <2>1
<1>3. s \o t \in Seq(S)
  OBVIOUS
<1>4. Len(s \o t) = Len(s) + Len(t)
  OBVIOUS
<1>5. DOMAIN (s \o t) = 1..Len(s \o t)
  BY <1>3
<1>6. \A i \in 1..Len(s \o t) :
        (s \o t)[i] = IF i <= Len(s) THEN s[i] ELSE t[i - Len(s)]
  BY <1>2, <1>4
<1>7. \A i, j \in 1..Len(s \o t) : (s \o t)[i] = (s \o t)[j] => i = j
  BY <1>2, <1>4, <1>6
<1>8. \A i \in 1..Len(s \o t) : (\E k \in 1..Len(s) : (s \o t)[i] = s[k])
                                 \/ (\E k \in 1..Len(t) : (s \o t)[i] = t[k])
  BY <1>2, <1>4, <1>6
<1> QED
  BY <1>3, <1>5, <1>7, <1>8 DEF Range

\* Keys that are due are news, and nothing is added to them.
LEMMA DueIsNews ==
  ASSUME NEW keys \in Seq(Event), Len(keys) <= 1
  PROVE  /\ Due(keys) \in Seq(Event) /\ Len(Due(keys)) <= 1
         /\ \A i \in 1..Len(Due(keys)) : /\ i \in 1..Len(keys)
                                         /\ Due(keys)[i] = keys[i]
                                         /\ News(Due(keys)[i])
<1>1. CASE \A e \in Range(keys) : News(e)
  <2>1. Due(keys) = keys
    BY <1>1 DEF Due
  <2>2. \A i \in 1..Len(keys) : keys[i] \in Range(keys)
    BY DEF Range
  <2> QED
    BY <1>1, <2>1, <2>2
<1>2. CASE ~(\A e \in Range(keys) : News(e))
  BY <1>2 DEF Due
<1> QED
  BY <1>1, <1>2

\* What a run finds due: a failure, a restart or an update, each once, all of
\* this boot, and each of them news.
LEMMA DecideOnce ==
  ASSUME TypesInv
  PROVE  /\ Decide \in Seq(Event)
         /\ \A i, j \in 1..Len(Decide) : Decide[i] = Decide[j] => i = j
         /\ \A e \in Range(Decide) : Live(e) /\ News(e)
<1>1. /\ FailureKey \in Seq(Event) /\ Len(FailureKey) <= 1
      /\ \A i \in 1..Len(FailureKey) : FailureKey[i].kind = "failure" /\ Live(FailureKey[i])
  <2>1. Failure(boot) \in Event /\ Failure(boot).kind = "failure" /\ Live(Failure(boot))
    BY DEF Event, Failure, Live, TypesInv
  <2>2. CASE failed
    BY <2>1, <2>2 DEF FailureKey
  <2>3. CASE ~failed
    BY <2>3 DEF FailureKey
  <2> QED
    BY <2>2, <2>3
<1>2. /\ UpdateKey \in Seq(Event) /\ Len(UpdateKey) <= 1
      /\ \A i \in 1..Len(UpdateKey) : UpdateKey[i].kind # "failure" /\ Live(UpdateKey[i])
  <2>1. CASE reboot # None
    <3>1. RebootFor(boot, reboot) \in Event
      BY <2>1 DEF Event, TypesInv
    <3>2. RebootFor(boot, reboot).kind # "failure" /\ Live(RebootFor(boot, reboot))
      BY DEF RebootFor, Live
    <3> QED
      BY <2>1, <3>1, <3>2 DEF UpdateKey
  <2>2. CASE reboot = None /\ remote # None
    <3>1. Update(remote) \in Event
      BY <2>2 DEF Event, TypesInv
    <3>2. Update(remote).kind # "failure" /\ Live(Update(remote))
      BY DEF Update, Live
    <3> QED
      BY <2>2, <3>1, <3>2 DEF UpdateKey
  <2>3. CASE reboot = None /\ remote = None
    BY <2>3 DEF UpdateKey
  <2> QED
    BY <2>1, <2>2, <2>3
<1> DEFINE f == Due(FailureKey)
           u == Due(UpdateKey)
<1>3. /\ f \in Seq(Event) /\ Len(f) <= 1
      /\ \A i \in 1..Len(f) : f[i].kind = "failure" /\ Live(f[i]) /\ News(f[i])
  BY <1>1, DueIsNews
<1>4. /\ u \in Seq(Event) /\ Len(u) <= 1
      /\ \A i \in 1..Len(u) : u[i].kind # "failure" /\ Live(u[i]) /\ News(u[i])
  BY <1>2, DueIsNews
<1>5. Decide = f \o u
  BY DEF Decide
<1> HIDE DEF f, u
<1>6. \A i \in 1..Len(f), j \in 1..Len(u) : f[i] # u[j]
  BY <1>3, <1>4
<1>7. /\ f \o u \in Seq(Event)
      /\ \A i, j \in 1..Len(f \o u) : (f \o u)[i] = (f \o u)[j] => i = j
      /\ \A e \in Range(f \o u) :
           (\E i \in 1..Len(f) : e = f[i]) \/ (\E i \in 1..Len(u) : e = u[i])
  BY <1>3, <1>4, <1>6, Joined
<1> QED
  BY <1>3, <1>4, <1>5, <1>7

\* SaidNow: what the file holds of this boot, and what is due, said today.
LEMMA SaidNowIs ==
  ASSUME TypesInv
  PROVE  /\ \A e : e \in DOMAIN SaidNow <=>
                     (e \in DOMAIN disk \/ e \in Range(Decide)) /\ Live(e)
         /\ \A e \in DOMAIN SaidNow : SaidNow[e] \in 0..day
         /\ \A e \in DOMAIN SaidNow : e.kind = "update" =>
              SaidNow[e] = IF e \in Range(Decide) THEN day ELSE disk[e]
<1>1. \A e : e \in DOMAIN SaidNow <=>
               (e \in DOMAIN disk \/ e \in Range(Decide)) /\ Live(e)
  BY DEF SaidNow, Live
<1>2. \A e \in DOMAIN SaidNow :
        SaidNow[e] = IF e.kind # "update" THEN 0
                     ELSE IF e \in Range(Decide) THEN day ELSE disk[e]
  BY DEF SaidNow
<1> QED
  BY <1>1, <1>2 DEF TypesInv

----------------------------------------------------------------------------
(* The steps                                                                *)

LEMMA Initially == Init => IInv
<1> SUFFICES ASSUME Init PROVE IInv
  OBVIOUS
<1>1. /\ left = << >> /\ DOMAIN disk = {} /\ DOMAIN said = {} /\ DOMAIN told = {}
      /\ ~running /\ ~waiting /\ ~again /\ boot = 1 /\ day = 0
      /\ reboot = None /\ remote = None
  BY DEF Init, Nothing
<1>2. Range(left) = {}
  BY <1>1 DEF Range
<1> QED
  BY <1>1, <1>2, BoundAssumption DEF IInv, TypesInv, RunInv, ToldInv, OnceInv, DiskAgrees

LEMMA RunStep ==
  ASSUME IInv, Run
  PROVE  IInv'
<1> USE DEF IInv
<1> DEFINE D == Decide
           N == SaidNow
<1>1. /\ ~running /\ running' /\ ~waiting /\ D # << >>
      /\ due' = D /\ left' = D /\ said' = N /\ ~undelivered'
      /\ UNCHANGED <<faults, boot, day, reboot, remote, disk, waiting, told, again>>
  BY DEF Run, systemVars, historyVars, RunInv
<1>2. /\ D \in Seq(Event)
      /\ \A i, j \in 1..Len(D) : D[i] = D[j] => i = j
      /\ \A e \in Range(D) : Live(e) /\ News(e)
  BY DecideOnce
<1>3. /\ \A e : e \in DOMAIN N <=> (e \in DOMAIN disk \/ e \in Range(D)) /\ Live(e)
      /\ \A e \in DOMAIN N : N[e] \in 0..day
      /\ \A e \in DOMAIN N : e.kind = "update" =>
           N[e] = IF e \in Range(D) THEN day ELSE disk[e]
  BY SaidNowIs
<1> HIDE DEF D, N
<1>4. TypesInv'
  BY <1>1, <1>2, <1>3 DEF TypesInv
<1>5. RunInv'
  BY <1>1, <1>2, <1>3 DEF RunInv, Live
<1>6. ToldInv'
  BY <1>1, <1>3 DEF ToldInv
<1>7. ASSUME faults \subseteq {"refused"} PROVE OnceInv'
  <2>1. /\ ~again /\ DiskAgrees
        /\ \A e \in DOMAIN told : e.kind # "update" => e.boot \in 1..boot
    BY <1>1, <1>7 DEF OnceInv
  <2>2. ASSUME NEW e \in Range(D) \cap DOMAIN told
        PROVE  e.kind = "update" /\ told[e] < N[e]
    <3>1. Live(e) /\ News(e) /\ Agrees(disk, e) /\ N[e] \in 0..day /\ told[e] \in 0..day
      BY <1>2, <1>3, <2>1, <2>2 DEF DiskAgrees, TypesInv
    <3>2. e.kind = "update" /\ told[e] < day
      <4>1. CASE e \in DOMAIN disk
        BY <3>1, <4>1 DEF News, Agrees, TypesInv
      <4>2. CASE e \notin DOMAIN disk
        BY <3>1, <4>2 DEF Agrees
      <4> QED
        BY <4>1, <4>2
    <3> QED
      BY <1>3, <2>2, <3>1, <3>2
  <2>3. ASSUME NEW e \in DOMAIN told \ Range(D), Live(e)
        PROVE  Agrees(N, e)
    BY <1>3, <2>1, <2>3 DEF DiskAgrees, Agrees
  <2>4. /\ DiskAgrees' /\ \A e : Shown(e)' => FALSE
        /\ \A e : Live(e)' = Live(e)
        /\ \A e : Agrees(said, e)' = Agrees(N, e)
    BY <1>1, <2>1 DEF DiskAgrees, Agrees, Live, Shown
  <2> QED
    BY <1>1, <2>1, <2>2, <2>3, <2>4 DEF OnceInv
<1>8. OnceInv'
  BY <1>1, <1>7 DEF OnceInv
<1> QED
  BY <1>4, <1>5, <1>6, <1>8

LEMMA ShowStep ==
  ASSUME IInv, Show
  PROVE  IInv'
<1> USE DEF IInv
<1> DEFINE e == Head(left)
<1>1. /\ running /\ left # << >> /\ ~waiting /\ waiting'
      /\ told' = With(told, e, said[e])
      /\ again' = \/ again
                  \/ e \in DOMAIN told /\ (e.kind # "update" \/ said[e] = told[e])
      /\ UNCHANGED <<faults, boot, day, reboot, remote, disk, running, said, due, left, undelivered>>
  BY DEF Show, systemVars
<1>2. e \in Range(left) /\ e \in DOMAIN said /\ said[e] \in 0..day /\ Live(e) /\ e \in Range(due)
  BY <1>1, HeadGoes DEF TypesInv, RunInv
<1>3. /\ DOMAIN told' = DOMAIN told \cup {e} /\ told'[e] = said[e]
      /\ \A x \in DOMAIN told : x # e => told'[x] = told[x]
  BY <1>1 DEF With
<1>4. Shown(e)' /\ \A x : Shown(x)' => x = e
  BY <1>1 DEF Shown
<1> HIDE DEF e
<1>5. TypesInv'
  BY <1>1, <1>2, <1>3 DEF TypesInv
<1>6. RunInv'
  BY <1>1 DEF RunInv, Live
<1>7. ToldInv'
  BY <1>1, <1>2, <1>3 DEF ToldInv, e
<1>8. ASSUME faults \subseteq {"refused"} PROVE OnceInv'
  <2>1. /\ ~again
        /\ \A x \in DOMAIN told : x.kind # "update" => x.boot \in 1..boot
        /\ \A x \in Range(left) \cap DOMAIN told : x.kind = "update" /\ told[x] < said[x]
        /\ \A x \in DOMAIN told \ Range(left) : Live(x) => Agrees(said, x)
    BY <1>1, <1>8 DEF OnceInv, Shown
  <2>2. ~again'
    BY <1>1, <1>2, <2>1 DEF TypesInv
  <2>3. \A x \in DOMAIN told' : x.kind # "update" => x.boot \in 1..boot
    BY <1>2, <1>3, <2>1 DEF Live, TypesInv
  <2>4. \A x \in Range(left) \cap DOMAIN told' :
          IF Shown(x)' THEN told'[x] = said[x] ELSE x.kind = "update" /\ told'[x] < said[x]
    BY <1>3, <1>4, <2>1
  <2>5. \A x \in DOMAIN told' \ Range(left) : Live(x) => Agrees(said, x)'
    BY <1>1, <1>2, <1>3, <2>1 DEF Agrees
  <2> QED
    BY <1>1, <1>2, <1>3, <1>4, <2>2, <2>3, <2>4, <2>5 DEF OnceInv, Live, e
<1>9. OnceInv'
  BY <1>1, <1>8 DEF OnceInv
<1> QED
  BY <1>5, <1>6, <1>7, <1>9

LEMMA ClosedStep ==
  ASSUME IInv, Closed
  PROVE  IInv'
<1> USE DEF IInv
<1> DEFINE e == Head(left)
<1>1. /\ running /\ left # << >> /\ waiting /\ ~waiting'
      /\ left' = Tail(left) /\ disk' = said
      /\ UNCHANGED <<faults, boot, day, reboot, remote, running, said, due, undelivered,
                     told, again>>
  BY DEF Closed, systemVars, historyVars, RunInv
<1>2. /\ Tail(left) \in Seq(Event) /\ e \in Range(left)
      /\ Range(left') = Range(left) \ {e}
      /\ \A i, j \in 1..Len(Tail(left)) : Tail(left)[i] = Tail(left)[j] => i = j
  BY <1>1, HeadGoes DEF TypesInv, RunInv
<1>3. e \in DOMAIN said /\ e \in Range(due)
  BY <1>2 DEF RunInv
<1>4. \A x : Shown(x) <=> x = e
  BY <1>1 DEF Shown
<1>5. \A x : Shown(x)' => FALSE
  BY <1>1 DEF Shown
<1>6. waiting => Head(left) = e
  OBVIOUS
<1> HIDE DEF e
<1>7. TypesInv'
  BY <1>1, <1>2 DEF TypesInv
<1>8. RunInv'
  BY <1>1, <1>2 DEF RunInv, Live
<1>9. ToldInv'
  BY <1>1, <1>2, <1>3, <1>6 DEF ToldInv
<1>10. ASSUME faults \subseteq {"refused"} PROVE OnceInv'
  <2>1. /\ ~again /\ e \in DOMAIN told /\ told[e] = said[e]
        /\ \A x \in DOMAIN told : x.kind # "update" => x.boot \in 1..boot
        /\ \A x \in Range(left) \cap DOMAIN told :
             x # e => x.kind = "update" /\ told[x] < said[x]
        /\ \A x \in DOMAIN told \ Range(left) : Live(x) => Agrees(said, x)
    BY <1>1, <1>2, <1>4, <1>6, <1>10 DEF OnceInv
  <2>2. ASSUME NEW x \in DOMAIN told \ Range(left'), Live(x) PROVE Agrees(said, x)
    BY <1>2, <1>3, <2>1, <2>2 DEF Agrees
  <2>3. /\ \A x : Live(x)' = Live(x)
        /\ \A x : Agrees(said, x)' = Agrees(said, x)
    BY <1>1 DEF Live, Agrees
  <2>4. e \in Range(due) \cap DOMAIN said /\ e \notin Range(left')
    BY <1>2, <1>3
  <2> QED
    BY <1>1, <1>2, <1>5, <2>1, <2>2, <2>3, <2>4 DEF OnceInv
<1>11. OnceInv'
  BY <1>1, <1>10 DEF OnceInv
<1> QED
  BY <1>7, <1>8, <1>9, <1>11

\* A notification that was refused, or that nobody closed.
LEMMA NotToldStep ==
  ASSUME IInv, running, left # << >>, NotTold, ~waiting', waiting => "ignored" \in faults,
         UNCHANGED <<faults, boot, day, reboot, remote, disk, running, due, told, again>>
  PROVE  IInv'
<1> USE DEF IInv
<1> DEFINE e == Head(left)
<1>1. /\ undelivered' /\ left' = Tail(left)
      /\ DOMAIN said' = DOMAIN said \ {e}
      /\ \A x \in DOMAIN said' : said'[x] = said[x]
  BY DEF NotTold, Without
<1>2. /\ Tail(left) \in Seq(Event) /\ e \in Range(left)
      /\ Range(left') = Range(left) \ {e}
      /\ \A i, j \in 1..Len(Tail(left)) : Tail(left)[i] = Tail(left)[j] => i = j
  BY <1>1, HeadGoes DEF TypesInv, RunInv
<1>3. e \in DOMAIN said /\ said[e] \in 0..day
  BY <1>2 DEF RunInv, TypesInv
<1>4. \A x : Shown(x)' => FALSE
  BY DEF Shown
<1> HIDE DEF e
<1>5. TypesInv'
  BY <1>1, <1>2 DEF TypesInv
<1>6. RunInv'
  BY <1>1, <1>2 DEF RunInv, Live
<1>7. ToldInv'
  BY <1>1, <1>2 DEF ToldInv
<1>8. ASSUME faults \subseteq {"refused"} PROVE OnceInv'
  <2>1. ~waiting /\ \A x : Shown(x) => FALSE
    BY <1>8 DEF Shown
  <2>2. /\ ~again
        /\ \A x \in DOMAIN told : x.kind # "update" => x.boot \in 1..boot
        /\ \A x \in Range(left) \cap DOMAIN told : x.kind = "update" /\ told[x] < said[x]
        /\ \A x \in DOMAIN told \ Range(left) : Live(x) => Agrees(said, x)
        /\ \/ DiskAgrees
           \/ \E x \in Range(due) \cap DOMAIN said : x \notin Range(left)
    BY <1>8, <2>1 DEF OnceInv
  <2>3. ASSUME NEW x \in DOMAIN told \ Range(left'), Live(x) PROVE Agrees(said', x)
    BY <1>1, <1>2, <1>3, <2>2, <2>3 DEF Agrees, TypesInv
  <2>4. /\ \A x : Live(x)' = Live(x)
        /\ \A x : Agrees(said, x)' = Agrees(said', x)
        /\ DiskAgrees' = DiskAgrees
    BY DEF Live, Agrees, DiskAgrees
  <2>5. \A x \in Range(left') \cap DOMAIN told : x.kind = "update" /\ told[x] < said'[x]
    BY <1>1, <1>2, <2>2 DEF RunInv
  <2>6. \/ DiskAgrees
        \/ \E x \in Range(due) \cap DOMAIN said' : x \notin Range(left')
    BY <1>1, <1>2, <2>2
  <2> QED
    BY <1>1, <1>4, <2>2, <2>3, <2>4, <2>5, <2>6 DEF OnceInv
<1>9. OnceInv'
  BY <1>8 DEF OnceInv
<1> QED
  BY <1>5, <1>6, <1>7, <1>9

\* A run that is over leaves nothing but the file.
LEMMA OverIs ==
  ASSUME Over
  PROVE  /\ ~running' /\ ~waiting' /\ left' = << >> /\ Range(left') = {}
         /\ DOMAIN said' = {}
BY DEF Over, Nothing, Range

LEMMA FinishStep ==
  ASSUME IInv, Finish
  PROVE  IInv'
<1> USE DEF IInv
<1>1. /\ running /\ left = << >> /\ Over
      /\ disk' = IF undelivered /\ Range(due) \cap DOMAIN said # {} THEN said ELSE disk
      /\ UNCHANGED <<faults, boot, day, reboot, remote, told, again>>
  BY DEF Finish, systemVars, historyVars
<1>2. Range(left) = {} /\ ~waiting
  BY <1>1 DEF Range, RunInv
<1>3. TypesInv'
  BY <1>1, OverIs DEF TypesInv
<1>4. RunInv'
  BY <1>1, OverIs DEF RunInv
<1>5. ToldInv'
  <2>1. "killed" \notin faults => DOMAIN disk' \subseteq DOMAIN told
    BY <1>1, <1>2 DEF ToldInv
  <2> QED
    BY <1>1, <2>1, OverIs DEF ToldInv
<1>6. ASSUME faults \subseteq {"refused"} PROVE OnceInv'
  <2>1. /\ ~again
        /\ \A x \in DOMAIN told : x.kind # "update" => x.boot \in 1..boot
        /\ \A x \in DOMAIN told : Live(x) => Agrees(said, x)
        /\ undelivered \/ disk = said
        /\ DiskAgrees \/ Range(due) \cap DOMAIN said # {}
    BY <1>1, <1>2, <1>6 DEF OnceInv
  <2>2. disk' = said \/ (disk' = disk /\ DiskAgrees)
    BY <1>1, <2>1
  <2>3. DiskAgrees'
    BY <1>1, <2>1, <2>2 DEF DiskAgrees, Agrees, Live
  <2> QED
    BY <1>1, <2>1, <2>3, OverIs DEF OnceInv
<1>7. OnceInv'
  BY <1>1, <1>6 DEF OnceInv
<1> QED
  BY <1>3, <1>4, <1>5, <1>7

\* Death and restart: without the first, the second meets no run.
LEMMA KilledStep ==
  ASSUME IInv, Killed
  PROVE  IInv'
<1>1. "killed" \in faults /\ Over /\ UNCHANGED <<faults, boot, day, reboot, remote, disk, told, again>>
  BY DEF Killed, Stop, systemVars, historyVars
<1> QED
  BY <1>1, OverIs DEF IInv, TypesInv, RunInv, ToldInv, OnceInv

LEMMA RestartStep ==
  ASSUME IInv, Restart
  PROVE  IInv'
<1> USE DEF IInv
<1>1. /\ boot < MaxBoot /\ (~running \/ "killed" \in faults) /\ boot' = boot + 1
      /\ reboot' = None /\ Over
      /\ UNCHANGED <<faults, day, remote, disk, told, again>>
  BY DEF Restart, Stop, historyVars
<1>2. TypesInv'
  BY <1>1, OverIs, BoundAssumption DEF TypesInv
<1>3. RunInv'
  BY <1>1, OverIs DEF RunInv
<1>4. ToldInv'
  BY <1>1, OverIs DEF ToldInv
<1>5. ASSUME faults \subseteq {"refused"} PROVE OnceInv'
  <2>1. /\ ~again /\ DiskAgrees
        /\ \A x \in DOMAIN told : x.kind # "update" => x.boot \in 1..boot
    BY <1>1, <1>5 DEF OnceInv
  <2>2. \A x \in DOMAIN told : x.kind # "update" => x.boot # boot'
    BY <1>1, <2>1, BoundAssumption DEF TypesInv, Event
  <2>3. DiskAgrees'
    BY <1>1, <2>1, <2>2 DEF DiskAgrees, Agrees, Live
  <2> QED
    BY <1>1, <2>1, <2>3, OverIs DEF OnceInv, TypesInv
<1>6. OnceInv'
  BY <1>1, <1>5 DEF OnceInv
<1> QED
  BY <1>2, <1>3, <1>4, <1>6

LEMMA NextDayStep ==
  ASSUME IInv, NextDay
  PROVE  IInv'
<1> USE DEF IInv
<1>1. /\ day' = day + 1
      /\ UNCHANGED <<faults, boot, reboot, remote, disk, running, said, due, left, waiting,
                     undelivered, told, again>>
  BY DEF NextDay, runVars, historyVars
<1>2. TypesInv'
  BY <1>1 DEF TypesInv
<1>3. RunInv' /\ ToldInv'
  BY <1>1 DEF RunInv, ToldInv, Live
<1>4. \A x \in DOMAIN told : /\ Agrees(disk, x) => Agrees(disk, x)'
                             /\ Agrees(said, x) => Agrees(said, x)'
  BY <1>1 DEF Agrees, TypesInv
<1>5. DiskAgrees => DiskAgrees'
  BY <1>1, <1>4 DEF DiskAgrees, Live
<1>6. OnceInv'
  BY <1>1, <1>4, <1>5 DEF OnceInv, Shown, Live
<1> QED
  BY <1>2, <1>3, <1>6

LEMMA Step == IInv /\ [Next]_vars => IInv'
<1> SUFFICES ASSUME IInv, [Next]_vars PROVE IInv'
  OBVIOUS
<1>1. CASE Refused
  <2>1. /\ running /\ left # << >> /\ ~waiting /\ ~waiting' /\ NotTold
        /\ UNCHANGED <<faults, boot, day, reboot, remote, disk, running, due, told, again>>
    BY <1>1 DEF Refused, systemVars, historyVars
  <2> QED
    BY <2>1, NotToldStep
<1>2. CASE Ignored
  <2>1. /\ running /\ left # << >> /\ ~waiting' /\ NotTold /\ "ignored" \in faults
        /\ UNCHANGED <<faults, boot, day, reboot, remote, disk, running, due, told, again>>
    BY <1>2 DEF Ignored, systemVars, historyVars, IInv, RunInv
  <2> QED
    BY <2>1, NotToldStep
<1>3. CASE Publish \/ Install \/ UNCHANGED vars
  <2>1. /\ reboot' \in Versions \cup {None} /\ remote' \in Versions \cup {None}
        /\ UNCHANGED <<faults, boot, day, disk, running, said, due, left, waiting,
                       undelivered, told, again>>
    BY <1>3 DEF Publish, Install, vars, systemVars, runVars, historyVars, IInv, TypesInv
  <2> QED
    BY <2>1 DEF IInv, TypesInv, RunInv, ToldInv, OnceInv, DiskAgrees, Agrees, Shown, Live
<1> QED
  BY <1>1, <1>2, <1>3, RunStep, ShowStep, ClosedStep, FinishStep, KilledStep, RestartStep,
     NextDayStep DEF Next

LEMMA Kept == Spec => []IInv
BY Initially, Step, PTL DEF Spec

\* "once per event": as long as the agent lives and what it shows is closed, no
\* failure and no restart is shown twice in a boot and no update twice in a day,
\* however often the desktop refuses (agent.py, decide and main).
THEOREM ToldOnce == Spec => []OncePerEvent
<1>1. IInv => OncePerEvent
  BY DEF IInv, OnceInv, OncePerEvent
<1> QED
  BY <1>1, Kept, PTL

\* If the agent lives, an event that agent.json counts as said between two runs
\* was shown, whatever was refused or timed out (test_agent.py:56).
THEOREM NothingLost == Spec => []SaidWasTold
<1>1. IInv => SaidWasTold
  BY DEF IInv, ToldInv, SaidWasTold
<1> QED
  BY <1>1, Kept, PTL
=============================================================================
