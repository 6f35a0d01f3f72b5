-------------------------- MODULE EditPagesProofs --------------------------
(* Of the pages that edit a file, for every set of pages, names, clients   *)
(* and bounds: the controls come back, a save changes the entry it was     *)
(* aimed at and no other, and what it installed stays.                     *)
EXTENDS EditPages, FiniteSetTheorems, NaturalsInduction, WellFoundedInduction, TLAPS

\* What the steps rely on of the two lists.
Shape ==
    /\ \E Records : saves \in Seq(Records)
    /\ \E Phases : phase \in Seq(Phases)
    /\ Len(saves) = Len(phase)

\* A user who waits has one save under way, of the reading on the page, and only
\* that save keeps the controls off and "saving" on the page.
Patient ==
    ~hasty /\ page # "ups" =>
        /\ busy \/ note = "saving" => InFlight # {}
        /\ \A s, t \in InFlight : s = t
        /\ \A s \in InFlight : saves[s].generation = generation

ControlInv == page \in Pages /\ Shape /\ Patient

\* The only page whose worker thread dies of an exception is the UPS page.
LEMMA OthersCatch ==
    ASSUME page \in Pages, plan.writer = "raises", page # "ups" PROVE Caught
<1>1. page \in {"remote_access", "sharing", "ssh_keys", "hosts_env", "modules", "smb", "irqbalance",
                "security_keys", "kerberos", "smartcard", "kvm"}
  BY PageAssumption DEF PlanOf
<1>2. /\ Plain.writer = "helper" /\ Remote.writer = "helper" /\ Shares.writer = "helper"
      /\ Ssh.writer = "own" /\ Hosts.writer = "helper" /\ Black.writer = "helper"
      /\ Samba.writer = "helper" /\ Keys.writer = "helper" /\ Krb.writer = "helper"
      /\ Card.writer = "helper" /\ Kvm.writer = "helper" /\ Irq.caught
  BY SMT DEF Plain, Remote, Shares, Ssh, Hosts, Black, Samba, Irq, Keys, Krb, Card, Kvm
<1> QED BY <1>1, <1>2 DEF plan, PlanOf, Caught

\* A step that changes the phase of one save and nothing that Patient tells of the
\* others.
LEMMA PhaseOfOne ==
    ASSUME Shape, NEW s \in Ids, NEW p, phase' = [phase EXCEPT ![s] = p], saves' = saves
    PROVE  /\ Shape'
           /\ Ids' = Ids
           /\ phase'[s] = p
           /\ \A t \in Ids \ {s} : phase'[t] = phase[t]
<1>1. PICK Records : saves \in Seq(Records)
  BY DEF Shape
<1>2. PICK Phases : phase \in Seq(Phases)
  BY DEF Shape
<1>3. s \in DOMAIN phase /\ Ids = DOMAIN phase
  BY <1>1, <1>2 DEF Ids, Shape
<1>4. phase' \in Seq(Phases \cup {p}) /\ Len(phase') = Len(phase)
  BY <1>2, <1>3
<1> QED BY <1>1, <1>3, <1>4 DEF Shape, Ids

\* A save that begins, or is refused, keeps the controls as Patient says.
LEMMA ControlSave ==
    ASSUME ControlInv, NEW refused, NEW r, Save(refused, r), r.generation = generation
    PROVE  ControlInv'
<1>1. page' = page /\ generation' = generation /\ hasty' = (hasty \/ InFlight # {}) /\ ~busy
  BY DEF Save
<1>2. CASE UNCHANGED <<saves, phase, busy>> /\ note' = "failed"
  <2>1. InFlight' = InFlight
    BY <1>2 DEF Ids, InFlight
  <2> QED BY <1>1, <1>2, <2>1 DEF ControlInv, Shape, Patient
<1>3. CASE saves' = Append(saves, r) /\ phase' = Append(phase, "asking")
  <2> DEFINE new == Len(saves) + 1
  <2>1. PICK Records : saves \in Seq(Records)
    BY DEF ControlInv, Shape
  <2>2. PICK Phases : phase \in Seq(Phases)
    BY DEF ControlInv, Shape
  <2>3. saves' \in Seq(Records \cup {r}) /\ phase' \in Seq(Phases \cup {"asking"})
    BY <1>3, <2>1, <2>2
  <2>4. Len(saves') = new /\ Len(phase') = Len(phase) + 1
    BY <1>3, <2>1, <2>2
  <2>5. Shape'
    BY <2>3, <2>4 DEF Shape, ControlInv
  <2>6. /\ Ids = 1 .. Len(saves) /\ Ids' = 1 .. new /\ Len(saves) \in Nat
        /\ saves'[new] = r /\ phase'[new] = "asking"
        /\ \A t \in Ids : saves'[t] = saves[t] /\ phase'[t] = phase[t]
    BY <1>3, <2>1, <2>2, <2>3, <2>4 DEF Ids, Shape, ControlInv
  <2>7. InFlight' = InFlight \cup {new}
    BY <2>6 DEF InFlight
  <2> QED BY <1>1, <2>5, <2>6, <2>7 DEF ControlInv, Patient, InFlight
<1> QED BY <1>2, <1>3 DEF Save

\* Every action of the user is a save of the reading on the page.
UserActs ==
    \/ \E n \in Names, c \in Parts : RemoveName(n, c) \/ \E v \in Values : Add(n, c, v)
    \/ \E i \in DOMAIN Drawn :
          \/ \E old \in Drawn[i].specs, v \in Values : SetRow(i, old, v)
          \/ \E c \in {g.of : g \in Drawn[i].specs} : RemoveRow(i, c)

LEMMA ActsSave ==
    ASSUME UserActs
    PROVE  \E refused, r : Save(refused, r) /\ r.generation = generation
<1>1. \A text, n, c, v, aimed, fresh : Change(text, n, c, v, aimed, fresh).generation = generation
  BY DEF Change
<1> HIDE DEF Change
<1>2. ASSUME NEW n \in Names, NEW c \in Parts, RemoveName(n, c)
      PROVE  \E refused, r : Save(refused, r) /\ r.generation = generation
  <2> DEFINE refused == At(TextBefore, n) = {}
             r == Change(WithoutName(TextBefore, n), n, c, Gone,
                         plan.remove = "first" => Cardinality(At(TextBefore, n)) = 1, AsRead)
  <2>1. Save(refused, r)
    BY <1>2 DEF RemoveName
  <2> QED BY <1>1, <2>1
<1>3. ASSUME NEW n \in Names, NEW c \in Parts, NEW v \in Values, Add(n, c, v)
      PROVE  \E refused, r : Save(refused, r) /\ r.generation = generation
  <2> DEFINE refused == \/ plan.add = "present" /\ At(TextBefore, n) = {}
                        \/ plan.add = "sole" /\ Cardinality(At(TextBefore, n)) > 1
             r == Change(Added(TextBefore, n, c, v), n, c, v, TRUE, AsRead)
  <2>1. Save(refused, r)
    BY <1>3 DEF Add
  <2> QED BY <1>1, <2>1
<1>4. ASSUME NEW i \in DOMAIN Drawn, NEW old \in Drawn[i].specs, NEW v \in Values, SetRow(i, old, v)
      PROVE  \E refused, r : Save(refused, r) /\ r.generation = generation
  <2> DEFINE r == Change(Put(TextBefore, i, Line(Drawn[i].name, (Drawn[i].specs \ {old}) \cup {Gives(old.of, v)})),
                         Drawn[i].name, old.of, v, Sole(TextBefore, Drawn[i].name, i),
                         AsRead /\ Drawn[i] = TextBefore[i])
  <2>1. Save(FALSE, r)
    BY <1>4 DEF SetRow
  <2>2. r.generation = generation
    BY <1>1
  <2> HIDE DEF r
  <2> QED BY <2>1, <2>2
<1>5. ASSUME NEW i \in DOMAIN Drawn, NEW c, RemoveRow(i, c)
      PROVE  \E refused, r : Save(refused, r) /\ r.generation = generation
  <2> DEFINE r == Change(Without(TextBefore, i, c), Drawn[i].name, c, Gone,
                         Sole(TextBefore, Drawn[i].name, i), AsRead /\ Drawn[i] = TextBefore[i])
  <2>1. Save(FALSE, r)
    BY <1>5 DEF RemoveRow
  <2>2. r.generation = generation
    BY <1>1
  <2> HIDE DEF r
  <2> QED BY <2>1, <2>2
<1> QED BY <1>2, <1>3, <1>4, <1>5 DEF UserActs

LEMMA ControlAlways == Spec => []ControlInv
<1>1. Init => ControlInv
  <2> SUFFICES ASSUME Init PROVE ControlInv
    OBVIOUS
  <2>1. saves \in Seq({}) /\ phase \in Seq({}) /\ Len(saves) = 0 /\ Len(phase) = 0
        /\ InFlight = {}
    BY DEF Init, Ids, InFlight
  <2> QED BY <2>1 DEF Init, ControlInv, Shape, Patient
<1>2. ControlInv /\ [Next]_vars => ControlInv'
  <2> SUFFICES ASSUME ControlInv, [Next]_vars PROVE ControlInv'
    OBVIOUS
  <2> USE DEF ControlInv
  <2>1. CASE Refresh
    <3>1. /\ saves' = saves /\ phase' = phase /\ page' = page /\ busy' = busy /\ note' = note
          /\ InFlight' = InFlight /\ hasty' = (hasty \/ InFlight # {})
      BY <2>1 DEF Refresh, Ids, InFlight
    <3> QED BY <3>1 DEF Shape, Patient
  <2>2. CASE UserActs
    BY <2>2, ActsSave, ControlSave
  <2>3. ASSUME NEW s \in Ids, NEW p,
               phase' = [phase EXCEPT ![s] = p], (p = "over") <=> (phase[s] = "over"),
               UNCHANGED <<page, generation, busy, note, saves, hasty>>
        PROVE  ControlInv'
    <3>1. Shape' /\ Ids' = Ids /\ phase'[s] = p /\ \A t \in Ids \ {s} : phase'[t] = phase[t]
      BY <2>3, PhaseOfOne
    <3>2. InFlight' = InFlight
      BY <2>3, <3>1 DEF InFlight
    <3> QED BY <2>3, <3>1, <3>2 DEF Patient
  <2>4. ASSUME NEW s \in Ids, Install(s) \/ EndWithout(s) \/ TimeOut(s)
        PROVE  ControlInv'
    <3>1. CASE Install(s)
      BY <2>3, <3>1 DEF Install
    <3>2. CASE EndWithout(s)
      BY <2>3, <3>2 DEF EndWithout
    <3>3. CASE TimeOut(s)
      BY <2>3, <3>3 DEF TimeOut
    <3> QED BY <2>4, <3>1, <3>2, <3>3
  <2>5. ASSUME NEW s \in Ids, Raise(s)
        PROVE  ControlInv'
    <3>1. CASE page # "ups"
      <4>1. phase' = [phase EXCEPT ![s] = "failed"] /\ phase[s] = "asking"
        BY <2>5, <3>1, OthersCatch DEF Raise
      <4> QED BY <2>3, <2>5, <4>1 DEF Raise
    <3>2. CASE page = "ups"
      <4>1. Shape' /\ page' = page
        BY <2>5, PhaseOfOne DEF Raise
      <4> QED BY <3>2, <4>1 DEF Patient
    <3> QED BY <3>1, <3>2
  <2>6. ASSUME NEW s \in Ids, Answer(s)
        PROVE  ControlInv'
    <3>1. /\ phase[s] \in {"installed", "failed"} /\ phase' = [phase EXCEPT ![s] = "over"]
          /\ saves' = saves /\ page' = page /\ hasty' = hasty
      BY <2>6 DEF Answer
    <3>2. Shape' /\ Ids' = Ids /\ phase'[s] = "over" /\ \A t \in Ids \ {s} : phase'[t] = phase[t]
      BY <3>1, PhaseOfOne
    <3>3. InFlight' = InFlight \ {s} /\ s \in InFlight
      BY <3>1, <3>2 DEF InFlight
    <3>4. ASSUME ~hasty, page # "ups"
          PROVE  InFlight' = {} /\ ~busy' /\ note' # "saving"
      <4>1. InFlight' = {} /\ saves[s].generation = generation
        BY <3>3, <3>4 DEF Patient
      <4>2. busy' = FALSE /\ note' = IF phase[s] = "installed" THEN "saved" ELSE "failed"
        BY <2>6, <4>1 DEF Answer
      <4> QED BY <4>1, <4>2
    <3> QED BY <3>1, <3>2, <3>4 DEF Patient
  <2>7. CASE EditFile
    BY <2>7 DEF EditFile, Shape, Patient, InFlight, Ids
  <2>8. CASE UNCHANGED vars
    BY <2>8 DEF vars, Shape, Patient, InFlight, Ids
  <2> QED BY <2>1, <2>2, <2>4, <2>5, <2>6, <2>7, <2>8 DEF Next, UserActs
<1> QED BY <1>1, <1>2, PTL DEF Spec

\* With all saves over, the controls of every page but one are back and it does not
\* go on saying that it saves, for a user who waits for each answer
\* (irqbalance.py:774-798, kerberos.py:471-484 and their kin).
THEOREM ControlsReturn == Spec => []ControlsComeBack
<1>1. ControlInv => ControlsComeBack
  BY DEF ControlInv, Patient, ControlsComeBack
<1> QED BY <1>1, ControlAlways, PTL
-----------------------------------------------------------------------------
(* What the operators on a text return, for a text of any length           *)

\* Induction over the naturals, by the least number that is missing.
LEMMA LeastNumber ==
    ASSUME NEW T, T \subseteq Nat, T # {}
    PROVE  \E least \in T : \A t \in T : least <= t
<1>1. IsWellFoundedOn(OpToRel(<, Nat), Nat)
  BY NatLessThanWellFounded
<1>2. PICK least \in T : \A t \in T : ~(<<t, least>> \in OpToRel(<, Nat))
  BY <1>1, WFMin
<1>3. \A t \in T : ~(t < least)
  BY <1>2 DEF OpToRel
<1> QED BY <1>3

LEMMA UpTo ==
    ASSUME NEW N \in Nat, NEW G, 0 \in G, \A i \in 0..(N - 1) : i \in G => i + 1 \in G
    PROVE  0..N \subseteq G
<1> SUFFICES ASSUME 0..N \ G # {} PROVE FALSE
  OBVIOUS
<1>0. 0..N \ G \subseteq Nat
  OBVIOUS
<1>1. PICK least \in 0..N \ G : \A t \in 0..N \ G : least <= t
  BY <1>0, LeastNumber
<1>2. least # 0 /\ least - 1 \in 0..(N - 1)
  BY <1>1
<1>3. least - 1 \in G
  BY <1>1, <1>2
<1>4. (least - 1) + 1 \in G
  BY <1>2, <1>3
<1> QED BY <1>1, <1>4

\* The first line of a name is there when there is a line of that name.
LEMMA FirstIsFirst ==
    ASSUME NEW L, NEW text \in Seq(L), NEW n, At(text, n) # {}
    PROVE  First(text, n) \in At(text, n) /\ \A j \in At(text, n) : First(text, n) <= j
<1>1. At(text, n) \subseteq Nat
  BY DEF At
<1>2. \E i \in At(text, n) : \A j \in At(text, n) : i <= j
  BY <1>1, LeastNumber
<1> QED BY <1>2 DEF First

\* The lines picked from the first i lines.
PickedUpTo(f, text, rows, i) ==
    f = [j \in 0..i |-> IF j = 0 THEN <<>>
                        ELSE IF j \in rows THEN Append(f[j - 1], text[j]) ELSE f[j - 1]]

LEMMA PickedIs ==
    ASSUME NEW L, NEW text \in Seq(L), NEW rows
    PROVE  \E f : PickedUpTo(f, text, rows, Len(text)) /\ Picked(text, rows) = f[Len(text)]
<1> DEFINE N == Len(text)
           G == {i \in 0..N : \E f : PickedUpTo(f, text, rows, i)}
<1>1. N \in Nat
  OBVIOUS
<1>2. 0 \in G
  <2>1. PickedUpTo([j \in 0..0 |-> <<>>], text, rows, 0)
    BY DEF PickedUpTo
  <2> QED BY <1>1, <2>1
<1>3. ASSUME NEW i \in 0..(N - 1), i \in G PROVE i + 1 \in G
  <2>1. PICK f : PickedUpTo(f, text, rows, i)
    BY <1>3
  <2> DEFINE g == [j \in 0..(i + 1) |->
                     IF j = i + 1 THEN (IF j \in rows THEN Append(f[i], text[j]) ELSE f[i]) ELSE f[j]]
  <2>0. i \in Nat /\ i + 1 \in 0..(i + 1) /\ 0..i \subseteq 0..(i + 1) /\ i + 1 \notin 0..i
    BY <1>1
  <2>2. /\ \A j \in 0..i : g[j] = f[j]
        /\ g[i + 1] = IF i + 1 \in rows THEN Append(f[i], text[i + 1]) ELSE f[i]
    BY <2>0
  <2>3. \A j \in 0..(i + 1) : g[j] = IF j = 0 THEN <<>>
                                 ELSE IF j \in rows THEN Append(g[j - 1], text[j]) ELSE g[j - 1]
    <3> HIDE DEF g
    <3>1. \A j \in 0..i : f[j] = IF j = 0 THEN <<>>
                                ELSE IF j \in rows THEN Append(f[j - 1], text[j]) ELSE f[j - 1]
      BY <2>1 DEF PickedUpTo
    <3>2. ASSUME NEW j \in 0..i
          PROVE  g[j] = IF j = 0 THEN <<>>
                        ELSE IF j \in rows THEN Append(g[j - 1], text[j]) ELSE g[j - 1]
      <4>1. j # 0 => j - 1 \in 0..i
        BY <2>0
      <4>2. g[j] = f[j] /\ (j # 0 => g[j - 1] = f[j - 1])
        BY <2>2, <4>1
      <4> QED BY <3>1, <4>2
    <3>3. g[i + 1] = IF i + 1 = 0 THEN <<>>
                     ELSE IF i + 1 \in rows THEN Append(g[(i + 1) - 1], text[i + 1]) ELSE g[(i + 1) - 1]
      <4>1. i + 1 # 0 /\ (i + 1) - 1 = i /\ i \in 0..i
        BY <2>0
      <4> QED BY <2>2, <4>1
    <3>4. \A j \in 0..(i + 1) : j \in 0..i \/ j = i + 1
      BY <2>0
    <3> QED BY <3>2, <3>3, <3>4
  <2>4. g = [j \in 0..(i + 1) |-> g[j]]
    OBVIOUS
  <2>5. PickedUpTo(g, text, rows, i + 1)
    <3> HIDE DEF g
    <3> QED BY <2>3, <2>4 DEF PickedUpTo
  <2>6. i + 1 \in 0..N
    BY <1>1
  <2> QED BY <2>5, <2>6
<1>4. N \in G
  <2> HIDE DEF G
  <2>1. 0..N \subseteq G
    BY <1>1, <1>2, <1>3, UpTo
  <2> QED BY <1>1, <2>1
<1>5. Picked(text, rows) = (CHOOSE f : PickedUpTo(f, text, rows, N))[N]
  BY DEF Picked, PickedUpTo
<1> QED BY <1>4, <1>5

LinesAt(text, rows) == {text[i] : i \in rows}

\* Of the first i lines: of a name none of whose lines is left out the picked ones
\* are the same lines, as many, and there is none of a name all of whose lines are.
SameUpTo(new, text, rows, n, i) ==
    LET seen == At(text, n) \cap 1..i IN
    /\ At(text, n) \subseteq rows =>
          /\ LinesAt(new, At(new, n)) = LinesAt(text, seen)
          /\ IsFiniteSet(seen) /\ IsFiniteSet(At(new, n))
          /\ Cardinality(At(new, n)) = Cardinality(seen)
    /\ At(text, n) \cap rows = {} => At(new, n) = {}

LEMMA PickedStep ==
    ASSUME NEW L, NEW text \in Seq(L), NEW rows, NEW n, NEW new \in Seq(L),
           NEW i \in 0..(Len(text) - 1), SameUpTo(new, text, rows, n, i)
    PROVE  LET next == IF i + 1 \in rows THEN Append(new, text[i + 1]) ELSE new IN
           next \in Seq(L) /\ SameUpTo(next, text, rows, n, i + 1)
<1> DEFINE next == IF i + 1 \in rows THEN Append(new, text[i + 1]) ELSE new
           seen == At(text, n) \cap 1..i
           seen1 == At(text, n) \cap 1..(i + 1)
<1>1. /\ i \in Nat /\ i + 1 \in DOMAIN text /\ text[i + 1] \in L /\ Len(text) \in Nat
      /\ DOMAIN text = 1..Len(text)
  OBVIOUS
<1>2. seen1 = IF text[i + 1].name = n THEN seen \cup {i + 1} ELSE seen
  BY <1>1 DEF At
<1>3. i + 1 \notin seen
  BY <1>1
<1>4. CASE i + 1 \notin rows
  <2>1. At(text, n) \subseteq rows => seen1 = seen
    BY <1>1, <1>2, <1>4 DEF At
  <2> QED BY <1>4, <2>1 DEF SameUpTo
<1>5. CASE i + 1 \in rows
  <2>0. next = Append(new, text[i + 1])
    BY <1>5
  <2> HIDE DEF next
  <2>1. /\ next \in Seq(L)
        /\ At(next, n) = At(new, n) \cup (IF text[i + 1].name = n THEN {Len(new) + 1} ELSE {})
        /\ next[Len(new) + 1] = text[i + 1]
        /\ \A j \in At(new, n) : next[j] = new[j]
    <3>1. PICK line \in L : line = text[i + 1]
      BY <1>1
    <3>2. next = Append(new, line)
      BY <2>0, <3>1
    <3>3. /\ next \in Seq(L)
          /\ At(next, n) = At(new, n) \cup (IF line.name = n THEN {Len(new) + 1} ELSE {})
          /\ next[Len(new) + 1] = line
          /\ \A j \in At(new, n) : next[j] = new[j]
      <4>1. /\ next \in Seq(L) /\ DOMAIN next = 1..(Len(new) + 1) /\ DOMAIN new = 1..Len(new)
            /\ Len(new) \in Nat
            /\ next[Len(new) + 1] = line /\ \A j \in 1..Len(new) : next[j] = new[j]
        BY <3>2
      <4> QED BY <4>1 DEF At
    <3> QED BY <3>1, <3>3
  <2>2. CASE text[i + 1].name # n
    <3>1. At(next, n) = At(new, n) /\ seen1 = seen
      BY <1>2, <2>1, <2>2
    <3>2. LinesAt(next, At(next, n)) = LinesAt(new, At(new, n))
      BY <2>1, <3>1 DEF LinesAt
    <3>3. SameUpTo(next, text, rows, n, i + 1)
      BY <3>1, <3>2 DEF SameUpTo
    <3> QED BY <2>1, <3>3 DEF next
  <2>3. CASE text[i + 1].name = n
    <3>1. i + 1 \in At(text, n)
      BY <1>1, <2>3 DEF At
    <3>2. At(next, n) = At(new, n) \cup {Len(new) + 1} /\ seen1 = seen \cup {i + 1}
      BY <1>2, <2>1, <2>3
    <3>3. Len(new) + 1 \notin At(new, n)
      BY DEF At
    <3>4. ASSUME At(text, n) \subseteq rows
          PROVE  LinesAt(next, At(next, n)) = LinesAt(text, seen1)
      <4>1. LinesAt(next, At(next, n)) = LinesAt(new, At(new, n)) \cup {text[i + 1]}
        <5>1. LinesAt(next, At(next, n)) = LinesAt(next, At(new, n)) \cup {next[Len(new) + 1]}
          BY <3>2 DEF LinesAt
        <5>2. LinesAt(next, At(new, n)) = LinesAt(new, At(new, n))
          BY <2>1 DEF LinesAt
        <5> QED BY <2>1, <5>1, <5>2
      <4>2. LinesAt(text, seen1) = LinesAt(text, seen) \cup {text[i + 1]}
        <5> HIDE DEF seen, seen1
        <5> QED BY <3>2 DEF LinesAt
      <4> QED BY <3>4, <4>1, <4>2 DEF SameUpTo
    <3>5. ASSUME At(text, n) \subseteq rows
          PROVE  /\ IsFiniteSet(seen1) /\ IsFiniteSet(At(next, n))
                 /\ Cardinality(At(next, n)) = Cardinality(seen1)
      <4>1. /\ IsFiniteSet(seen) /\ IsFiniteSet(At(new, n))
            /\ Cardinality(At(new, n)) = Cardinality(seen)
        BY <3>5 DEF SameUpTo
      <4>2. ASSUME NEW S, NEW x, IsFiniteSet(S), x \notin S
            PROVE  IsFiniteSet(S \cup {x}) /\ Cardinality(S \cup {x}) = Cardinality(S) + 1
        BY ONLY <4>2, FS_AddElement
      <4> HIDE DEF seen, seen1
      <4>3. IsFiniteSet(seen1) /\ Cardinality(seen1) = Cardinality(seen) + 1
        BY <1>3, <3>2, <4>1, <4>2
      <4>4. IsFiniteSet(At(next, n)) /\ Cardinality(At(next, n)) = Cardinality(At(new, n)) + 1
        BY <3>2, <3>3, <4>1, <4>2
      <4> QED BY <4>1, <4>3, <4>4
    <3>6. At(text, n) \cap rows # {}
      BY <1>5, <3>1
    <3> QED BY <2>1, <3>4, <3>5, <3>6 DEF SameUpTo, next
  <2> QED BY <2>2, <2>3
<1> QED BY <1>4, <1>5

\* The same lines of a name give the same.
LEMMA SameLines ==
    ASSUME NEW text, NEW other, NEW n, NEW c, LinesAt(other, At(other, n)) = LinesAt(text, At(text, n))
    PROVE  Given(other, n, c) = Given(text, n, c)
<1>1. ASSUME NEW t, NEW v PROVE (\E i \in At(t, n) : Gives(c, v) \in t[i].specs)
                                   <=> \E line \in LinesAt(t, At(t, n)) : Gives(c, v) \in line.specs
  BY DEF LinesAt
<1> QED BY <1>1 DEF Given

LEMMA PickedLines ==
    ASSUME NEW L, NEW text \in Seq(L), NEW rows, NEW n, NEW c
    PROVE  /\ Picked(text, rows) \in Seq(L)
           /\ At(text, n) \subseteq rows =>
                 /\ Given(Picked(text, rows), n, c) = Given(text, n, c)
                 /\ Cardinality(At(Picked(text, rows), n)) = Cardinality(At(text, n))
           /\ At(text, n) \cap rows = {} => At(Picked(text, rows), n) = {}
<1>1. PICK f : PickedUpTo(f, text, rows, Len(text)) /\ Picked(text, rows) = f[Len(text)]
  BY PickedIs
<1> DEFINE N == Len(text)
           G == {i \in 0..N : f[i] \in Seq(L) /\ SameUpTo(f[i], text, rows, n, i)}
<1>2. N \in Nat /\ DOMAIN text = 1..N
  OBVIOUS
<1>3. 0 \in G
  <2>1. f[0] = <<>>
    BY <1>1, <1>2 DEF PickedUpTo
  <2>2. <<>> \in Seq(L) /\ At(<<>>, n) = {} /\ At(text, n) \cap 1..0 = {}
    BY DEF At
  <2>3. IsFiniteSet({})
    BY FS_EmptySet
  <2>4. SameUpTo(<<>>, text, rows, n, 0)
    BY <2>2, <2>3 DEF SameUpTo, LinesAt
  <2>5. 0 \in 0..N
    BY <1>2
  <2>6. f[0] \in Seq(L)
    BY <2>1, <2>2, Zenon
  <2>7. SameUpTo(f[0], text, rows, n, 0)
    BY <2>1, <2>4, Zenon
  <2> QED BY <2>5, <2>6, <2>7, Zenon
<1>4. ASSUME NEW i \in 0..(N - 1), i \in G PROVE i + 1 \in G
  <2>1. f[i + 1] = IF i + 1 \in rows THEN Append(f[i], text[i + 1]) ELSE f[i]
    <3>1. i + 1 \in 0..N /\ i + 1 # 0 /\ (i + 1) - 1 = i
      BY <1>2
    <3> QED BY <1>1, <3>1 DEF PickedUpTo
  <2>2. f[i] \in Seq(L) /\ SameUpTo(f[i], text, rows, n, i)
    BY <1>4
  <2>3. f[i + 1] \in Seq(L) /\ SameUpTo(f[i + 1], text, rows, n, i + 1)
    BY <2>1, <2>2, PickedStep
  <2> QED BY <1>2, <2>3
<1>5. N \in G
  <2> HIDE DEF G
  <2>1. 0..N \subseteq G
    BY <1>2, <1>3, <1>4, UpTo
  <2> QED BY <1>2, <2>1
<1>6. Picked(text, rows) \in Seq(L) /\ SameUpTo(Picked(text, rows), text, rows, n, N)
  BY <1>1, <1>5
<1>7. At(text, n) \cap 1..N = At(text, n)
  BY <1>2 DEF At
<1> DEFINE new == Picked(text, rows)
<1> HIDE DEF new
<1>8. SameUpTo(new, text, rows, n, N)
  BY <1>6 DEF new
<1>9. At(text, n) \subseteq rows =>
         /\ LinesAt(new, At(new, n)) = LinesAt(text, At(text, n))
         /\ Cardinality(At(new, n)) = Cardinality(At(text, n))
  BY <1>7, <1>8 DEF SameUpTo
<1>10. At(text, n) \cap rows = {} => At(new, n) = {}
  BY <1>8 DEF SameUpTo
<1>11. At(text, n) \subseteq rows => Given(new, n, c) = Given(text, n, c)
  BY <1>9, SameLines
<1> QED BY <1>6, <1>9, <1>10, <1>11 DEF new
-----------------------------------------------------------------------------
(* The text of a save                                                      *)

AllNames == Names \cup {"", "#", "?"}
Lines == [name : AllNames, specs : SUBSET [of : Parts, value : Values]]

LEMMA LineType ==
    ASSUME NEW n \in AllNames, NEW specs \in SUBSET [of : Parts, value : Values]
    PROVE  Line(n, specs) \in Lines /\ Line(n, specs).name = n /\ Line(n, specs).specs = specs
BY DEF Line, Lines

LEMMA GivesType ==
    ASSUME NEW c \in Parts, NEW v \in Values
    PROVE  Gives(c, v) \in [of : Parts, value : Values] /\ Gives(c, v).of = c /\ Gives(c, v).value = v
BY DEF Gives

LEMMA BlankType == Blank \in Lines /\ Blank.name = "" /\ Blank.specs = {}
<1>1. "" \in AllNames /\ {} \in SUBSET [of : Parts, value : Values]
  BY DEF AllNames
<1> QED BY <1>1, LineType DEF Blank

LEMMA PlainNames == \A n \in Names : n # "" /\ n # "#"
BY NameAssumption

\* What a text says of the others is what another says: of every other name, of the
\* other clients of the same, and no comment less.
OthersSame(new, text, n, c) ==
    /\ \A m \in Names, d \in Parts : <<m, d>> # <<n, c>> => Given(new, m, d) = Given(text, m, d)
    /\ Cardinality(At(new, "#")) = Cardinality(At(text, "#"))

\* Two lines give a client the same.
SameFor(d, line, other) == \A w \in Values : Gives(d, w) \in line.specs <=> Gives(d, w) \in other.specs

LEMMA PutType ==
    ASSUME NEW text \in Seq(Lines), NEW i \in DOMAIN text, NEW line \in Lines
    PROVE  Put(text, i, line) \in Seq(Lines)
BY DEF Put

\* A line of the name, or an empty one, in the place of a line of the name.
LEMMA LinePut ==
    ASSUME NEW text \in Seq(Lines), NEW n \in Names, NEW i \in At(text, n), NEW line \in Lines,
           line.name = n \/ (line.name = "" /\ line.specs = {} /\ At(text, n) = {i}),
           NEW c
    PROVE  /\ Put(text, i, line) \in Seq(Lines)
           /\ \A v \in Values : Gives(c, v) \in line.specs => v \in Given(Put(text, i, line), n, c)
           /\ At(text, n) = {i} /\ (\A v \in Values : Gives(c, v) \notin line.specs) =>
                 Given(Put(text, i, line), n, c) = {}
           /\ (\A d \in Parts \ {c} : SameFor(d, line, text[i])) =>
                 OthersSame(Put(text, i, line), text, n, c)
<1> DEFINE new == Put(text, i, line)
<1>1. i \in DOMAIN text /\ text[i].name = n
  BY DEF At
<1>2. /\ new \in Seq(Lines) /\ DOMAIN new = DOMAIN text /\ new[i] = line
      /\ \A j \in DOMAIN text : j # i => new[j] = text[j]
      /\ \A m : m # text[i].name /\ m # line.name =>
             At(new, m) = At(text, m) /\ \A d : Given(new, m, d) = Given(text, m, d)
  <2>1. /\ new \in Seq(Lines) /\ DOMAIN new = DOMAIN text /\ new[i] = line
        /\ \A j \in DOMAIN text : j # i => new[j] = text[j]
    <3>1. ASSUME NEW L, text \in Seq(L), line \in L
          PROVE  /\ new \in Seq(L) /\ DOMAIN new = DOMAIN text /\ new[i] = line
                 /\ \A j \in DOMAIN text : j # i => new[j] = text[j]
      BY ONLY <1>1, <3>1 DEF Put
    <3> HIDE DEF new
    <3> QED BY <3>1
  <2> HIDE DEF new
  <2>2. ASSUME NEW m, m # text[i].name, m # line.name
        PROVE  At(new, m) = At(text, m) /\ \A d : Given(new, m, d) = Given(text, m, d)
    <3>1. At(new, m) = At(text, m) /\ i \notin At(text, m)
      BY <2>1, <2>2 DEF At
    <3>2. \A j \in At(text, m) : new[j] = text[j]
      BY <2>1, <3>1 DEF At
    <3> QED BY <3>1, <3>2 DEF Given
  <2> QED BY <2>1, <2>2
<1> HIDE DEF new
<1>3. line.name = n => At(new, n) = At(text, n)
  <2>1. ASSUME line.name = n, NEW j \in DOMAIN text PROVE new[j].name = n <=> text[j].name = n
    BY <1>1, <1>2, <2>1
  <2> QED BY <1>2, <2>1 DEF At
<1>4. line.name # n => At(new, n) = {} /\ At(text, n) = {i}
  <2>1. ASSUME line.name # n
        PROVE  At(text, n) = {i} /\ \A j \in DOMAIN text : new[j].name # n
    <3>1. At(text, n) = {i}
      BY <2>1
    <3>2. ASSUME NEW j \in DOMAIN text PROVE new[j].name # n
      <4>1. j # i => text[j].name # n
        BY <3>1 DEF At
      <4> QED BY <1>2, <2>1, <4>1
    <3> QED BY <3>1, <3>2
  <2> QED BY <1>2, <2>1 DEF At
<1>5. ASSUME NEW v \in Values, Gives(c, v) \in line.specs PROVE v \in Given(new, n, c)
  BY <1>2, <1>3, <1>5 DEF Given
<1>6. ASSUME At(text, n) = {i}, \A v \in Values : Gives(c, v) \notin line.specs
      PROVE  Given(new, n, c) = {}
  BY <1>2, <1>3, <1>4, <1>6 DEF Given
<1>7. ASSUME NEW d, SameFor(d, line, text[i]) PROVE Given(new, n, d) = Given(text, n, d)
  <2>1. CASE line.name = n
    <3>1. \A j \in At(text, n), w \in Values : Gives(d, w) \in new[j].specs <=> Gives(d, w) \in text[j].specs
      BY <1>2, <1>7 DEF SameFor, At
    <3> QED BY <1>3, <2>1, <3>1 DEF Given
  <2>2. CASE line.name # n
    BY <1>4, <1>7, <2>2 DEF Given, SameFor
  <2> QED BY <2>1, <2>2
<1>8. ASSUME \A d \in Parts \ {c} : SameFor(d, line, text[i]) PROVE OthersSame(new, text, n, c)
  <2>1. ASSUME NEW m \in Names \cup {"#"}, m # n
        PROVE  At(new, m) = At(text, m) /\ \A d : Given(new, m, d) = Given(text, m, d)
    BY <1>1, <1>2, <2>1, PlainNames
  <2>2. ASSUME NEW m \in Names, NEW d \in Parts, <<m, d>> # <<n, c>>
        PROVE  Given(new, m, d) = Given(text, m, d)
    <3>1. CASE m # n
      BY <2>1, <3>1
    <3>2. CASE m = n
      BY <1>7, <1>8, <2>2, <3>2
    <3> QED BY <3>1, <3>2
  <2>3. At(new, "#") = At(text, "#")
    BY <2>1, PlainNames
  <2> QED BY <2>2, <2>3 DEF OthersSame
<1> QED BY <1>2, <1>5, <1>6, <1>8 DEF new

\* A line more for the name.
LEMMA LineAdded ==
    ASSUME NEW text \in Seq(Lines), NEW n \in Names, NEW c \in Parts, NEW v \in Values,
           NEW new, new = Append(text, Line(n, {Gives(c, v)}))
    PROVE  new \in Seq(Lines) /\ v \in Given(new, n, c) /\ OthersSame(new, text, n, c)
<1>1. PICK line \in Lines : line = Line(n, {Gives(c, v)}) /\ line.name = n /\ line.specs = {Gives(c, v)}
  <2>1. {Gives(c, v)} \in SUBSET [of : Parts, value : Values] /\ n \in AllNames
    BY GivesType DEF AllNames
  <2> QED BY <2>1, LineType
<1>2. /\ new \in Seq(Lines) /\ DOMAIN new = 1..(Len(text) + 1) /\ DOMAIN text = 1..Len(text)
      /\ Len(text) \in Nat
      /\ new[Len(text) + 1] = line /\ \A j \in 1..Len(text) : new[j] = text[j]
  BY <1>1
<1>3. \A m : At(new, m) = At(text, m) \cup (IF m = n THEN {Len(text) + 1} ELSE {})
  BY <1>1, <1>2 DEF At
<1>4. v \in Given(new, n, c)
  BY <1>1, <1>2, <1>3 DEF Given
<1>5. ASSUME NEW m \in Names, NEW d \in Parts, <<m, d>> # <<n, c>>
      PROVE  Given(new, m, d) = Given(text, m, d)
  <2>1. \A j \in At(text, m) : new[j] = text[j]
    BY <1>2 DEF At
  <2>2. m = n => \A w \in Values : Gives(d, w) \notin new[Len(text) + 1].specs
    <3>1. m = n => d # c
      BY <1>5
    <3>2. \A w \in Values : Gives(d, w).of = d /\ Gives(c, v).of = c
      BY GivesType
    <3> QED BY <1>1, <1>2, <3>1, <3>2
  <2> QED BY <1>3, <2>1, <2>2 DEF Given
<1>6. At(new, "#") = At(text, "#")
  BY <1>3, PlainNames
<1> QED BY <1>2, <1>4, <1>5, <1>6 DEF OthersSame

\* Lines left out: all lines of the name, and no line of another.
LEMMA LinesDropped ==
    ASSUME NEW text \in Seq(Lines), NEW n \in Names, NEW c, Parts = {c}, NEW rows,
           At(text, n) \cap rows = {}, DOMAIN text \ At(text, n) \subseteq rows
    PROVE  /\ Picked(text, rows) \in Seq(Lines)
           /\ Given(Picked(text, rows), n, c) = {}
           /\ OthersSame(Picked(text, rows), text, n, c)
<1> DEFINE new == Picked(text, rows)
<1>1. new \in Seq(Lines) /\ At(new, n) = {}
  BY PickedLines
<1>2. \A m : m # n => At(text, m) \subseteq rows
  BY DEF At
<1>3. ASSUME NEW m, m # n, NEW d
      PROVE  Given(new, m, d) = Given(text, m, d) /\ Cardinality(At(new, m)) = Cardinality(At(text, m))
  <2>1. At(text, m) \subseteq rows
    BY <1>2, <1>3
  <2> QED BY <2>1, PickedLines
<1> HIDE DEF new
<1>4. Given(new, n, c) = {}
  BY <1>1 DEF Given
<1>5. OthersSame(new, text, n, c)
  BY <1>3, PlainNames DEF OthersSame
<1> QED BY <1>1, <1>4, <1>5 DEF new

LEMMA PickedType ==
    ASSUME NEW text \in Seq(Lines), NEW rows
    PROVE  Picked(text, rows) \in Seq(Lines)
BY PickedLines

LEMMA EntriesSay ==
    ASSUME NEW text \in Seq(Lines)
    PROVE  /\ Entries(text) \in Seq(Lines)
           /\ \A n \in Names, c \in Parts : Given(Entries(text), n, c) = Given(text, n, c)
<1> DEFINE rows == {i \in DOMAIN text : text[i].name \in Names}
<1>1. \A n \in Names : At(text, n) \subseteq rows
  BY DEF At
<1>2. Entries(text) = Picked(text, rows)
  BY DEF Entries
<1> HIDE DEF rows
<1>3. Picked(text, rows) \in Seq(Lines)
  BY PickedLines
<1>4. ASSUME NEW n \in Names, NEW c \in Parts PROVE Given(Picked(text, rows), n, c) = Given(text, n, c)
  <2>1. At(text, n) \subseteq rows
    BY <1>1
  <2> QED BY <2>1, PickedLines
<1> QED BY <1>2, <1>3, <1>4
-----------------------------------------------------------------------------
(* The texts the pages build                                               *)

\* What the pages' plans have in common.
LEMMA Plans ==
    ASSUME page \in Pages
    PROVE  /\ plan.base \in {"file", "held", "nothing"}
           /\ plan.base = "held" => page \in Rebuilds
           /\ plan.base = "nothing" => page \in Overwrites /\ plan.set = "none" /\ plan.remove = "none"
           /\ plan.add \in {"lookup", "merge", "append", "new", "sole", "present"}
           /\ plan.base = "held" \/ plan.remove \in {"name", "first"} => plan.add # "merge"
           /\ plan.remove \in {"none", "row", "name", "first"}
           /\ page \notin Overwrites => "saved" \in plan.reloads
           /\ page = "ups" => ~plan.checks
<1>1. page \in {"remote_access", "sharing", "ssh_keys", "hosts_env", "modules", "smb", "irqbalance",
                "security_keys", "kerberos", "smartcard", "kvm", "ups"}
  BY PageAssumption DEF PlanOf
<1>2. /\ Remote.base = "file" /\ Remote.add = "lookup" /\ Remote.remove = "row" /\ "saved" \in Remote.reloads
      /\ Shares.base = "file" /\ Shares.add = "merge" /\ Shares.remove = "row" /\ "saved" \in Shares.reloads
      /\ Ssh.base = "file" /\ Ssh.add = "append" /\ Ssh.remove = "row" /\ "saved" \in Ssh.reloads
  BY DEF Plain, Remote, Shares, Ssh
<1>3. /\ Hosts.base = "held" /\ Hosts.add = "append" /\ Hosts.remove = "row" /\ "saved" \in Hosts.reloads
      /\ Black.base = "held" /\ Black.add = "new" /\ Black.remove = "name" /\ "saved" \in Black.reloads
  BY DEF Plain, Hosts, Black
<1>4. /\ Samba.base = "nothing" /\ Samba.add = "append" /\ Samba.set = "none" /\ Samba.remove = "none"
      /\ Kvm.base = "nothing" /\ Kvm.add = "append" /\ Kvm.set = "none" /\ Kvm.remove = "none"
  BY DEF Plain, Samba, Kvm
<1>5. /\ Irq.base = "file" /\ Irq.add = "sole" /\ Irq.remove = "name" /\ "saved" \in Irq.reloads
      /\ Ups.base = "file" /\ Ups.add = "sole" /\ Ups.remove = "name" /\ "saved" \in Ups.reloads /\ ~Ups.checks
  BY DEF Plain, Irq, Ups
<1>6. /\ Keys.base = "file" /\ Keys.add = "present" /\ Keys.remove = "none" /\ "saved" \in Keys.reloads
      /\ Krb.base = "file" /\ Krb.add = "present" /\ Krb.remove = "none" /\ "saved" \in Krb.reloads
      /\ Card.base = "file" /\ Card.add = "present" /\ Card.remove = "first" /\ "saved" \in Card.reloads
  BY DEF Plain, Keys, Krb, Card
<1>7. /\ plan.base \in {"file", "held", "nothing"}
      /\ plan.base = "held" => page \in Rebuilds
      /\ plan.base = "nothing" => page \in Overwrites /\ plan.set = "none" /\ plan.remove = "none"
  BY <1>1, <1>2, <1>3, <1>4, <1>5, <1>6 DEF plan, PlanOf, Rebuilds, Overwrites
<1>8. /\ plan.add \in {"lookup", "merge", "append", "new", "sole", "present"}
      /\ plan.base = "held" \/ plan.remove \in {"name", "first"} => plan.add # "merge"
      /\ plan.remove \in {"none", "row", "name", "first"}
  BY <1>1, <1>2, <1>3, <1>4, <1>5, <1>6 DEF plan, PlanOf
<1>9. /\ page \notin Overwrites => "saved" \in plan.reloads
      /\ page = "ups" => ~plan.checks
  BY <1>1, <1>2, <1>3, <1>4, <1>5, <1>6 DEF plan, PlanOf, Overwrites
<1> QED BY <1>7, <1>8, <1>9

\* A line of one entry is all there is of it but on a page whose lines have clients.
LEMMA OnePart == plan.add # "merge" => \A c \in Parts : Parts = {c}
BY DEF Parts

\* What the form makes of a text.
LEMMA FormText ==
    ASSUME page \in Pages, NEW text \in Seq(Lines), NEW n \in Names, NEW c \in Parts, NEW v \in Values
    PROVE  /\ Added(text, n, c, v) \in Seq(Lines)
           /\ v \in Given(Added(text, n, c, v), n, c)
           /\ OthersSame(Added(text, n, c, v), text, n, c)
<1>n. n \in AllNames
  BY DEF AllNames
<1>1. CASE plan.add \in {"append", "new"} \/ At(text, n) = {}
  <2>1. Added(text, n, c, v) = Append(text, Line(n, {Gives(c, v)}))
    BY <1>1 DEF Added
  <2> QED BY <2>1, LineAdded
<1>2. CASE plan.add = "merge" /\ At(text, n) # {}
  <2>1. PICK i \in At(text, n) : i = First(text, n)
    BY <1>2, FirstIsFirst
  <2>2. i \in DOMAIN text /\ text[i] \in Lines
    BY DEF At
  <2>3. PICK specs \in SUBSET [of : Parts, value : Values] : specs = text[i].specs \cup {Gives(c, v)}
    BY <2>2, GivesType DEF Lines
  <2>4. PICK line \in Lines : line = Line(n, specs) /\ line.name = n /\ line.specs = specs
    BY <1>n, LineType
  <2>5. Added(text, n, c, v) = Put(text, i, line)
    BY <1>2, <2>1, <2>3, <2>4 DEF Added, Put
  <2>6. ASSUME NEW d \in Parts \ {c} PROVE SameFor(d, line, text[i])
    <3>1. \A w \in Values : Gives(d, w).of = d /\ Gives(c, v).of = c
      BY GivesType
    <3> QED BY <2>3, <2>4, <3>1 DEF SameFor
  <2>7. Gives(c, v) \in line.specs
    BY <2>3, <2>4
  <2>8. /\ Put(text, i, line) \in Seq(Lines)
        /\ v \in Given(Put(text, i, line), n, c)
        /\ OthersSame(Put(text, i, line), text, n, c)
    BY <2>4, <2>6, <2>7, LinePut
  <2> QED BY <2>5, <2>8
<1>3. CASE plan.add \in {"lookup", "sole", "present"} /\ At(text, n) # {}
  <2>1. PICK i \in At(text, n) : i = First(text, n)
    BY <1>3, FirstIsFirst
  <2>2. PICK specs \in SUBSET [of : Parts, value : Values] : specs = {Gives(c, v)}
    <3>1. Gives(c, v) \in [of : Parts, value : Values]
      BY GivesType
    <3> QED BY <3>1
  <2>3. PICK line \in Lines : line = Line(n, specs) /\ line.name = n /\ line.specs = specs
    BY <1>n, LineType
  <2>4. Added(text, n, c, v) = Put(text, i, line)
    BY <1>3, <2>1, <2>2, <2>3 DEF Added, Put
  <2>5. Parts \ {c} = {}
    BY <1>3, OnePart
  <2>6. Gives(c, v) \in line.specs
    BY <2>2, <2>3
  <2>7. /\ Put(text, i, line) \in Seq(Lines)
        /\ v \in Given(Put(text, i, line), n, c)
        /\ OthersSame(Put(text, i, line), text, n, c)
    BY <2>3, <2>5, <2>6, LinePut
  <2> QED BY <2>4, <2>7
<1> QED BY <1>1, <1>2, <1>3, Plans

\* A row's line with one value of a client replaced.
LEMMA SetText ==
    ASSUME NEW text \in Seq(Lines), NEW i \in DOMAIN text, NEW drawn \in Lines, drawn.name \in Names,
           NEW old \in drawn.specs, NEW v \in Values,
           NEW new, new = Put(text, i, Line(drawn.name, (drawn.specs \ {old}) \cup {Gives(old.of, v)}))
    PROVE  /\ new \in Seq(Lines) /\ old.of \in Parts
           /\ At(text, drawn.name) = {i} => v \in Given(new, drawn.name, old.of)
           /\ At(text, drawn.name) = {i} /\ drawn = text[i] => OthersSame(new, text, drawn.name, old.of)
<1> DEFINE n == drawn.name
           c == old.of
<1>1. drawn.specs \in SUBSET [of : Parts, value : Values] /\ c \in Parts /\ n \in AllNames
  BY DEF Lines
<1>2. PICK specs \in SUBSET [of : Parts, value : Values] : specs = (drawn.specs \ {old}) \cup {Gives(c, v)}
  BY <1>1, GivesType
<1>3. PICK line \in Lines : line = Line(n, specs) /\ line.name = n /\ line.specs = specs
  BY <1>1, LineType
<1>4. new = Put(text, i, line)
  BY <1>2, <1>3
<1> HIDE DEF n, c
<1>5. new \in Seq(Lines)
  BY <1>4 DEF Put
<1>6. ASSUME At(text, n) = {i} PROVE v \in Given(new, n, c)
  <2>1. i \in At(text, n) /\ Gives(c, v) \in line.specs /\ n \in Names
    BY <1>2, <1>3, <1>6 DEF n
  <2>2. \A w \in Values : Gives(c, w) \in line.specs => w \in Given(Put(text, i, line), n, c)
    BY <1>3, <2>1, LinePut
  <2> QED BY <1>4, <2>1, <2>2
<1>7. ASSUME At(text, n) = {i}, drawn = text[i] PROVE OthersSame(new, text, n, c)
  <2>1. ASSUME NEW d \in Parts \ {c} PROVE SameFor(d, line, text[i])
    <3>1. \A w \in Values : Gives(d, w).of = d /\ Gives(c, v).of = c
      BY <1>1, GivesType DEF c
    <3>2. \A w \in Values : Gives(d, w) # old /\ Gives(d, w) # Gives(c, v)
      BY <3>1 DEF c
    <3> QED BY <1>2, <1>3, <1>7, <3>2 DEF SameFor
  <2>2. i \in At(text, n) /\ n \in Names
    BY <1>7 DEF n
  <2>3. OthersSame(Put(text, i, line), text, n, c)
    BY <1>3, <2>1, <2>2, LinePut
  <2> QED BY <1>4, <2>3
<1> QED BY <1>1, <1>5, <1>6, <1>7 DEF n, c

\* The line of a row without a client.
LEMMA WithoutText ==
    ASSUME page \in Pages, Drawn \in Seq(Lines), NEW text \in Seq(Lines), NEW i \in DOMAIN text,
           Drawn[i] \in Lines, Drawn[i].name \in Names, NEW g \in Drawn[i].specs,
           NEW n, n = Drawn[i].name, NEW c, c = g.of,
           NEW new, new = Without(text, i, c)
    PROVE  /\ new \in Seq(Lines) /\ c \in Parts
           /\ At(text, n) = {i} => Given(new, n, c) = {}
           /\ At(text, n) = {i} /\ (plan.base = "held" \/ Drawn[i] = text[i]) => OthersSame(new, text, n, c)
<1> DEFINE left == {h \in Drawn[i].specs : h.of # c}
<1>1. Drawn[i].specs \in SUBSET [of : Parts, value : Values] /\ c \in Parts /\ n \in AllNames
      /\ n \in Names
  BY DEF Lines, AllNames
<1>2. CASE plan.base = "held"
  <2>1. new = Picked(text, DOMAIN text \ {i})
    BY <1>2 DEF Without
  <2>2. new \in Seq(Lines)
    BY <2>1, PickedType
  <2>3. ASSUME At(text, n) = {i} PROVE Given(new, n, c) = {} /\ OthersSame(new, text, n, c)
    <3>1. Parts = {c}
      BY <1>1, <1>2, OnePart, Plans
    <3>2. At(text, n) \cap (DOMAIN text \ {i}) = {} /\ DOMAIN text \ At(text, n) \subseteq DOMAIN text \ {i}
      BY <2>3
    <3> DEFINE rows == DOMAIN text \ {i}
    <3> HIDE DEF rows
    <3>3. Given(Picked(text, rows), n, c) = {} /\ OthersSame(Picked(text, rows), text, n, c)
      <4>1. At(text, n) \cap rows = {} /\ DOMAIN text \ At(text, n) \subseteq rows
        BY <3>2 DEF rows
      <4> QED BY <1>1, <3>1, <4>1, LinesDropped
    <3> QED BY <2>1, <3>3 DEF rows
  <2> QED BY <1>1, <2>2, <2>3
<1>3. CASE plan.base # "held"
  <2>1. PICK line \in Lines : /\ new = Put(text, i, line)
                              /\ line.name = n \/ (line.name = "" /\ line.specs = {})
                              /\ line.specs = left
    <3>1. CASE left = {}
      BY <1>3, <3>1, BlankType DEF Without
    <3>2. CASE left # {}
      <4>1. left \in SUBSET [of : Parts, value : Values]
        BY <1>1
      <4>2. new = Put(text, i, Line(n, left))
        BY <1>3, <3>2 DEF Without
      <4> HIDE DEF left
      <4>3. Line(n, left) \in Lines /\ Line(n, left).name = n /\ Line(n, left).specs = left
        BY <1>1, <4>1, LineType
      <4> QED BY <4>2, <4>3
    <3> QED BY <3>1, <3>2
  <2>2. new \in Seq(Lines)
    BY <2>1, PutType
  <2>3. \A w \in Values : Gives(c, w) \notin line.specs
    BY <1>1, <2>1, GivesType
  <2>4. ASSUME At(text, n) = {i} PROVE Given(new, n, c) = {}
    <3>1. i \in At(text, n)
      BY <2>4
    <3>2. Given(Put(text, i, line), n, c) = {}
      BY <1>1, <2>1, <2>3, <2>4, <3>1, LinePut
    <3> QED BY <2>1, <3>2
  <2>5. ASSUME At(text, n) = {i}, Drawn[i] = text[i] PROVE OthersSame(new, text, n, c)
    <3>1. i \in At(text, n)
      BY <2>5
    <3>2. ASSUME NEW d \in Parts \ {c} PROVE SameFor(d, line, text[i])
      BY <2>1, <2>5, GivesType DEF SameFor
    <3>3. OthersSame(Put(text, i, line), text, n, c)
      BY <1>1, <2>1, <2>5, <3>1, <3>2, LinePut
    <3> QED BY <2>1, <3>3
  <2> QED BY <1>1, <1>3, <2>2, <2>4, <2>5
<1> QED BY <1>2, <1>3

\* A text without a name, or without the first line of it.
LEMMA WithoutNameText ==
    ASSUME page \in Pages, plan.remove \in {"name", "first"},
           NEW text \in Seq(Lines), NEW n \in Names, At(text, n) # {}, NEW c \in Parts,
           NEW new, new = WithoutName(text, n)
    PROVE  /\ new \in Seq(Lines)
           /\ (plan.remove = "first" => Cardinality(At(text, n)) = 1) =>
                 Given(new, n, c) = {} /\ OthersSame(new, text, n, c)
<1>1. Parts = {c}
  BY OnePart, Plans
<1>2. CASE plan.remove = "first"
  <2>1. PICK i \in At(text, n) : i = First(text, n)
    BY FirstIsFirst
  <2>2. i \in DOMAIN text
    BY DEF At
  <2>3. PICK line \in Lines : line = Blank /\ line.name = "" /\ line.specs = {}
    BY BlankType
  <2>4. new = Put(text, i, line)
    BY <1>2, <2>1, <2>3 DEF WithoutName
  <2>5. new \in Seq(Lines)
    BY <2>2, <2>4 DEF Put
  <2>6. ASSUME Cardinality(At(text, n)) = 1 PROVE Given(new, n, c) = {} /\ OthersSame(new, text, n, c)
    <3>1. At(text, n) = {i}
      <4>1. IsFiniteSet(At(text, n))
        <5>1. IsFiniteSet(1..Len(text)) /\ At(text, n) \in SUBSET (1..Len(text))
          BY FS_Interval DEF At
        <5> QED BY <5>1, FS_Subset
      <4> QED BY <2>6, <4>1, FS_Singleton
    <3>2. \A v \in Values : Gives(c, v) \notin line.specs
      BY <2>3
    <3>3. \A d \in Parts \ {c} : SameFor(d, line, text[i])
      BY <1>1
    <3>4. Given(Put(text, i, line), n, c) = {} /\ OthersSame(Put(text, i, line), text, n, c)
      BY <2>3, <3>1, <3>2, <3>3, LinePut
    <3> QED BY <2>4, <3>4
  <2> QED BY <1>2, <2>5, <2>6
<1>3. CASE plan.remove = "name"
  <2> DEFINE rows == DOMAIN text \ At(text, n)
  <2>1. new = Picked(text, rows)
    BY <1>3 DEF WithoutName
  <2>2. At(text, n) \cap rows = {} /\ DOMAIN text \ At(text, n) \subseteq rows
    OBVIOUS
  <2> HIDE DEF rows
  <2>3. /\ Picked(text, rows) \in Seq(Lines)
        /\ Given(Picked(text, rows), n, c) = {}
        /\ OthersSame(Picked(text, rows), text, n, c)
    BY <1>1, <2>2, LinesDropped
  <2> QED BY <2>1, <2>3
<1> QED BY <1>2, <1>3
-----------------------------------------------------------------------------
(* What the saves of a page leave of the file                              *)

\* What a save carries, from the moment it was begun.
Carries(save) ==
    /\ save.text \in Seq(Lines) /\ save.read \in Seq(Lines)
    /\ save.name \in Names /\ save.part \in Parts /\ save.value \in 0..2
    /\ save.aimed => Holds(save.text, save.name, save.part, save.value)
    /\ save.aimed /\ save.fresh /\ page \notin Overwrites =>
          /\ \A n \in Names, c \in Parts : <<n, c>> # <<save.name, save.part>> =>
                Given(save.text, n, c) = Given(save.read, n, c)
          /\ page \notin Rebuilds => Cardinality(At(save.text, "#")) = Cardinality(At(save.read, "#"))

\* A save of the file as it is, and of its entries if they are those on the page.
Built(save) ==
    /\ Carries(save)
    /\ save.read = file /\ save.generation = generation
    /\ shown = file => save.fresh

TextInv ==
    /\ file \in Seq(Lines) /\ shown \in Seq(Lines)
    /\ due \in [Names \X Parts -> 0..3]
    /\ \A s \in Ids : Carries(saves[s])

\* What the new text is built from: the entries of the file where they are those on
\* the page, and its comments on a page that keeps them.
LEMMA Before ==
    ASSUME page \in Pages, TextInv
    PROVE  /\ TextBefore \in Seq(Lines) /\ Drawn \in Seq(Lines)
           /\ AsRead /\ page \notin Overwrites =>
                 \A n \in Names, c \in Parts : Given(TextBefore, n, c) = Given(file, n, c)
           /\ page \notin Overwrites /\ page \notin Rebuilds => TextBefore = file
           /\ shown = file /\ plan.base # "nothing" => AsRead /\ Drawn = TextBefore
           /\ plan.base = "held" => Drawn = TextBefore
<1>1. /\ plan.base = "file" => TextBefore = file /\ Drawn = shown
      /\ plan.base = "held" => TextBefore = Entries(shown) /\ Drawn = Entries(shown)
      /\ plan.base = "nothing" => TextBefore = <<>> /\ Drawn = shown
  BY DEF TextBefore, Drawn
<1>2. Entries(shown) \in Seq(Lines) /\ \A n \in Names, c \in Parts : Given(Entries(shown), n, c) = Given(shown, n, c)
  BY EntriesSay DEF TextInv
<1>3. <<>> \in Seq(Lines)
  OBVIOUS
<1>4. /\ plan.base = "file" \/ plan.base = "held" \/ plan.base = "nothing"
      /\ plan.base = "held" => page \in Rebuilds
      /\ plan.base = "nothing" => page \in Overwrites
  BY Plans
<1>5. CASE plan.base = "file"
  BY <1>1, <1>5 DEF TextInv, AsRead
<1>6. CASE plan.base = "held"
  BY <1>1, <1>2, <1>4, <1>6 DEF AsRead, TextInv
<1>7. CASE plan.base = "nothing"
  BY <1>1, <1>3, <1>4, <1>7 DEF TextInv
<1> QED BY <1>4, <1>5, <1>6, <1>7

\* A change of the text the page builds from is a change of the file.
LEMMA ChangeBuilt ==
    ASSUME page \in Pages, TextInv, NEW text \in Seq(Lines), NEW n \in Names, NEW c \in Parts,
           NEW v \in Values \cup {Gone}, NEW aimed, NEW fresh,
           aimed => Holds(text, n, c, v),
           aimed /\ fresh /\ page \notin Overwrites => AsRead /\ OthersSame(text, TextBefore, n, c),
           shown = file => fresh
    PROVE  Built(Change(text, n, c, v, aimed, fresh))
<1> DEFINE r == Change(text, n, c, v, aimed, fresh)
<1>1. /\ r.text = text /\ r.name = n /\ r.part = c /\ r.value = v /\ r.aimed = aimed /\ r.fresh = fresh
      /\ r.read = file /\ r.generation = generation
  BY DEF Change
<1> HIDE DEF r
<1>2. v \in 0..2 /\ file \in Seq(Lines)
  BY DEF Values, Gone, TextInv
<1>3. ASSUME r.aimed, r.fresh, page \notin Overwrites
      PROVE  /\ \A m \in Names, d \in Parts : <<m, d>> # <<n, c>> => Given(text, m, d) = Given(file, m, d)
             /\ page \notin Rebuilds => Cardinality(At(text, "#")) = Cardinality(At(file, "#"))
  <2>1. AsRead /\ OthersSame(text, TextBefore, n, c)
    BY <1>1, <1>3
  <2>2. \A m \in Names, d \in Parts : Given(TextBefore, m, d) = Given(file, m, d)
    BY <1>3, <2>1, Before
  <2>3. page \notin Rebuilds => TextBefore = file
    BY <1>3, Before
  <2> QED BY <2>1, <2>2, <2>3 DEF OthersSame
<1>4. Carries(r)
  BY <1>1, <1>2, <1>3 DEF Carries
<1> QED BY <1>1, <1>4 DEF Built, r

\* Every action of the user that is not refused begins a save that was built so.
LEMMA ActsBuilt ==
    ASSUME page \in Pages, TextInv, UserActs
    PROVE  \E refused, r : Save(refused, r) /\ (~refused => Built(r))
<1> DEFINE Begins == \E refused, r : Save(refused, r) /\ (~refused => Built(r))
           text == TextBefore
<1>0. text \in Seq(Lines) /\ Drawn \in Seq(Lines)
  BY Before
<1>1. ASSUME NEW n \in Names, NEW c \in Parts, NEW v \in Values, Add(n, c, v) PROVE Begins
  <2> DEFINE refused == \/ plan.add = "present" /\ At(text, n) = {}
                        \/ plan.add = "sole" /\ Cardinality(At(text, n)) > 1
             r == Change(Added(text, n, c, v), n, c, v, TRUE, AsRead)
  <2>1. Save(refused, r)
    BY <1>1 DEF Add
  <2>2. Built(r)
    <3> DEFINE new == Added(text, n, c, v)
    <3>1. new \in Seq(Lines) /\ v \in Given(new, n, c) /\ OthersSame(new, text, n, c)
      BY <1>0, FormText
    <3> HIDE DEF new, text
    <3>2. Holds(new, n, c, v)
      BY <3>1 DEF Holds, Values, Gone
    <3>3. shown = file => AsRead
      BY DEF AsRead
    <3>4. OthersSame(new, TextBefore, n, c)
      BY <3>1 DEF text
    <3>5. Built(Change(new, n, c, v, TRUE, AsRead))
      BY <3>1, <3>2, <3>3, <3>4, ChangeBuilt
    <3> QED BY <3>5 DEF new
  <2> HIDE DEF refused, r
  <2> QED BY <2>1, <2>2
<1>2. ASSUME NEW n \in Names, NEW c \in Parts, RemoveName(n, c) PROVE Begins
  <2> DEFINE aimed == plan.remove = "first" => Cardinality(At(text, n)) = 1
             r == Change(WithoutName(text, n), n, c, Gone, aimed, AsRead)
             refused == At(text, n) = {}
  <2>1. Save(refused, r) /\ plan.remove \in {"name", "first"}
    BY <1>2 DEF RemoveName
  <2>2. ASSUME ~refused PROVE Built(r)
    <3> DEFINE new == WithoutName(text, n)
    <3>1. new \in Seq(Lines) /\ (aimed => Given(new, n, c) = {} /\ OthersSame(new, text, n, c))
      BY <1>0, <2>1, <2>2, WithoutNameText
    <3> HIDE DEF new, text, aimed
    <3>2. aimed => Holds(new, n, c, Gone)
      BY <3>1 DEF Holds
    <3>3. shown = file => AsRead
      BY DEF AsRead
    <3>4. aimed => OthersSame(new, TextBefore, n, c)
      BY <3>1 DEF text
    <3>5. Built(Change(new, n, c, Gone, aimed, AsRead))
      BY <3>1, <3>2, <3>3, <3>4, ChangeBuilt
    <3> QED BY <3>5 DEF new
  <2> HIDE DEF refused, r
  <2> QED BY <2>1, <2>2
<1>3. ASSUME NEW i \in DOMAIN Drawn, NEW old \in Drawn[i].specs, NEW v \in Values, SetRow(i, old, v)
      PROVE  Begins
  <2> DEFINE n == Drawn[i].name
             c == old.of
             new == Put(text, i, Line(n, (Drawn[i].specs \ {old}) \cup {Gives(c, v)}))
             aimed == Sole(text, n, i)
             fresh == AsRead /\ Drawn[i] = text[i]
             r == Change(new, n, c, v, aimed, fresh)
  <2>1. Save(FALSE, r) /\ plan.set = "row" /\ i \in DOMAIN text /\ n \in Names
    BY <1>3 DEF SetRow, OnRow
  <2>2. Built(r)
    <3>1. Drawn[i] \in Lines
      BY <1>0
    <3>2. /\ new \in Seq(Lines) /\ c \in Parts
          /\ At(text, n) = {i} => v \in Given(new, n, c)
          /\ At(text, n) = {i} /\ Drawn[i] = text[i] => OthersSame(new, text, n, c)
      BY <1>0, <2>1, <3>1, SetText
    <3>3. aimed => Holds(new, n, c, v)
      BY <3>2 DEF Holds, Sole, Values, Gone
    <3>4. aimed /\ fresh /\ page \notin Overwrites => AsRead /\ OthersSame(new, TextBefore, n, c)
      BY <3>2 DEF Sole
    <3>5. shown = file => fresh
      BY <2>1, Before, Plans
    <3>6. n \in Names
      BY <2>1
    <3> HIDE DEF new, text, aimed, fresh, n, c
    <3>7. Built(Change(new, n, c, v, aimed, fresh))
      BY <3>2, <3>3, <3>4, <3>5, <3>6, ChangeBuilt
    <3> QED BY <3>7
  <2> HIDE DEF r
  <2> QED BY <2>1, <2>2
<1>4. ASSUME NEW i \in DOMAIN Drawn, NEW c \in {g.of : g \in Drawn[i].specs}, RemoveRow(i, c)
      PROVE  Begins
  <2> DEFINE n == Drawn[i].name
             new == Without(text, i, c)
             aimed == Sole(text, n, i)
             fresh == AsRead /\ Drawn[i] = text[i]
             r == Change(new, n, c, Gone, aimed, fresh)
  <2>1. Save(FALSE, r) /\ plan.remove = "row" /\ i \in DOMAIN text /\ n \in Names
    BY <1>4 DEF RemoveRow, OnRow
  <2>2. Built(r)
    <3>1. Drawn[i] \in Lines
      BY <1>0
    <3>2. PICK g \in Drawn[i].specs : c = g.of
      OBVIOUS
    <3>3. /\ new \in Seq(Lines) /\ c \in Parts
          /\ At(text, n) = {i} => Given(new, n, c) = {}
          /\ At(text, n) = {i} /\ (plan.base = "held" \/ Drawn[i] = text[i]) => OthersSame(new, text, n, c)
      BY <1>0, <2>1, <3>1, <3>2, WithoutText
    <3>4. aimed => Holds(new, n, c, Gone)
      BY <3>3 DEF Holds, Sole
    <3>5. aimed /\ fresh /\ page \notin Overwrites => AsRead /\ OthersSame(new, TextBefore, n, c)
      BY <3>3 DEF Sole
    <3>6. shown = file => fresh
      BY <2>1, Before, Plans
    <3>7. n \in Names
      BY <2>1
    <3> HIDE DEF new, text, aimed, fresh, n
    <3>8. Built(Change(new, n, c, Gone, aimed, fresh))
      BY <3>3, <3>4, <3>5, <3>6, <3>7, ChangeBuilt
    <3> QED BY <3>8
  <2> HIDE DEF r
  <2> QED BY <2>1, <2>2
<1> QED BY <1>1, <1>2, <1>3, <1>4 DEF UserActs

\* What a save that begins adds to the list.
Begun(r) ==
    /\ Ids' = Ids \cup {Len(saves) + 1} /\ Len(saves) + 1 \notin Ids
    /\ saves'[Len(saves) + 1] = r /\ phase'[Len(saves) + 1] = "asking"
    /\ \A s \in Ids : saves'[s] = saves[s] /\ phase'[s] = phase[s]

LEMMA SaveBegins ==
    ASSUME ControlInv, NEW refused, NEW r, Save(refused, r), ~UNCHANGED <<saves, phase>>
    PROVE  ~refused /\ Begun(r)
<1>1. saves' = Append(saves, r) /\ phase' = Append(phase, "asking") /\ ~refused
  BY DEF Save
<1>2. PICK Records : saves \in Seq(Records)
  BY DEF ControlInv, Shape
<1>3. PICK Phases : phase \in Seq(Phases)
  BY DEF ControlInv, Shape
<1>4. saves' \in Seq(Records \cup {r}) /\ phase' \in Seq(Phases \cup {"asking"}) /\ Len(saves) = Len(phase)
  BY <1>1, <1>2, <1>3 DEF ControlInv, Shape
<1>5. /\ Len(saves) \in Nat /\ Ids = 1..Len(saves) /\ Ids' = 1..(Len(saves) + 1)
      /\ saves'[Len(saves) + 1] = r /\ phase'[Len(saves) + 1] = "asking"
      /\ \A s \in Ids : saves'[s] = saves[s] /\ phase'[s] = phase[s]
  BY <1>1, <1>2, <1>3, <1>4 DEF Ids
<1>6. Ids' = Ids \cup {Len(saves) + 1} /\ Len(saves) + 1 \notin Ids
  BY <1>5
<1> QED BY <1>1, <1>5, <1>6 DEF Begun

LEMMA EnteredType == Entered \subseteq Lines
<1>1. PICK specs : specs = {Gives(c, 1) : c \in Parts}
  OBVIOUS
<1>2. specs \in SUBSET [of : Parts, value : Values]
  BY <1>1, GivesType DEF Values
<1>3. Entered = {Line(n, specs) : n \in Names}
  BY <1>1 DEF Entered
<1>4. ASSUME NEW n \in Names PROVE Line(n, specs) \in Lines
  <2>1. n \in AllNames
    BY DEF AllNames
  <2> QED BY <1>2, <2>1, LineType
<1> QED BY <1>3, <1>4

LEMMA TextInit == Init => TextInv
<1> SUFFICES ASSUME Init PROVE TextInv
  OBVIOUS
<1>1. Comment \in Lines /\ Odd \in Lines
  <2>1. {"#", "?"} \subseteq AllNames /\ {} \in SUBSET [of : Parts, value : Values]
    BY DEF AllNames
  <2> QED BY <2>1, LineType DEF Comment, Odd
<1>2. Entered \subseteq Lines
  BY EnteredType
<1>3. file \in Seq(Lines)
  <2> DEFINE One   == {<<a>> : a \in Entered}
             OneOdd == {<<a, Odd>> : a \in Entered}
             Two   == {<<Comment, a, b>> : a, b \in Entered}
  <2>1. file \in {<<>>} \cup One \cup OneOdd \cup Two
    BY DEF Init, Files
  <2>2. ASSUME NEW text \in One PROVE text \in Seq(Lines)
    <3>1. PICK a \in Entered : text = <<a>>
      OBVIOUS
    <3>2. a \in Lines
      BY <1>2
    <3> QED BY <3>1, <3>2
  <2>3. ASSUME NEW text \in OneOdd PROVE text \in Seq(Lines)
    <3>1. PICK a \in Entered : text = <<a, Odd>>
      OBVIOUS
    <3>2. a \in Lines
      BY <1>2
    <3> QED BY <1>1, <3>1, <3>2
  <2>4. ASSUME NEW text \in Two PROVE text \in Seq(Lines)
    <3>1. PICK a \in Entered, b \in Entered : text = <<Comment, a, b>>
      OBVIOUS
    <3>2. a \in Lines /\ b \in Lines
      BY <1>2
    <3> QED BY <1>1, <3>1, <3>2
  <2> HIDE DEF One, OneOdd, Two
  <2>5. <<>> \in Seq(Lines)
    OBVIOUS
  <2> QED BY <2>1, <2>2, <2>3, <2>4, <2>5, Zenon
<1>4. Ids = {}
  BY DEF Init, Ids
<1>5. due \in [Names \X Parts -> 0..3]
  BY DEF Init, Nothing, Unknown
<1> QED BY <1>3, <1>4, <1>5 DEF Init, TextInv

\* Nothing that Carries speaks of but the saves themselves.
LEMMA SameCarries ==
    ASSUME UNCHANGED page
    PROVE  /\ Parts' = Parts /\ Lines' = Lines
           /\ \A r : Carries(r)' <=> Carries(r)
<1>1. Parts' = Parts
  BY DEF Parts, plan
<1>2. Lines' = Lines
  BY <1>1 DEF Lines
<1> QED BY <1>1, <1>2 DEF Carries

LEMMA TextStep == ControlInv /\ TextInv /\ [Next]_vars => TextInv'
<1> SUFFICES ASSUME ControlInv, TextInv, [Next]_vars PROVE TextInv'
  OBVIOUS
<1>0. UNCHANGED page
  BY DEF Next, vars, Refresh, RemoveName, Add, SetRow, RemoveRow, Save, Install, EndWithout, TimeOut,
         Raise, Answer, EditFile
<1>1. /\ Parts' = Parts /\ Lines' = Lines
      /\ TextInv' <=> /\ file' \in Seq(Lines) /\ shown' \in Seq(Lines)
                      /\ due' \in [Names \X Parts -> 0..3]
                      /\ \A s \in Ids' : Carries(saves'[s])
  BY <1>0, SameCarries DEF TextInv, Carries
<1>2. ASSUME UNCHANGED saves PROVE \A s \in Ids' : Carries(saves'[s])
  BY <1>2 DEF TextInv, Ids
<1>n. Nothing \in [Names \X Parts -> 0..3]
  BY DEF Nothing, Unknown
<1>3. CASE Refresh
  BY <1>1, <1>2, <1>3 DEF Refresh, TextInv
<1>4. CASE UserActs
  <2>1. PICK refused, r : Save(refused, r) /\ (~refused => Built(r))
    BY <1>4, ActsBuilt DEF ControlInv
  <2>2. UNCHANGED <<file, due>> /\ shown' \in {shown, file}
    BY <2>1 DEF Save
  <2>3. CASE UNCHANGED <<saves, phase>>
    BY <1>1, <1>2, <2>2, <2>3 DEF TextInv
  <2>4. CASE ~UNCHANGED <<saves, phase>>
    <3>1. Begun(r) /\ Carries(r)
      BY <2>1, <2>4, SaveBegins DEF Built
    <3>2. \A s \in Ids' : Carries(saves'[s])
      BY <3>1 DEF Begun, TextInv
    <3> QED BY <1>1, <2>2, <3>2 DEF TextInv
  <2> QED BY <2>3, <2>4
<1>5. ASSUME NEW s \in Ids, Install(s) PROVE TextInv'
  <2>1. /\ UNCHANGED <<saves, shown>> /\ file' = saves[s].text
        /\ \/ due' = [due EXCEPT ![<<saves[s].name, saves[s].part>>] = saves[s].value]
           \/ due' = Nothing
    BY <1>5 DEF Install
  <2>2. Carries(saves[s])
    BY DEF TextInv
  <2>3. due' \in [Names \X Parts -> 0..3]
    <3>1. saves[s].value \in 0..3
      BY <2>2 DEF Carries
    <3> QED BY <1>n, <2>1, <3>1 DEF TextInv
  <2> QED BY <1>1, <1>2, <2>1, <2>2, <2>3 DEF TextInv, Carries
<1>6. ASSUME NEW s \in Ids, EndWithout(s) \/ TimeOut(s) \/ Raise(s) \/ Answer(s) PROVE TextInv'
  <2>1. UNCHANGED <<saves, file, due>> /\ shown' \in {shown, file}
    BY <1>6 DEF EndWithout, TimeOut, Raise, Answer
  <2> QED BY <1>1, <1>2, <2>1 DEF TextInv
<1>7. CASE EditFile
  <2>1. UNCHANGED <<saves, shown>> /\ due' = Nothing
    BY <1>7 DEF EditFile
  <2>2. file' \in Seq(Lines)
    <3>0. file \in Seq(Lines)
      BY DEF TextInv
    <3>1. ASSUME NEW line \in Entered, file' = <<line>> \o file PROVE file' \in Seq(Lines)
      <4>1. line \in Lines
        BY EnteredType
      <4> QED BY <3>0, <3>1, <4>1
    <3>2. ASSUME NEW i \in DOMAIN file, file' = RemoveAt(file, i) PROVE file' \in Seq(Lines)
      <4>1. SubSeq(file, 1, i - 1) \in Seq(Lines) /\ SubSeq(file, i + 1, Len(file)) \in Seq(Lines)
        BY <3>0
      <4> QED BY <3>2, <4>1 DEF RemoveAt
    <3>3. ASSUME NEW i \in DOMAIN file, NEW c \in Parts, NEW v \in Values \cup {Gone},
                 file[i].name \in Names,
                 NEW specs, specs = {g \in file[i].specs : g.of # c} \cup {Gives(c, w) : w \in {v} \ {Gone}},
                 file' = [file EXCEPT ![i] = Line(file[i].name, specs)]
          PROVE  file' \in Seq(Lines)
      <4>1. file[i] \in Lines
        BY <3>0
      <4>2. file[i].specs \in SUBSET [of : Parts, value : Values] /\ file[i].name \in AllNames
        BY <4>1 DEF Lines
      <4>3. {Gives(c, w) : w \in {v} \ {Gone}} \in SUBSET [of : Parts, value : Values]
        BY GivesType
      <4>4. Line(file[i].name, specs) \in Lines
        BY <3>3, <4>2, <4>3, LineType
      <4> QED BY <3>0, <3>3, <4>4
    <3>4. ASSUME \A line \in Entered : file' # <<line>> \o file, \A i \in DOMAIN file : file' # RemoveAt(file, i)
          PROVE  file' \in Seq(Lines)
      <4>1. PICK i \in DOMAIN file, c \in Parts, v \in Values \cup {Gone} :
               LET specs == {g \in file[i].specs : g.of # c} \cup {Gives(c, w) : w \in {v} \ {Gone}} IN
               file[i].name \in Names /\ file' = [file EXCEPT ![i] = Line(file[i].name, specs)]
        BY <1>7, <3>4, Zenon DEF EditFile
      <4>2. PICK specs : specs = {g \in file[i].specs : g.of # c} \cup {Gives(c, w) : w \in {v} \ {Gone}}
        OBVIOUS
      <4>3. file[i].name \in Names /\ file' = [file EXCEPT ![i] = Line(file[i].name, specs)]
        BY <4>1, <4>2
      <4> QED BY <3>3, <4>2, <4>3
    <3> QED BY <3>1, <3>2, <3>4
  <2> QED BY <1>1, <1>2, <1>n, <2>1, <2>2 DEF TextInv
<1>8. CASE UNCHANGED vars
  BY <1>1, <1>2, <1>8 DEF vars, TextInv
<1> QED BY <1>3, <1>4, <1>5, <1>6, <1>7, <1>8 DEF Next, UserActs

LEMMA TextAlways == Spec => []TextInv
BY ControlAlways, TextInit, TextStep, PTL DEF Spec

\* A save changes the entry it was aimed at and no other, the other clients of its line
\* included, and loses no comment, when nobody wrote the file since it was read and the
\* row was drawn from the line it changes: a form's line, a row's line put back with
\* the change, a line or every line of a name left out, for a file of any length, with
\* names in it twice, and any edits in a terminal (config_edit.Document,
\* sharing.py:1217-1266, hosts_env.py:269-324, ssh_keys.py:949-1008).
THEOREM OnlyTheEntryChanges == Spec => OthersKept
<1> DEFINE Kept ==
        \A s \in Ids :
          LET own == saves[s] IN
          Installs(s) /\ file = own.read /\ own.aimed /\ own.fresh /\ page \notin Overwrites =>
             /\ Holds(file', own.name, own.part, own.value)
             /\ \A n \in Names, c \in Parts : <<n, c>> # <<own.name, own.part>> =>
                   Given(file', n, c) = Given(file, n, c)
             /\ page \notin Rebuilds => Cardinality(At(file', "#")) = Cardinality(At(file, "#"))
<1>1. TextInv /\ [Next]_vars => Kept
  <2> SUFFICES ASSUME TextInv, [Next]_vars, NEW s \in Ids,
                      Installs(s), file = saves[s].read,
                      saves[s].aimed, saves[s].fresh, page \notin Overwrites
               PROVE  /\ Holds(file', saves[s].name, saves[s].part, saves[s].value)
                      /\ \A n \in Names, c \in Parts : <<n, c>> # <<saves[s].name, saves[s].part>> =>
                            Given(file', n, c) = Given(file, n, c)
                      /\ page \notin Rebuilds => Cardinality(At(file', "#")) = Cardinality(At(file, "#"))
    OBVIOUS
  <2>1. s \in running /\ s \notin running' /\ file' # file
    BY DEF Installs
  <2>2. Install(s)
    <3>1. ASSUME NEW refused, NEW r, Save(refused, r) PROVE FALSE
      BY <2>1, <3>1 DEF Save
    <3>2. ~UserActs
      BY <3>1, ActsSave
    <3>3. ASSUME NEW t \in Ids, EndWithout(t) \/ TimeOut(t) \/ Raise(t) \/ Answer(t) PROVE FALSE
      BY <2>1, <3>3 DEF EndWithout, TimeOut, Raise, Answer
    <3>4. ASSUME NEW t \in Ids, Install(t) PROVE t = s
      BY <2>1, <3>4 DEF Install
    <3>5. ~Refresh /\ ~EditFile /\ ~UNCHANGED vars
      BY <2>1 DEF Refresh, EditFile, vars
    <3> QED BY <3>2, <3>3, <3>4, <3>5 DEF Next, UserActs
  <2>3. file' = saves[s].text /\ Carries(saves[s])
    BY <2>2 DEF Install, TextInv
  <2> QED BY <2>3 DEF Carries
<1>2. TextInv /\ [Next]_vars => [Kept]_vars
  BY <1>1
<1> QED BY <1>2, TextAlways, PTL DEF Spec, OthersKept

\* Some entry is known to be what a save of the page installed.
Known == \E n \in Names, c \in Parts : due[<<n, c>>] # Unknown

\* For a user who waits: one save is under way at most, the page has read what it
\* installed before the next one begins, and that one keeps what is due.
StaysInv ==
    ~hasty /\ page \notin Overwrites =>
        /\ \A s, t \in InFlight : s = t
        /\ \A n \in Names, c \in Parts : due[<<n, c>>] # Unknown => Holds(file, n, c, due[<<n, c>>])
        /\ Known => shown = file \/ \E s \in Ids : phase[s] = "installed"
        /\ \A s \in Ids : phase[s] = "asking" /\ saves[s].aimed =>
              \A n \in Names, c \in Parts :
                 <<n, c>> # <<saves[s].name, saves[s].part>> /\ due[<<n, c>>] # Unknown =>
                    Holds(saves[s].text, n, c, due[<<n, c>>])

LEMMA StaysSave ==
    ASSUME ControlInv, TextInv, StaysInv, UserActs
    PROVE  StaysInv'
<1>0. PICK refused, r : Save(refused, r) /\ (~refused => Built(r))
  BY ActsBuilt DEF ControlInv
<1>1. /\ UNCHANGED <<page, file, due>> /\ shown' \in {shown, file}
      /\ hasty' = (hasty \/ InFlight # {})
  BY <1>0 DEF Save
<1>2. Parts' = Parts /\ Known' = Known
  BY <1>1, SameCarries DEF Known
<1>3. CASE UNCHANGED <<saves, phase>>
  <2>1. InFlight' = InFlight /\ Ids' = Ids
    BY <1>3 DEF InFlight, Ids
  <2> QED BY <1>1, <1>2, <1>3, <2>1 DEF StaysInv
<1>4. CASE ~UNCHANGED <<saves, phase>>
  <2>1. Begun(r) /\ Built(r)
    BY <1>0, <1>4, SaveBegins
  <2> DEFINE new == Len(saves) + 1
  <2>2. /\ Ids' = Ids \cup {new} /\ new \notin Ids /\ saves'[new] = r /\ phase'[new] = "asking"
        /\ \A s \in Ids : saves'[s] = saves[s] /\ phase'[s] = phase[s]
    BY <2>1 DEF Begun
  <2> HIDE DEF new
  <2>3. InFlight' = InFlight \cup {new}
    BY <2>2 DEF InFlight
  <2> SUFFICES ASSUME ~hasty', page \notin Overwrites
               PROVE  /\ \A s, t \in InFlight' : s = t
                      /\ \A n \in Names, c \in Parts : due[<<n, c>>] # Unknown => Holds(file, n, c, due[<<n, c>>])
                      /\ Known => shown' = file \/ \E s \in Ids' : phase'[s] = "installed"
                      /\ \A s \in Ids' : phase'[s] = "asking" /\ saves'[s].aimed =>
                            \A n \in Names, c \in Parts :
                               <<n, c>> # <<saves'[s].name, saves'[s].part>> /\ due[<<n, c>>] # Unknown =>
                                  Holds(saves'[s].text, n, c, due[<<n, c>>])
    BY <1>1, <1>2 DEF StaysInv
  <2>4. InFlight = {} /\ ~hasty
    BY <1>1
  <2>5. \A s \in Ids : phase[s] = "over"
    BY <2>4 DEF InFlight
  <2>6. Known => shown = file
    BY <2>4, <2>5 DEF StaysInv
  <2>7. \A n \in Names, c \in Parts : due[<<n, c>>] # Unknown => Holds(file, n, c, due[<<n, c>>])
    BY <2>4 DEF StaysInv
  <2>8. ASSUME r.aimed, NEW n \in Names, NEW c \in Parts, <<n, c>> # <<r.name, r.part>>,
               due[<<n, c>>] # Unknown
        PROVE  Holds(r.text, n, c, due[<<n, c>>])
    <3>1. Known
      BY <2>8 DEF Known
    <3>2. r.fresh /\ Carries(r) /\ r.read = file
      BY <2>1, <2>6, <3>1 DEF Built
    <3>3. Given(r.text, n, c) = Given(file, n, c)
      BY <2>8, <3>2 DEF Carries
    <3> QED BY <2>7, <2>8, <3>3 DEF Holds
  <2> QED BY <1>1, <2>2, <2>3, <2>4, <2>5, <2>6, <2>7, <2>8
<1> QED BY <1>3, <1>4

LEMMA StaysInstall ==
    ASSUME ControlInv, TextInv, StaysInv, NEW s \in Ids, Install(s)
    PROVE  StaysInv'
<1> DEFINE to == IF phase[s] = "asking" THEN "installed" ELSE phase[s]
           at == <<saves[s].name, saves[s].part>>
<1>1. /\ UNCHANGED <<page, saves, shown, hasty>> /\ file' = saves[s].text
      /\ phase' = [phase EXCEPT ![s] = to]
  BY DEF Install
<1>2. /\ Shape' /\ Ids' = Ids /\ phase'[s] = to /\ \A t \in Ids \ {s} : phase'[t] = phase[t]
  BY <1>1, PhaseOfOne DEF ControlInv
<1>3. InFlight' = InFlight
  BY <1>2 DEF InFlight
<1>4. Parts' = Parts
  BY <1>1, SameCarries
<1> SUFFICES ASSUME ~hasty, page \notin Overwrites
             PROVE  /\ \A n \in Names, c \in Parts : due'[<<n, c>>] # Unknown => Holds(file', n, c, due'[<<n, c>>])
                    /\ Known' => shown' = file' \/ \E t \in Ids : phase'[t] = "installed"
                    /\ \A t \in Ids : phase'[t] = "asking" /\ saves[t].aimed =>
                          \A n \in Names, c \in Parts :
                             <<n, c>> # <<saves[t].name, saves[t].part>> /\ due'[<<n, c>>] # Unknown =>
                                Holds(saves[t].text, n, c, due'[<<n, c>>])
  BY <1>1, <1>2, <1>3, <1>4 DEF StaysInv
<1>5. CASE phase[s] = "asking" /\ saves[s].aimed
  <2>1. due' = [due EXCEPT ![at] = saves[s].value]
    BY <1>5 DEF Install
  <2>2. s \in InFlight
    BY <1>5 DEF InFlight
  <2>3. \A t \in Ids : phase'[t] # "asking"
    BY <1>2, <1>5, <2>2 DEF InFlight, StaysInv
  <2>4. Carries(saves[s]) /\ due \in [Names \X Parts -> 0..3]
    BY DEF TextInv
  <2>5. at \in Names \X Parts
    BY <2>4 DEF Carries
  <2> HIDE DEF at
  <2>6. ASSUME NEW n \in Names, NEW c \in Parts, due'[<<n, c>>] # Unknown
        PROVE  Holds(file', n, c, due'[<<n, c>>])
    <3>1. CASE <<n, c>> = at
      <4>1. due'[<<n, c>>] = saves[s].value /\ n = saves[s].name /\ c = saves[s].part
        BY <2>1, <2>4, <2>5, <3>1 DEF at
      <4> QED BY <1>1, <1>5, <2>4, <4>1 DEF Carries
    <3>2. CASE <<n, c>> # at
      <4>1. due'[<<n, c>>] = due[<<n, c>>]
        BY <2>1, <2>4, <3>2
      <4>2. Holds(saves[s].text, n, c, due[<<n, c>>])
        BY <1>5, <2>6, <3>2, <4>1 DEF StaysInv, at
      <4> QED BY <1>1, <4>1, <4>2
    <3> QED BY <3>1, <3>2
  <2>7. phase'[s] = "installed"
    BY <1>2, <1>5
  <2> QED BY <2>3, <2>6, <2>7
<1>6. CASE ~(phase[s] = "asking" /\ saves[s].aimed)
  <2>1. due' = Nothing
    BY <1>6 DEF Install
  <2>2. \A n \in Names, c \in Parts : due'[<<n, c>>] = Unknown
    BY <2>1 DEF Nothing
  <2>3. ~Known'
    BY <1>4, <2>2 DEF Known
  <2> QED BY <2>2, <2>3
<1> QED BY <1>5, <1>6

LEMMA StaysStep == ControlInv /\ TextInv /\ StaysInv /\ [Next]_vars => StaysInv'
<1> SUFFICES ASSUME ControlInv, TextInv, StaysInv, [Next]_vars PROVE StaysInv'
  OBVIOUS
<1>1. CASE Refresh
  <2>1. /\ UNCHANGED <<page, file, due, saves, phase>> /\ shown' = file /\ InFlight' = InFlight
        /\ Ids' = Ids /\ (hasty => hasty')
    BY <1>1 DEF Refresh, InFlight, Ids
  <2>2. Parts' = Parts
    BY <2>1, SameCarries
  <2> QED BY <2>1, <2>2 DEF StaysInv
<1>2. CASE UserActs
  BY <1>2, StaysSave
<1>3. ASSUME NEW s \in Ids, Install(s) PROVE StaysInv'
  BY <1>3, StaysInstall
<1>4. ASSUME NEW s \in Ids, NEW p,
             phase' = [phase EXCEPT ![s] = p], p # "asking" \/ p = phase[s], phase[s] = "over" => p = "over",
             phase[s] = "installed" /\ p # "installed" /\ ~hasty /\ page \notin Overwrites => shown' = file,
             UNCHANGED <<page, file, due, saves, hasty>>, shown' \in {shown, file}
      PROVE  StaysInv'
  <2>1. /\ Ids' = Ids /\ phase'[s] = p /\ \A t \in Ids \ {s} : phase'[t] = phase[t]
    BY <1>4, PhaseOfOne DEF ControlInv
  <2>2. \A t \in Ids : phase'[t] = "asking" => phase[t] = "asking"
    BY <1>4, <2>1
  <2>3. InFlight' \subseteq InFlight
    BY <1>4, <2>1 DEF InFlight
  <2>4. Parts' = Parts /\ Known' = Known
    BY <1>4, SameCarries DEF Known
  <2>5. ASSUME ~hasty, page \notin Overwrites, Known
        PROVE  shown' = file \/ \E t \in Ids : phase'[t] = "installed"
    <3>1. CASE shown = file
      BY <1>4, <3>1
    <3>2. CASE \E t \in Ids : phase[t] = "installed"
      <4>1. PICK t \in Ids : phase[t] = "installed"
        BY <3>2
      <4>2. CASE t = s
        BY <1>4, <2>1, <2>5, <4>1, <4>2
      <4>3. CASE t # s
        BY <2>1, <4>1, <4>3
      <4> QED BY <4>2, <4>3
    <3> QED BY <2>5, <3>1, <3>2 DEF StaysInv
  <2> QED BY <1>4, <2>1, <2>2, <2>3, <2>4, <2>5 DEF StaysInv
<1>5. ASSUME NEW s \in Ids, EndWithout(s) \/ TimeOut(s) \/ Raise(s) PROVE StaysInv'
  <2>1. UNCHANGED <<page, file, due, saves, hasty, shown>>
    BY <1>5 DEF EndWithout, TimeOut, Raise
  <2>2. \/ phase[s] = "asking" /\ \E p \in {"failed", "over"} : phase' = [phase EXCEPT ![s] = p]
        \/ phase' = [phase EXCEPT ![s] = phase[s]]
    BY <1>5 DEF EndWithout, TimeOut, Raise
  <2>3. CASE phase[s] = "asking" /\ \E p \in {"failed", "over"} : phase' = [phase EXCEPT ![s] = p]
    BY <1>4, <2>1, <2>3
  <2>4. CASE phase' = [phase EXCEPT ![s] = phase[s]]
    BY <1>4, <2>1, <2>4
  <2> QED BY <2>2, <2>3, <2>4
<1>6. ASSUME NEW s \in Ids, Answer(s) PROVE StaysInv'
  <2>1. UNCHANGED <<page, file, due, saves, hasty>> /\ phase[s] \in {"installed", "failed"}
        /\ phase' = [phase EXCEPT ![s] = "over"] /\ shown' \in {shown, file}
    BY <1>6 DEF Answer
  <2>2. ASSUME phase[s] = "installed", ~hasty, page \notin Overwrites PROVE shown' = file
    <3>1. ~(plan.checks /\ saves[s].generation # generation)
      <4>1. CASE page = "ups"
        BY <4>1, Plans DEF ControlInv
      <4>2. CASE page # "ups"
        BY <2>1, <2>2, <4>2 DEF ControlInv, Patient, InFlight
      <4> QED BY <4>1, <4>2
    <3>2. "saved" \in Reloads
      BY <2>2, Plans DEF Reloads, ControlInv
    <3> QED BY <1>6, <2>2, <3>1, <3>2 DEF Answer
  <2> QED BY <1>4, <2>1, <2>2
<1>7. CASE EditFile
  <2>1. UNCHANGED <<page, saves, phase, shown, hasty>> /\ due' = Nothing
        /\ InFlight' = InFlight /\ Ids' = Ids
    BY <1>7 DEF EditFile, InFlight, Ids
  <2>2. Parts' = Parts
    BY <2>1, SameCarries
  <2>3. (\A n \in Names, c \in Parts : due'[<<n, c>>] = Unknown) /\ ~Known'
    BY <2>1, <2>2 DEF Nothing, Known
  <2> QED BY <2>1, <2>2, <2>3 DEF StaysInv
<1>8. CASE UNCHANGED vars
  <2>1. Parts' = Parts
    BY <1>8, SameCarries DEF vars
  <2> QED BY <1>8, <2>1 DEF vars, StaysInv, InFlight, Ids, Known
<1> QED BY <1>1, <1>2, <1>3, <1>5, <1>6, <1>7, <1>8 DEF Next, UserActs

\* What a save installed stays in the file through the later saves of the page, those
\* that fail included, until somebody else writes it, for a user who waits for each
\* answer and on every page but the two that write the file from nothing.
THEOREM InstalledStays == Spec => []SavedStays
<1>1. Init => StaysInv
  <2> SUFFICES ASSUME Init PROVE StaysInv
    OBVIOUS
  <2>1. InFlight = {} /\ Ids = {} /\ \A n \in Names, c \in Parts : due[<<n, c>>] = Unknown
    BY DEF Init, InFlight, Ids, Nothing
  <2> QED BY <2>1 DEF StaysInv, Known
<1>2. TextInv /\ StaysInv => SavedStays
  <2> SUFFICES ASSUME TextInv, StaysInv, ~hasty, page \notin Overwrites,
                      NEW e \in DOMAIN due, due[e] # Unknown
               PROVE  Holds(file, e[1], e[2], due[e])
    BY DEF SavedStays
  <2>1. e \in Names \X Parts
    BY DEF TextInv
  <2>2. PICK n \in Names, c \in Parts : e = <<n, c>>
    BY <2>1
  <2> QED BY <2>2 DEF StaysInv
<1> QED BY <1>1, <1>2, ControlAlways, TextAlways, StaysStep, PTL DEF Spec
=============================================================================
