------------------------------ MODULE EditPages ------------------------------
(***************************************************************************)
(* The pages that write a configuration file: they draw the entries of the *)
(* file, take a change of one of them, build a new text for the whole file *)
(* and hand it to a writer, off the main loop or on it.  The writer is the *)
(* helper behind pkexec or the page's own replace; what happens inside it  *)
(* is the subject of ConfigSave.  Here it installs the text or does not,   *)
(* before or after its time is up, and somebody edits the file meanwhile.  *)
(*                                                                         *)
(* The pages differ in what the new text is built from, in how the changed *)
(* line is found, in what keeps a second save away, in whose answer counts *)
(* and in what is read again: that is the Plan of a page.                  *)
(***************************************************************************)
EXTENDS Integers, FiniteSets, Sequences, SequencesExt

CONSTANTS
    Pages,          \* the pages of a run
    Names,          \* what an entry is about: a directive, a host, a share
    Clients,        \* whom a share is for
    MaxSaves,       \* bound: saves of one page
    MaxRefreshes,   \* bound: clicks on Refresh
    MaxEdits,       \* bound: edits of the file behind the page
    MaxMoves        \* bound: all of these together

ASSUME BoundAssumption == {MaxSaves, MaxRefreshes, MaxEdits, MaxMoves} \subseteq Nat
ASSUME NameAssumption  == Names \cap {"", "#", "?"} = {}
-----------------------------------------------------------------------------
(* The pages.  base: the new text is built from the file, read again at    *)
(* the save, from the entries the page holds, or from no entry at all.     *)
(* add: what a form, or a dropdown that names its directive, makes of that *)
(* text: the first line of the name gives the new value, is given one      *)
(* client more ("merge"), must be the only one ("sole") or must be there   *)
(* ("present"); or a line is added whatever there is ("append"), or where  *)
(* the page holds none of the name ("new").  set: a row is offered to be   *)
(* changed, and its line, as it was drawn, is put with the change at the   *)
(* index of the row.  remove: the line at the index of the row goes, every *)
(* line of the name, or the first.  strict: a text with a line that cannot *)
(* be read is refused.  guard: a flag or insensitive controls keep a       *)
(* second save away, the main loop blocks, or nothing does.  checks: the   *)
(* answer is dropped when its generation is over.  reloads: after which    *)
(* answers the file is read again.  says: "saving" stays on the page until *)
(* an answer.  redraws: to say it, or to say that a save failed, the page  *)
(* reads the file and draws its rows anew, within the same generation.     *)
(* writer: the helper, a replace in the user's home, or one that raises.   *)

Plain == [base |-> "file", add |-> "lookup", set |-> "none", remove |-> "none", strict |-> TRUE,
          guard |-> "flag", checks |-> FALSE, reloads |-> {"saved"}, says |-> FALSE, redraws |-> FALSE,
          refresh |-> TRUE, writer |-> "helper", caught |-> TRUE]

\* No busy flag: a dropdown or a Remove of a row starts a save of its own.
Remote == [Plain EXCEPT !.remove = "row", !.guard = "none", !.checks = TRUE, !.says = TRUE, !.redraws = TRUE]
\* A line has several clients; a dialog of a row puts the line as it was drawn.
Shares == [Remote EXCEPT !.add = "merge", !.set = "row"]
\* In the user's home, on the main loop; a key goes on the end of the file.
Ssh    == [Plain EXCEPT !.add = "append", !.remove = "row", !.guard = "blocks", !.writer = "own"]
\* The whole of /etc/hosts from the entries of the page, on the main loop.
Hosts  == [Plain EXCEPT !.base = "held", !.add = "append", !.set = "row", !.remove = "row", !.strict = FALSE,
                        !.guard = "blocks", !.reloads = {"saved", "failed"}, !.refresh = FALSE]
\* The whole drop-in from the names the page holds.
Black  == [Hosts EXCEPT !.add = "new", !.set = "none", !.remove = "name", !.guard = "flag"]
\* The whole drop-in from a list that is never filled; nothing is read again.
Samba  == [Plain EXCEPT !.base = "nothing", !.add = "append", !.strict = FALSE, !.reloads = {}, !.refresh = FALSE]
\* config_edit.save raises whatever it is given (config_edit.py:170-174).
Irq    == [Plain EXCEPT !.add = "sole", !.remove = "name", !.strict = FALSE, !.writer = "raises", !.refresh = FALSE]
Ups    == [Irq EXCEPT !.caught = FALSE]
\* set_config_value: one key that the file has.
Keys   == [Plain EXCEPT !.add = "present", !.refresh = FALSE]
Krb    == [Plain EXCEPT !.add = "present", !.reloads = {"saved", "failed"}]
Card   == [Krb EXCEPT !.remove = "first", !.guard = "blocks"]
\* A drop-in of its own, whole, after the module was loaded.
Kvm    == [Samba EXCEPT !.checks = TRUE, !.reloads = {"saved", "failed"}, !.refresh = TRUE]

PlanOf == [remote_access |-> Remote, sharing |-> Shares, ssh_keys |-> Ssh, hosts_env |-> Hosts,
           modules |-> Black, smb |-> Samba, irqbalance |-> Irq, ups |-> Ups,
           security_keys |-> Keys, kerberos |-> Krb, smartcard |-> Card, kvm |-> Kvm]

ASSUME PageAssumption == Pages \subseteq DOMAIN PlanOf
-----------------------------------------------------------------------------
(* A line is of one name and gives it values: an export has a value for    *)
(* each of its clients, a line of another page has one for the whole of it. *)

Whole   == "whole"
Values  == 1..2
Gone    == 0               \* the value of an entry that is not there
Unknown == 3               \* what an entry is supposed to be, when nobody said

Gives(c, v)    == [of |-> c, value |-> v]
Line(n, specs) == [name |-> n, specs |-> specs]
Blank   == Line("", {})
Comment == Line("#", {})
Odd     == Line("?", {})   \* a line that cannot be read

At(text, n)    == {i \in DOMAIN text : text[i].name = n}
First(text, n) == CHOOSE i \in At(text, n) : \A j \in At(text, n) : i <= j

\* What the text gives of name n for client c: more values than one where a line,
\* or a client of it, is there twice.
Given(text, n, c) == {v \in Values : \E i \in At(text, n) : Gives(c, v) \in text[i].specs}
Holds(text, n, c, v) == IF v = Gone THEN Given(text, n, c) = {} ELSE v \in Given(text, n, c)

\* The lines at those rows, in their order.
Picked(text, rows) ==
    LET picked[i \in 0..Len(text)] ==
            IF i = 0 THEN <<>>
            ELSE IF i \in rows THEN Append(picked[i - 1], text[i]) ELSE picked[i - 1]
    IN  picked[Len(text)]
Entries(text)    == Picked(text, {i \in DOMAIN text : text[i].name \in Names})

VARIABLES
    page,        \* the page of this behaviour
    file,        \* the lines of the file
    shown,       \* the lines as the page read them last
    generation,  \* readings of the page
    busy,        \* the flag, or the insensitive controls
    note,        \* what the page says of its last save
    saves,       \* the saves so far, in order: what each is to do, and from what
    phase,       \* of each: asking, installed, failed, and over with its answer
    running,     \* the saves whose writer has not ended
    refreshes,   \* bound
    edits,       \* bound
    hasty,       \* history: the user clicked while a save was under way
    due          \* history: of each name and client, the value a save in time gave it

vars == <<page, file, shown, generation, busy, note, saves, phase, running, refreshes, edits, hasty, due>>

plan     == PlanOf[page]
Parts    == IF plan.add = "merge" THEN Clients ELSE {Whole}
Ids      == DOMAIN saves
InFlight == {s \in Ids : phase[s] # "over"}
Nothing  == [e \in Names \X Parts |-> Unknown]

MoreMoves == Len(saves) + refreshes + edits < MaxMoves

\* On a page that writes on the main loop nothing else is dispatched until then.
MainLoopFree == plan.guard = "blocks" => InFlight = {}

\* The files to begin with: no entry, one, one and a line that cannot be read, or
\* two, which may be of the same name; an export has all the clients.
Entered == {Line(n, {Gives(c, 1) : c \in Parts}) : n \in Names}
Files    == {<<>>} \cup {<<a>> : a \in Entered} \cup {<<a, Odd>> : a \in Entered}
                  \cup {<<Comment, a, b>> : a, b \in Entered}

Init ==
    /\ page \in Pages
    /\ file \in Files
    /\ shown = file
    /\ generation = 1
    /\ busy = FALSE
    /\ note = "none"
    /\ saves = <<>> /\ phase = <<>> /\ running = {}
    /\ refreshes = 0 /\ edits = 0
    /\ hasty = FALSE
    /\ due = Nothing

Refresh ==
    /\ plan.refresh /\ MainLoopFree
    /\ refreshes < MaxRefreshes /\ MoreMoves
    /\ refreshes' = refreshes + 1
    /\ shown' = file
    /\ generation' = generation + 1
    /\ hasty' = (hasty \/ InFlight # {})
    /\ UNCHANGED <<page, file, busy, note, saves, phase, running, edits, due>>

\* The text a change is made in, and the entries the rows were drawn for.
TextDrawn == Entries(shown) \* (mutant)
TextBefore ==
    CASE plan.base = "file"    -> file
      [] plan.base = "held"    -> Entries(shown)
      [] plan.base = "nothing" -> <<>>
Drawn == IF plan.base = "held" THEN Entries(shown) ELSE shown

\* Name n is to give client c the value v, by a form or a dropdown.
Added(text, n, c, v) ==
    CASE plan.add \in {"append", "new"} \/ At(text, n) = {} -> Append(text, Line(n, {Gives(c, v)}))
      [] plan.add = "merge" /\ At(text, n) # {} ->
            [text EXCEPT ![First(text, n)] = Line(n, text[First(text, n)].specs \cup {Gives(c, v)})]
      [] plan.add \in {"lookup", "sole", "present"} /\ At(text, n) # {} ->
            [text EXCEPT ![First(text, n)] = Line(n, {Gives(c, v)})]

\* The line of row i is put there, as the page made it from the line it drew.
Put(text, i, line) == [text EXCEPT ![i] = line]

\* The line of row i without client c: emptied where that was the last, and on a
\* page that writes its entries anew left out.
Without(text, i, c) ==
    LET left == {g \in Drawn[i].specs : g.of # c} IN
    CASE plan.base = "held"               -> Picked(text, DOMAIN text \ {i})
      [] plan.base # "held" /\ left = {} -> Put(text, i, Blank)
      [] plan.base # "held" /\ left # {} -> Put(text, i, Line(Drawn[i].name, left))

\* Every line of the name is left out, or the first is emptied.
WithoutName(text, n) ==
    IF plan.remove = "first" THEN Put(text, First(text, n), Blank)
    ELSE Picked(text, DOMAIN text \ At(text, n))

\* The row is the only one of its name, at the place of its line.
Sole(text, n, i) == At(text, n) = {i}
\* The entries the page built the text from are those of the file.
AsRead == plan.base = "held" => shown = file

\* The tail of every save: a text that is refused, or a writer that begins.
Save(refused, change) ==
    /\ MainLoopFree /\ ~busy
    /\ Len(saves) < MaxSaves /\ MoreMoves
    /\ hasty' = (hasty \/ InFlight # {})
    /\ IF refused \/ (plan.strict /\ At(TextBefore, "?") # {})
       THEN /\ note' = "failed"
            /\ shown' = IF "failed" \in plan.reloads \/ plan.redraws THEN file ELSE shown
            /\ UNCHANGED <<saves, phase, running, busy>>
       ELSE /\ saves' = Append(saves, change)
            /\ phase' = Append(phase, "asking")
            /\ running' = running \cup {Len(saves) + 1}
            /\ busy' = (plan.guard = "flag")
            /\ note' = IF plan.says THEN "saving" ELSE note
            /\ shown' = IF plan.redraws THEN file ELSE shown
    /\ UNCHANGED <<page, file, generation, refreshes, edits, due>>

Change(text, n, c, v, aimed, fresh) ==
    [text |-> text, name |-> n, part |-> c, value |-> v, aimed |-> aimed, fresh |-> fresh,
     read |-> file, generation |-> generation]

\* A form, or a dropdown that names its directive.
Add(n, c, v) ==
    LET text == TextBefore IN
    /\ plan.add = "new" => At(Drawn, n) = {}
    /\ plan.add = "present" => At(Drawn, n) # {}
    /\ Save(\/ plan.add = "present" /\ At(text, n) = {}
            \/ plan.add = "sole" /\ Cardinality(At(text, n)) > 1,
            Change(Added(text, n, c, v), n, c, v, TRUE, AsRead))

\* The index of a row may be beyond the file of today: an IndexError in the
\* callback, and nothing is done.
OnRow(i) == i \in DOMAIN TextBefore /\ Drawn[i].name \in Names

\* The dialog or the switch of a row: one value of a client is replaced.
SetRow(i, old, v) ==
    LET text == TextBefore
        n    == Drawn[i].name
    IN  /\ plan.set = "row" /\ OnRow(i)
        /\ old.value # v
        /\ Save(FALSE,
                Change(Put(text, i, Line(n, (Drawn[i].specs \ {old}) \cup {Gives(old.of, v)})),
                       n, old.of, v, Sole(text, n, i), AsRead /\ Drawn[i] = text[i]))

\* Remove of a row.
RemoveRow(i, c) ==
    LET text == TextBefore
        n    == Drawn[i].name
    IN  /\ plan.remove = "row" /\ OnRow(i)
        /\ Save(FALSE, Change(Without(text, i, c), n, c, Gone, Sole(text, n, i), AsRead /\ Drawn[i] = text[i]))

\* Remove by the name.
RemoveName(n, c) ==
    LET text == TextBefore IN
    /\ plan.remove \in {"name", "first"} /\ At(Drawn, n) # {}
    /\ Save(At(text, n) = {},
            Change(WithoutName(text, n), n, c, Gone,
                   plan.remove = "first" => Cardinality(At(text, n)) = 1, AsRead))

\* The writer installs the text, in time or after it.
Install(s) ==
    /\ s \in running
    /\ plan.writer # "raises"
    /\ file' = saves[s].text
    /\ running' = running \ {s}
    /\ phase' = [phase EXCEPT ![s] = IF @ = "asking" THEN "installed" ELSE @]
    /\ due' = IF phase[s] = "asking" /\ saves[s].aimed
              THEN [due EXCEPT ![<<saves[s].name, saves[s].part>>] = saves[s].value]
              ELSE Nothing
    /\ UNCHANGED <<page, shown, generation, busy, note, saves, refreshes, edits, hasty>>

\* It ends without: a dismissed dialog, a refusal, a full disk.
EndWithout(s) ==
    /\ s \in running
    /\ plan.writer # "raises"
    /\ running' = running \ {s}
    /\ phase' = [phase EXCEPT ![s] = IF @ = "asking" THEN "failed" ELSE @]
    /\ UNCHANGED <<page, file, shown, generation, busy, note, saves, refreshes, edits, hasty, due>>

\* Its time is up; a helper that runs as root is not killed with pkexec.
TimeOut(s) ==
    /\ plan.writer = "helper"
    /\ phase[s] = "asking"
    /\ phase' = [phase EXCEPT ![s] = "failed"]
    /\ UNCHANGED <<page, file, shown, generation, busy, note, saves, running, refreshes, edits, hasty, due>>

\* What the worker thread does with an exception of the writer.
CaughtNever == FALSE \* (mutant)
Caught      == plan.caught

\* The writer raises in the worker thread, and without a handler that is its end.
Raise(s) ==
    /\ plan.writer = "raises"
    /\ phase[s] = "asking"
    /\ running' = running \ {s}
    /\ phase' = [phase EXCEPT ![s] = IF Caught THEN "failed" ELSE "over"]
    /\ UNCHANGED <<page, file, shown, generation, busy, note, saves, refreshes, edits, hasty, due>>

\* After which answers the page reads the file again.
ReloadsOnFailure == plan.reloads \ {"saved"} \* (mutant)
Reloads          == plan.reloads

\* The answer, on the main loop.
Answer(s) ==
    LET said == IF phase[s] = "installed" THEN "saved" ELSE "failed" IN
    /\ phase[s] \in {"installed", "failed"}
    /\ phase' = [phase EXCEPT ![s] = "over"]
    /\ IF plan.checks /\ saves[s].generation # generation
       THEN UNCHANGED <<shown, generation, busy, note>>
       ELSE /\ busy' = FALSE
            /\ note' = said
            /\ IF said \in Reloads
               THEN shown' = file /\ generation' = generation + 1
               ELSE shown' = (IF plan.redraws THEN file ELSE shown) /\ UNCHANGED generation
    /\ UNCHANGED <<page, file, saves, running, refreshes, edits, hasty, due>>

\* Somebody edits the file in a terminal: a line more or less, or one that gives
\* something else.
EditFile ==
    /\ edits < MaxEdits /\ MoreMoves
    /\ edits' = edits + 1
    /\ \/ \E line \in Entered : file' = <<line>> \o file
       \/ \E i \in DOMAIN file : file' = RemoveAt(file, i)
       \/ \E i \in DOMAIN file, c \in Parts, v \in Values \cup {Gone} :
             LET specs == {g \in file[i].specs : g.of # c} \cup {Gives(c, w) : w \in {v} \ {Gone}} IN
             /\ file[i].name \in Names /\ specs # {} /\ specs # file[i].specs
             /\ file' = [file EXCEPT ![i] = Line(file[i].name, specs)]
    /\ due' = Nothing
    /\ UNCHANGED <<page, shown, generation, busy, note, saves, phase, running, refreshes, hasty>>

Next ==
    \/ Refresh
    \/ \E n \in Names, c \in Parts : RemoveName(n, c) \/ \E v \in Values : Add(n, c, v)
    \/ \E i \in DOMAIN Drawn :
          \/ \E old \in Drawn[i].specs, v \in Values : SetRow(i, old, v)
          \/ \E c \in {g.of : g \in Drawn[i].specs} : RemoveRow(i, c)
    \/ \E s \in Ids : Install(s) \/ EndWithout(s) \/ TimeOut(s) \/ Raise(s) \/ Answer(s)
    \/ EditFile

Spec == Init /\ [][Next]_vars
-----------------------------------------------------------------------------
\* The page builds its text from nothing: every other entry goes.
Overwrites == {"smb", "kvm"}
\* The page builds its text from entries only: a comment goes.
Rebuilds   == {"hosts_env", "modules"}

Installs(s) == s \in running \ running' /\ file' # file

\* A save changes what the user pointed at and nothing else, the other clients of its
\* line included, as long as nobody wrote the file since the save read it, the row was
\* still at the line it was drawn for, its only one, and what the page made the
\* new text from was still what the file said.
OthersKept ==
    [][\A s \in Ids :
          LET own == saves[s] IN
          Installs(s) /\ file = own.read /\ own.aimed /\ own.fresh /\ page \notin Overwrites =>
             /\ Holds(file', own.name, own.part, own.value)
             /\ \A n \in Names, c \in Parts : <<n, c>> # <<own.name, own.part>> =>
                   Given(file', n, c) = Given(file, n, c)
             /\ page \notin Rebuilds => Cardinality(At(file', "#")) = Cardinality(At(file, "#"))]_vars

\* "The other clients on this line keep the options they have" (sharing.py:1153-1154),
\* and a removed client's neighbours "stay on this line with the options they have"
\* (sharing.py:1187-1188): those of the file the save read, nobody having written it since.
OthersOnTheLineStay ==
    [][\A s \in Ids :
          LET own == saves[s] IN
          Installs(s) /\ file = own.read /\ own.aimed =>
             \A c \in Parts \ {own.part} : Given(file', own.name, c) = Given(file, own.name, c)]_vars

\* What a save of the page installed stays in the file, whatever the page saves after
\* it, until somebody else writes the file or a writer out of time does; for a
\* user who waits for each answer.
SavedStays ==
    ~hasty /\ page \notin Overwrites =>
        \A e \in DOMAIN due : due[e] # Unknown => Holds(file, e[1], e[2], due[e])

\* With every save over, the controls are back and the page does not go on saying
\* that it saves; for a user who waits for each answer.
ControlsComeBack ==
    InFlight = {} /\ ~hasty /\ page # "ups" => ~busy /\ note # "saving"
=============================================================================
