----------------------------- MODULE CodexTail -----------------------------
(***************************************************************************)
(* The daemon's codex rollout watcher (codex_watch.rs) and its reader      *)
(* (rollout_tail.rs of fornax-adapter-codex).                              *)
(*                                                                         *)
(* One task scans the sessions directory from time to time, as long as the *)
(* opt-in marker exists, and in every pass reads the complete new lines of *)
(* each file it tracks, forwards them one after the other, and saves its   *)
(* cursors once at the end of the pass.  Codex appends to the files, the   *)
(* user adds and removes the marker, and the daemon may stop, between any  *)
(* two of these steps.                                                     *)
(*                                                                         *)
(* A file is its generation (which file it is), its identity (the device   *)
(* and inode the reader compares, which a later file may be given again,   *)
(* and which is the same for all off unix), its number of complete lines   *)
(* and whether a half-written line follows them; offsets count lines.      *)
(* Lines the reader drops (blank, oversized, not UTF-8), the prefix replay *)
(* that restores the adapter, files cut short in place and file systems    *)
(* without creation times are left out; the cursor file can always be      *)
(* written and removed.                                                    *)
(***************************************************************************)
EXTENDS Naturals

CONSTANTS
  File, None,
  Window,         \* lines one read takes at most
  MaxGeneration,  \* bound: how often a file is created
  MaxLines,       \* bound: lines of one file
  MaxToggle,      \* bound: changes of the marker and of the directory
  MaxCrash        \* bound: how often the daemon stops

\* A TailCursor, and the generation of the file it was taken from.
Cursor == [gen : Nat, ino : Nat, offset : Nat]

ASSUME NoneApart == None \notin File /\ None \notin Nat /\ None \notin Cursor
ASSUME BoundType == /\ Window \in Nat \ {0} /\ MaxGeneration \in Nat /\ MaxLines \in Nat
                    /\ MaxToggle \in Nat /\ MaxCrash \in Nat

VARIABLES
  gen,      \* generation of the file at each path, 0 before the first
  ino,      \* its identity; equal to the generation unless it is used again
  exists,   \* paths at which there is a file
  lines,    \* its complete lines
  half,     \* paths whose file ends in a half-written line
  recent,   \* paths modified within FRESH_WINDOW and among the MAX_FILES newest
  dir,      \* the sessions directory is there
  marker,   \* codex-watch.json is there and usable
  toggles,  \* how often marker and directory have changed
  crashes,  \* how often the daemon has stopped
  pc,       \* where the watcher is: "down", "sleep", "tail", "forward", "drop"
  fresh,    \* paths whose file was created since watching_since
  tracked,  \* the cursor of every tracked path, or None
  idle,     \* the length of every path dropped for idleness, or None
  cursors,  \* the cursors in memory, by path, or None
  saved,    \* the same in the cursor file
  pass,     \* tracked paths still to be read in this pass
  busy,     \* paths that had new lines in this pass
  changed,  \* some cursor moved in this pass
  at,       \* the path being forwarded, or None
  next,     \* its next line
  read,     \* the cursor its read returned, or None
  sent,     \* history: lines <<path, generation, number>> handed to process_line, from
            \* the creation of the path's last file on
  hidden,   \* history: likewise, lines that a scan without the marker has passed over
  from      \* history: the line after which the current generation is to be followed

disk == <<gen, ino, exists, lines, half, recent>>
env == <<dir, marker, toggles, crashes>>
memory == <<fresh, tracked, idle, cursors>>
loop == <<pass, busy, changed, at, next, read>>
history == <<sent, hidden, from>>
vars == <<gen, ino, exists, lines, half, recent, dir, marker, toggles, crashes, pc, fresh,
          tracked, idle, cursors, saved, pass, busy, changed, at, next, read, sent, hidden,
          from>>

NoCursors == [f \in File |-> None]
Line(f, i) == <<f, gen[f], i>>
OnDisk == UNION {{Line(f, i) : i \in 1..lines[f]} : f \in exists}
\* The files that can be opened.
Reachable == IF dir THEN exists ELSE {}
\* The file has an identity that an earlier file at its path has had.
Reused(f) == ino[f] # gen[f]
\* metadata().len(): a half-written line counts as well.
Length(f) == 2 * lines[f] + (IF f \in half THEN 1 ELSE 0)

Idling ==
  /\ pass = {} /\ busy = {} /\ changed = FALSE
  /\ at = None /\ next = 0 /\ read = None

Init ==
  /\ gen = [f \in File |-> 0]
  /\ ino = [f \in File |-> 0]
  /\ exists = {}
  /\ lines = [f \in File |-> 0]
  /\ half = {}
  /\ recent = {}
  /\ dir = TRUE
  /\ marker = FALSE
  /\ toggles = 0
  /\ crashes = 0
  /\ pc = "sleep"
  /\ fresh = {}
  /\ tracked = NoCursors
  /\ idle = NoCursors
  /\ cursors = NoCursors
  /\ saved = NoCursors
  /\ Idling
  /\ sent = {}
  /\ hidden = {}
  /\ from = [f \in File |-> 0]

-----------------------------------------------------------------------------
(* Codex, the user and the operating system. *)

\* A new file may be given the identity of an earlier one.
Create(f) ==
  /\ dir
  /\ f \notin exists
  /\ gen[f] < MaxGeneration
  /\ gen' = [gen EXCEPT ![f] = @ + 1]
  /\ \E j \in 1..(gen[f] + 1) : ino' = [ino EXCEPT ![f] = j]
  /\ exists' = exists \cup {f}
  /\ lines' = [lines EXCEPT ![f] = 0]
  /\ half' = half \ {f}
  /\ recent' = recent \cup {f}
  /\ fresh' = fresh \cup {f}
  /\ sent' = {l \in sent : l[1] # f}
  /\ hidden' = {l \in hidden : l[1] # f}
  /\ UNCHANGED <<env, pc, tracked, idle, cursors, saved, loop, from>>

Remove(f) ==
  /\ dir
  /\ f \in exists
  /\ exists' = exists \ {f}
  /\ recent' = recent \ {f}
  /\ half' = half \ {f}
  /\ UNCHANGED <<gen, ino, lines, env, pc, memory, saved, loop, history>>

\* Codex writes the first part of a line, or the rest of it.
Append(f) ==
  /\ f \in exists
  /\ lines[f] < MaxLines
  /\ \/ /\ f \notin half
        /\ half' = half \cup {f}
        /\ UNCHANGED lines
     \/ /\ lines' = [lines EXCEPT ![f] = @ + 1]
        /\ half' = half \ {f}
  /\ recent' = recent \cup {f}
  /\ UNCHANGED <<gen, ino, exists, env, pc, memory, saved, loop, history>>

\* FRESH_WINDOW goes by, or MAX_FILES other files are written, and discover
\* no longer lists the file; or enough of the others go and it is back.
Recency(f) ==
  /\ f \in exists
  /\ recent' = IF f \in recent THEN recent \ {f} ELSE recent \cup {f}
  /\ UNCHANGED <<gen, ino, exists, lines, half, env, pc, memory, saved, loop, history>>

\* fornax install codex, and its removal.
ToggleMarker ==
  /\ toggles < MaxToggle
  /\ toggles' = toggles + 1
  /\ marker' = ~marker
  /\ UNCHANGED <<disk, dir, crashes, pc, memory, saved, loop, history>>

\* The sessions directory goes (renamed, unmounted) or comes back.
ToggleDir ==
  /\ toggles < MaxToggle
  /\ toggles' = toggles + 1
  /\ dir' = ~dir
  /\ UNCHANGED <<disk, marker, crashes, pc, memory, saved, loop, history>>

\* The daemon stops; what it held in memory is gone.
Crash ==
  /\ pc # "down"
  /\ crashes < MaxCrash
  /\ crashes' = crashes + 1
  /\ pc' = "down"
  /\ pass' = {} /\ busy' = {} /\ changed' = FALSE
  /\ at' = None /\ next' = 0 /\ read' = None
  /\ tracked' = NoCursors
  /\ idle' = NoCursors
  /\ cursors' = NoCursors
  /\ fresh' = {}
  /\ UNCHANGED <<disk, dir, marker, toggles, saved, history>>

-----------------------------------------------------------------------------
(* The scan. *)

\* watch_loop up to its loop: load_cursors, and watching_since is now.
Boot ==
  /\ pc = "down"
  /\ pc' = "sleep"
  /\ cursors' = saved
  /\ fresh' = {}
  /\ UNCHANGED <<disk, env, tracked, idle, saved, loop, history>>

\* Mutant: the cursors outlive the switch-off.
ScanOffKeepsCursors ==
  /\ pc = "sleep"
  /\ ~marker
  /\ tracked' = NoCursors
  /\ idle' = NoCursors
  /\ fresh' = {}
  /\ hidden' = hidden \cup OnDisk
  /\ UNCHANGED <<disk, env, pc, cursors, saved, loop, sent, from>>

\* A scan without the marker: if there is any cursor, everything is forgotten,
\* the cursor file too; watching_since is now.
ScanOff ==
  /\ pc = "sleep"
  /\ ~marker
  /\ IF tracked # NoCursors \/ cursors # NoCursors
     THEN /\ tracked' = NoCursors
          /\ idle' = NoCursors
          /\ cursors' = NoCursors
          /\ saved' = NoCursors
     ELSE UNCHANGED <<tracked, idle, cursors, saved>>
  /\ fresh' = {}
  /\ hidden' = hidden \cup OnDisk
  /\ UNCHANGED <<disk, env, pc, loop, sent, from>>

\* A scan that finds no sessions directory: nothing is touched, and the pass
\* that would follow is left out as well.
ScanMissing ==
  /\ pc = "sleep"
  /\ marker
  /\ ~dir
  /\ UNCHANGED vars

\* resolve: a cursor of the same identity that lies within the file is kept,
\* any other restarts at 0.
Resolve(c, f) ==
  IF c.ino = ino[f] /\ c.offset <= lines[f] THEN [c EXCEPT !.gen = gen[f]]
  ELSE [gen |-> gen[f], ino |-> ino[f], offset |-> 0]

\* start_tracking with start_for: the saved cursor, or the beginning of a new
\* file, or the last complete line of an old one.
StartCursor(f) ==
  IF cursors[f] # None THEN Resolve(cursors[f], f)
  ELSE [gen |-> gen[f], ino |-> ino[f], offset |-> IF f \in fresh THEN 0 ELSE lines[f]]

\* Where that cursor ought to be: a file that took the place of the one the
\* cursor was for is new.
StartFrom(f) ==
  CASE cursors[f] = None -> StartCursor(f).offset
    [] cursors[f] # None /\ StartCursor(f) = cursors[f] -> from[f]
    [] OTHER -> 0

\* Mutant: a file that was dropped once is never looked at again.
FoundOnce == {f \in exists \cap recent : tracked[f] = None /\ idle[f] = None}

\* The files discover lists that are neither tracked nor still idle.
Found == {f \in exists \cap recent : tracked[f] = None /\ idle[f] # Length(f)}

\* A scan with the marker.
Scan ==
  /\ pc = "sleep"
  /\ marker
  /\ dir
  /\ tracked' = [f \in File |-> IF f \in Found THEN StartCursor(f) ELSE tracked[f]]
  /\ idle' = [f \in File |-> IF f \in Found \/ f \notin exists THEN None ELSE idle[f]]
  /\ cursors' = [f \in File |-> IF f \in exists THEN cursors[f] ELSE None]
  /\ saved' = IF cursors' # cursors THEN cursors' ELSE saved
  /\ from' = [f \in File |-> IF f \in Found THEN StartFrom(f) ELSE from[f]]
  /\ pass' = {f \in File : tracked'[f] # None}
  /\ pc' = "tail"
  /\ UNCHANGED <<disk, env, fresh, busy, changed, at, next, read, sent, hidden>>

\* A pass between two scans.
StartPass ==
  /\ pc = "sleep"
  /\ pass' = {f \in File : tracked[f] # None}
  /\ pc' = "tail"
  /\ UNCHANGED <<disk, env, memory, saved, busy, changed, at, next, read, history>>

-----------------------------------------------------------------------------
(* The pass over the tracked files. *)

Smaller(a, b) == IF a < b THEN a ELSE b

\* Mutant: the half-written line is consumed too.
ReadEndHalf(f, o) == Smaller(o + Window, lines[f] + (IF f \in half THEN 1 ELSE 0))

\* The last line read_new_lines returns when it starts after line o.
ReadEnd(f, o) == Smaller(o + Window, lines[f])

\* read_new_lines of one file.
ReadFile(f) ==
  LET start == Resolve(tracked[f], f)
      end == ReadEnd(f, start.offset)
  IN
  /\ pc = "tail"
  /\ f \in pass
  /\ f \in Reachable
  /\ pass' = pass \ {f}
  /\ at' = f
  /\ next' = start.offset + 1
  /\ read' = [gen |-> gen[f], ino |-> ino[f], offset |-> end]
  /\ busy' = IF end > start.offset THEN busy \cup {f} ELSE busy
  /\ changed' = (changed \/ ino[f] # tracked[f].ino \/ end # tracked[f].offset)
  /\ from' = [from EXCEPT ![f] = IF start = tracked[f] THEN @ ELSE 0]
  /\ pc' = "forward"
  /\ UNCHANGED <<disk, env, memory, saved, sent, hidden>>

\* The file cannot be opened: it is passed over.
ReadFails(f) ==
  /\ pc = "tail"
  /\ f \in pass
  /\ f \notin Reachable
  /\ pass' = pass \ {f}
  /\ UNCHANGED <<disk, env, pc, memory, saved, busy, changed, at, next, read, history>>

\* forward_line of one line that was read.
ForwardLine ==
  /\ pc = "forward"
  /\ next <= read.offset
  /\ sent' = sent \cup {<<at, read.gen, next>>}
  /\ next' = next + 1
  /\ UNCHANGED <<disk, env, pc, memory, saved, pass, busy, changed, at, read, hidden, from>>

\* Mutant: the cursor moves without waiting for the lines.
FinishFileEarly ==
  /\ pc = "forward"
  /\ tracked' = [tracked EXCEPT ![at] = read]
  /\ cursors' = [cursors EXCEPT ![at] = read]
  /\ at' = None /\ next' = 0 /\ read' = None
  /\ pc' = "tail"
  /\ UNCHANGED <<disk, env, fresh, idle, saved, pass, busy, changed, history>>

\* All of them are forwarded: the cursor moves.
FinishFile ==
  /\ pc = "forward"
  /\ next > read.offset
  /\ tracked' = [tracked EXCEPT ![at] = read]
  /\ cursors' = [cursors EXCEPT ![at] = read]
  /\ at' = None /\ next' = 0 /\ read' = None
  /\ pc' = "tail"
  /\ UNCHANGED <<disk, env, fresh, idle, saved, pass, busy, changed, history>>

\* Files that have been silent for IDLE_AFTER are dropped, with the length they
\* have now; which ones is a matter of time.
DropIdle(F) ==
  /\ pc = "tail"
  /\ pass = {}
  /\ F \cap busy = {}
  /\ \A f \in F : tracked[f] # None
  /\ idle' = [f \in File |->
       IF f \notin F THEN idle[f]
       ELSE IF f \in Reachable THEN Length(f) ELSE 2 * tracked[f].offset]
  /\ tracked' = [f \in File |-> IF f \in F THEN None ELSE tracked[f]]
  /\ pc' = "drop"
  /\ UNCHANGED <<disk, env, fresh, cursors, saved, loop, history>>

\* save_cursors, when some cursor moved.
EndPass ==
  /\ pc = "drop"
  /\ saved' = IF changed THEN cursors ELSE saved
  /\ pass' = {} /\ busy' = {} /\ changed' = FALSE
  /\ at' = None /\ next' = 0 /\ read' = None
  /\ pc' = "sleep"
  /\ UNCHANGED <<disk, env, memory, history>>

-----------------------------------------------------------------------------
Watcher ==
  \/ Boot
  \/ ScanOff
  \/ ScanMissing
  \/ Scan
  \/ StartPass
  \/ \E f \in File : ReadFile(f)
  \/ \E f \in File : ReadFails(f)
  \/ ForwardLine
  \/ FinishFile
  \/ \E F \in SUBSET File : DropIdle(F)
  \/ EndPass

Next ==
  \/ Watcher
  \/ \E f \in File : Create(f) \/ Remove(f) \/ Append(f) \/ Recency(f)
  \/ ToggleMarker
  \/ ToggleDir
  \/ Crash

\* The watcher keeps running, and scans whenever SCAN_EVERY has gone by.
Fairness == WF_vars(Watcher) /\ SF_vars(Scan) /\ SF_vars(ScanOff)

Spec == Init /\ [][Next]_vars /\ Fairness

-----------------------------------------------------------------------------
(* Properties *)

TypeOK ==
  /\ gen \in [File -> Nat]
  /\ ino \in [File -> Nat]
  /\ \A f \in File : ino[f] <= gen[f]
  /\ exists \subseteq File
  /\ lines \in [File -> Nat]
  /\ half \subseteq File
  /\ recent \subseteq File
  /\ dir \in BOOLEAN
  /\ marker \in BOOLEAN
  /\ toggles \in 0..MaxToggle
  /\ crashes \in 0..MaxCrash
  /\ pc \in {"down", "sleep", "tail", "forward", "drop"}
  /\ fresh \subseteq File
  /\ tracked \in [File -> Cursor \cup {None}]
  /\ idle \in [File -> Nat \cup {None}]
  /\ cursors \in [File -> Cursor \cup {None}]
  /\ saved \in [File -> Cursor \cup {None}]
  /\ pass \subseteq {f \in File : tracked[f] # None}
  /\ pc \in {"down", "sleep", "drop"} => pass = {}
  /\ busy \subseteq File
  /\ changed \in BOOLEAN
  /\ IF pc = "forward" THEN at \in File /\ tracked[at] # None /\ read \in Cursor ELSE at = None
  /\ next \in Nat
  /\ sent \subseteq File \X Nat \X Nat
  /\ hidden \subseteq File \X Nat \X Nat
  /\ from \in [File -> Nat]

\* No cursor, in memory or in the cursor file, is past a line that was not
\* handed to process_line: a crash may repeat lines but never loses one that
\* lies behind a cursor (the cursors move after the lines and are saved last),
\* and a file that replaces another is read from its first line.  The exception
\* is a new file that was given the identity of an earlier one: resolve takes
\* the two for the same.
CursorsOnlyPassForwarded ==
  \A f \in File : ~Reused(f) =>
    \A c \in {tracked[f], cursors[f], saved[f]} \ {None} :
      c.gen = gen[f] => \A i \in (from[f] + 1)..c.offset : Line(f, i) \in sent

\* Within what is followed of a file, a line is forwarded only after the line
\* before it: exit-code evidence reaches the store before the claim that
\* relies on it, across restarts of the daemon as well.
ForwardedInOrder ==
  \A f \in File : \A i \in (from[f] + 2)..lines[f] :
    /\ ~Reused(f)
    /\ f \in exists
    /\ tracked[f] # None
    /\ tracked[f].gen = gen[f]
    /\ Line(f, i) \in sent
    => Line(f, i - 1) \in sent

\* Only complete lines are forwarded; a line written in two parts is forwarded
\* after its second part (the reader leaves a half-written line alone).
OnlyCompleteLines ==
  \A l \in sent : l[2] = gen[l[1]] => l[3] <= lines[l[1]]

\* What a scan without the marker has passed over is never read later: the
\* line in hand is none of those (ScanOff drops every cursor and moves
\* watching_since).
HistoryStaysHidden ==
  pc = "forward" => \A i \in next..read.offset : <<at, read.gen, i>> \notin hidden

\* A complete line of a file the watcher follows is forwarded in the end, as
\* long as the file, the sessions directory and the marker stay and the daemon
\* runs.  Three exceptions: a file dropped as idle whose length has not changed
\* since the drop, an untracked file that discover does not list (older than
\* FRESH_WINDOW, or not among the MAX_FILES newest), and a file with the
\* identity of an earlier one.
LinesForwarded ==
  \A f \in File, g \in 1..MaxGeneration, i \in 1..MaxLines :
    /\ f \in exists /\ gen[f] = g /\ ~Reused(f) /\ cursors[f] # None /\ cursors[f].gen = g
    /\ from[f] < i /\ i <= lines[f]
    ~> \/ <<f, g, i>> \in sent
       \/ f \notin Reachable \/ gen[f] # g
       \/ ~marker \/ pc = "down"
       \/ tracked[f] = None /\ f \notin recent
       \/ idle[f] = Length(f)
=============================================================================
