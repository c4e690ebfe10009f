-------------------------- MODULE CodexTailProofs --------------------------
(***************************************************************************)
(* The codex watcher for every set of files, every read window and every   *)
(* number of crashes: no cursor passes an unforwarded line, lines are      *)
(* forwarded complete and in order, and what a scan without the marker has *)
(* passed over is never read.                                              *)
(***************************************************************************)
EXTENDS CodexTail, TLAPS

-----------------------------------------------------------------------------
(* The strengthening. *)

\* Every cursor there is for a path.
Held(f) ==
  ({tracked[f], cursors[f], saved[f]} \cup (IF at = f THEN {read} ELSE {})) \ {None}

\* Cursors lie within the file they belong to.
CursorsWithin ==
  \A f \in File : \A c \in Held(f) :
    /\ c.ino <= c.gen /\ c.gen <= gen[f]
    /\ c.gen = gen[f] => c.ino = ino[f] /\ c.offset <= lines[f]

\* So do the lines that were forwarded or passed over.
LinesWithin ==
  \A f \in File, g \in Nat, i \in Nat :
    <<f, g, i>> \in sent \cup hidden => g <= gen[f] /\ (g = gen[f] => i <= lines[f])

\* A hidden line of the current file lies behind every cursor for its path.
FollowedClean ==
  \A f \in File : \A c \in Held(f) : \A i \in Nat :
    Line(f, i) \in hidden => c.gen = gen[f] /\ i <= c.offset

\* A new file has no hidden lines.
FreshClean == \A f \in fresh : \A i \in Nat : Line(f, i) \notin hidden

\* Cursors in memory are never behind the saved ones, nor ahead of the
\* tracked ones; there are none in memory while the daemon is down.
CursorAges ==
  /\ pc = "down" => tracked = NoCursors /\ cursors = NoCursors
  /\ \A f \in File :
       /\ pc # "down" /\ saved[f] # None => cursors[f] # None /\ saved[f].gen <= cursors[f].gen
       /\ tracked[f] # None /\ cursors[f] # None => cursors[f].gen <= tracked[f].gen
       /\ pc = "forward" /\ at = f => tracked[f].gen <= read.gen

\* The line in hand follows lines that were forwarded.
Progress ==
  pc = "forward" =>
    /\ next >= 1 /\ next <= read.offset + 1
    /\ read.gen = gen[at] /\ ~Reused(at) =>
         \A i \in (from[at] + 1)..(next - 1) : Line(at, i) \in sent

\* The forwarded lines of the current file have no gap after from.
NoGaps ==
  \A f \in File, i \in Nat :
    ~Reused(f) /\ i >= from[f] + 2 /\ Line(f, i) \in sent => Line(f, i - 1) \in sent

\* As long as some cursor is of an older file, the current one is followed
\* from its first line, without a gap.
StaleMeansZero ==
  \A f \in File : \A c \in Held(f) : c.gen # gen[f] /\ ~Reused(f) =>
    /\ \A d \in Held(f) : d.gen = gen[f] => from[f] = 0
    /\ \A i \in Nat : i >= 2 /\ Line(f, i) \in sent => Line(f, i - 1) \in sent

\* Nothing of a new file is forwarded before it has a cursor.
FreshUnsent ==
  \A f \in fresh \cap exists : cursors[f] = None /\ at # f =>
    \A i \in Nat : Line(f, i) \notin sent

Core ==
  /\ TypeOK
  /\ CursorsWithin
  /\ LinesWithin
  /\ FollowedClean
  /\ FreshClean
  /\ CursorAges
  /\ Progress
  /\ NoGaps
  /\ StaleMeansZero
  /\ FreshUnsent
  /\ CursorsOnlyPassForwarded
  /\ HistoryStaysHidden

\* Cursors are records, and None is not a path.
LEMMA HeldAreCursors ==
  ASSUME TypeOK
  PROVE  /\ \A f \in File : Held(f) \subseteq Cursor
         /\ pc # "forward" => \A f \in File : at # f
  BY NoneApart DEF TypeOK, Held

-----------------------------------------------------------------------------
(* The environment. *)

\* A new file has a generation no cursor and no line has had before.
LEMMA CreateHolds == \A f \in File : Core /\ Create(f) => Core'
<1> SUFFICES ASSUME NEW f \in File, Core, Create(f) PROVE Core'
  OBVIOUS
<1>1. PICK j \in 1..(gen[f] + 1) : ino' = [ino EXCEPT ![f] = j]
  BY DEF Create
<1>2. TypeOK'
  <2>1. /\ gen' \in [File -> Nat] /\ ino' \in [File -> Nat]
        /\ \A h \in File : ino'[h] <= gen'[h]
    BY <1>1 DEF Core, Create, TypeOK
  <2>2. sent' \subseteq sent /\ hidden' \subseteq hidden
    BY DEF Create
  <2> QED
    BY <2>1, <2>2 DEF Core, Create, TypeOK, env, loop
<1>3. /\ \A h \in File : Held(h)' = Held(h) /\ Held(h) \subseteq Cursor
      /\ gen[f] \in Nat /\ gen'[f] = gen[f] + 1 /\ lines'[f] = 0
      /\ \A h \in File \ {f} : gen'[h] = gen[h] /\ ino'[h] = ino[h] /\ lines'[h] = lines[h]
  BY <1>1, HeldAreCursors DEF Core, Create, TypeOK, Held, loop
<1>4. \A c \in Held(f) : c.gen \in Nat /\ c.ino <= c.gen /\ c.gen <= gen[f] /\ c.gen # gen'[f]
  BY <1>3 DEF Core, CursorsWithin, Cursor
<1>5. /\ UNCHANGED <<tracked, cursors, saved, pc, at, next, read, from>>
      /\ fresh' = fresh \cup {f} /\ exists' = exists \cup {f}
  BY DEF Create, env, loop
<1>6. \A h \in File, g \in Nat, i \in Nat :
        /\ <<h, g, i>> \in sent' <=> h # f /\ <<h, g, i>> \in sent
        /\ <<h, g, i>> \in hidden' <=> h # f /\ <<h, g, i>> \in hidden
  BY DEF Create
<1>7. \A h \in File, i \in Nat :
        /\ <<h, gen'[h], i>> \in sent' <=> h # f /\ Line(h, i) \in sent
        /\ <<h, gen'[h], i>> \in hidden' <=> h # f /\ Line(h, i) \in hidden
  BY <1>2, <1>3, <1>6 DEF TypeOK, Line
<1>8. CursorsWithin'
  BY <1>3, <1>4 DEF Core, CursorsWithin
<1>9. LinesWithin'
  BY <1>3, <1>6 DEF Core, LinesWithin
<1>10. FollowedClean'
  BY <1>3, <1>7 DEF Core, FollowedClean, Line
<1>11. FreshClean'
  BY <1>5, <1>7 DEF Core, FreshClean, Line, TypeOK
<1>12. CursorAges'
  BY <1>5 DEF Core, CursorAges, NoCursors
<1>13. \A h \in File \ {f} : Reused(h)' = Reused(h)
  BY <1>3 DEF Reused
<1>14. Progress'
  <2> SUFFICES ASSUME pc = "forward", read.gen = gen'[at], ~Reused(at)',
                      NEW i \in (from[at] + 1)..(next - 1)
               PROVE  <<at, gen'[at], i>> \in sent'
    BY <1>5 DEF Core, Progress, Line
  <2>1. at \in File /\ read \in Held(at) /\ i \in Nat
    BY NoneApart DEF Core, TypeOK, Held
  <2>2. at # f
    BY <1>4, <2>1
  <2> QED
    <3>1. gen'[at] = gen[at] /\ ~Reused(at)
      BY <1>3, <1>5, <2>1, <2>2 DEF Reused
    <3>2. Line(at, i) \in sent
      BY <3>1 DEF Core, Progress
    <3> QED
      BY <1>7, <2>1, <2>2, <3>2
<1>15. NoGaps'
  <2> SUFFICES ASSUME NEW h \in File, NEW i \in Nat, ~Reused(h)', i >= from[h] + 2,
                      <<h, gen'[h], i>> \in sent'
               PROVE  <<h, gen'[h], i - 1>> \in sent'
    BY <1>5 DEF NoGaps, Line
  <2>1. h # f /\ Line(h, i) \in sent /\ ~Reused(h) /\ i - 1 \in Nat
    BY <1>7, <1>13 DEF Core, TypeOK
  <2> QED
    BY <1>7, <2>1 DEF Core, NoGaps
<1>16. StaleMeansZero'
  <2> SUFFICES ASSUME NEW h \in File, NEW c \in Held(h), c.gen # gen'[h], ~Reused(h)'
               PROVE  /\ \A d \in Held(h) : d.gen = gen'[h] => from[h] = 0
                      /\ \A i \in Nat : i >= 2 /\ <<h, gen'[h], i>> \in sent' =>
                                          <<h, gen'[h], i - 1>> \in sent'
    BY <1>3, <1>5 DEF StaleMeansZero, Line
  <2>1. CASE h = f
    BY <1>4, <1>7, <2>1
  <2>2. CASE h # f
    <3>1. c.gen # gen[h] /\ ~Reused(h)
      BY <1>3, <1>13, <2>2
    <3>2. /\ \A d \in Held(h) : d.gen = gen[h] => from[h] = 0
          /\ \A i \in Nat : i >= 2 /\ Line(h, i) \in sent => Line(h, i - 1) \in sent
      BY <3>1 DEF Core, StaleMeansZero
    <3>3. \A i \in Nat : i >= 2 => i - 1 \in Nat
      OBVIOUS
    <3> QED
      BY <1>3, <1>7, <2>2, <3>2, <3>3
  <2> QED
    BY <2>1, <2>2
<1>17. FreshUnsent'
  <2> SUFFICES ASSUME NEW h \in fresh' \cap exists', cursors[h] = None, at # h, NEW i \in Nat
               PROVE  <<h, gen'[h], i>> \notin sent'
    BY <1>5 DEF FreshUnsent, Line
  <2>1. h \in File /\ (h = f \/ h \in fresh \cap exists)
    BY <1>5 DEF Core, TypeOK
  <2> QED
    BY <1>7, <2>1 DEF Core, FreshUnsent
<1>18. CursorsOnlyPassForwarded'
  <2> SUFFICES ASSUME NEW h \in File, ~Reused(h)',
                      NEW c \in {tracked[h], cursors[h], saved[h]} \ {None},
                      c.gen = gen'[h], NEW i \in (from[h] + 1)..c.offset
               PROVE  <<h, gen'[h], i>> \in sent'
    BY <1>5 DEF CursorsOnlyPassForwarded, Line
  <2>1. c \in Held(h)
    BY DEF Held
  <2>2. h # f
    BY <1>4, <2>1
  <2>3. i \in Nat
    BY DEF Core, TypeOK
  <2> QED
    BY <1>3, <1>7, <1>13, <2>2, <2>3 DEF Core, CursorsOnlyPassForwarded
<1>19. HistoryStaysHidden'
  <2>1. hidden' \subseteq hidden
    BY DEF Create
  <2> QED
    BY <1>5, <2>1 DEF Core, HistoryStaysHidden
<1> QED
  BY <1>2, <1>8, <1>9, <1>10, <1>11, <1>12, <1>14, <1>15, <1>16, <1>17, <1>18, <1>19 DEF Core

\* A step that moves no cursor and no line.
LEMMA Untouched ==
  ASSUME Core, TypeOK', exists' \subseteq exists,
         UNCHANGED <<gen, ino, lines, pc, fresh, tracked, cursors, saved>>,
         UNCHANGED <<at, next, read, sent, hidden, from>>
  PROVE  Core'
<1>1. CursorsWithin' /\ FollowedClean' /\ StaleMeansZero'
  BY DEF Core, CursorsWithin, FollowedClean, StaleMeansZero, Held, Line, Reused
<1>2. LinesWithin' /\ FreshClean' /\ NoGaps' /\ FreshUnsent'
  BY DEF Core, LinesWithin, FreshClean, NoGaps, FreshUnsent, Line, Reused
<1>3. CursorAges' /\ Progress' /\ HistoryStaysHidden'
  BY DEF Core, CursorAges, Progress, HistoryStaysHidden, Line, Reused
<1>4. CursorsOnlyPassForwarded'
  BY DEF Core, CursorsOnlyPassForwarded, Line, Reused
<1> QED
  BY <1>1, <1>2, <1>3, <1>4 DEF Core

\* Removing a file.
LEMMA RemoveHolds == \A f \in File : Core /\ Remove(f) => Core'
<1> SUFFICES ASSUME NEW f \in File, Core, Remove(f) PROVE Core'
  OBVIOUS
<1>1. TypeOK'
  BY DEF Core, Remove, TypeOK, env, memory, loop, history
<1> QED
  BY <1>1, Untouched DEF Remove, env, memory, loop, history

\* Adding or removing the marker.
LEMMA ToggleHolds == Core /\ ToggleMarker => Core'
<1> SUFFICES ASSUME Core, ToggleMarker PROVE Core'
  OBVIOUS
<1>1. toggles' \in 0..MaxToggle
  BY BoundType DEF Core, ToggleMarker, TypeOK
<1>2. marker' \in BOOLEAN
  BY Zenon DEF ToggleMarker
<1>3. TypeOK'
  BY <1>1, <1>2, Zenon DEF Core, ToggleMarker, TypeOK, disk, memory, loop, history
<1> QED
  BY <1>3, Untouched DEF ToggleMarker, disk, memory, loop, history

\* The sessions directory going or coming back.
LEMMA ToggleDirHolds == Core /\ ToggleDir => Core'
<1> SUFFICES ASSUME Core, ToggleDir PROVE Core'
  OBVIOUS
<1>1. toggles' \in 0..MaxToggle
  BY BoundType DEF Core, ToggleDir, TypeOK
<1>2. dir' \in BOOLEAN
  BY Zenon DEF ToggleDir
<1>3. TypeOK'
  BY <1>1, <1>2, Zenon DEF Core, ToggleDir, TypeOK, disk, memory, loop, history
<1> QED
  BY <1>3, Untouched DEF ToggleDir, disk, memory, loop, history

\* A file that discover begins or ceases to list.
LEMMA RecencyHolds == \A f \in File : Core /\ Recency(f) => Core'
<1> SUFFICES ASSUME NEW f \in File, Core, Recency(f) PROVE Core'
  OBVIOUS
<1>1. TypeOK'
  BY DEF Core, Recency, TypeOK, env, memory, loop, history
<1> QED
  BY <1>1, Untouched DEF Recency, env, memory, loop, history

\* A file only grows.
LEMMA AppendHolds == \A f \in File : Core /\ Append(f) => Core'
<1> SUFFICES ASSUME NEW f \in File, Core, Append(f) PROVE Core'
  OBVIOUS
<1>1. TypeOK'
  <2>1. lines' \in [File -> Nat] /\ half' \subseteq File
    BY DEF Core, Append, TypeOK
  <2> QED
    BY <2>1 DEF Core, Append, TypeOK, Cursor, disk, env, memory, loop, history
<1>2. /\ UNCHANGED <<gen, ino, exists, pc, fresh, tracked, cursors, saved>>
      /\ UNCHANGED <<at, next, read, sent, hidden, from>>
  BY DEF Append, env, memory, loop, history
<1>3. \A h \in File : lines[h] \in Nat /\ lines'[h] \in Nat /\ lines[h] <= lines'[h]
  BY DEF Core, Append, TypeOK
<1>4. \A h \in File : Held(h)' = Held(h) /\ Held(h) \subseteq Cursor
  BY <1>2, HeldAreCursors DEF Core, Held
<1>5. CursorsWithin'
  BY <1>2, <1>3, <1>4 DEF Core, CursorsWithin, Cursor
<1>6. LinesWithin'
  BY <1>2, <1>3 DEF Core, LinesWithin
<1>7. FollowedClean' /\ StaleMeansZero'
  BY <1>2, <1>4 DEF Core, FollowedClean, StaleMeansZero, Line, Reused
<1>8. FreshClean' /\ NoGaps' /\ FreshUnsent'
  BY <1>2 DEF Core, FreshClean, NoGaps, FreshUnsent, Line, Reused
<1>9. CursorAges' /\ Progress' /\ HistoryStaysHidden'
  BY <1>2 DEF Core, CursorAges, Progress, HistoryStaysHidden, Line, Reused
<1>10. CursorsOnlyPassForwarded'
  BY <1>2 DEF Core, CursorsOnlyPassForwarded, Line, Reused
<1> QED
  BY <1>1, <1>5, <1>6, <1>7, <1>8, <1>9, <1>10 DEF Core

\* Steps that leave the disk and the history alone and hold no new cursor.
LEMMA FewerCursors ==
  ASSUME Core, TypeOK',
         UNCHANGED <<gen, ino, lines, exists, sent, hidden, from>>,
         \A f \in File : Held(f)' \subseteq Held(f),
         \A f \in File : {tracked'[f], cursors'[f], saved'[f]} \subseteq
                           {tracked[f], cursors[f], saved[f], None},
         CursorAges', Progress', FreshUnsent', HistoryStaysHidden',
         fresh' \subseteq fresh
  PROVE  Core'
<1>1. CursorsWithin' /\ LinesWithin' /\ FollowedClean' /\ StaleMeansZero'
  BY DEF Core, CursorsWithin, LinesWithin, FollowedClean, StaleMeansZero, Line, Reused
<1>2. FreshClean' /\ NoGaps'
  BY DEF Core, FreshClean, NoGaps, Line, Reused
<1>3. CursorsOnlyPassForwarded'
  <2> SUFFICES ASSUME NEW f \in File, ~Reused(f), NEW c \in {tracked'[f], cursors'[f], saved'[f]} \ {None},
                      c.gen = gen[f], NEW i \in (from[f] + 1)..c.offset
               PROVE  Line(f, i) \in sent
    BY DEF CursorsOnlyPassForwarded, Line, Reused
  <2>1. c \in {tracked[f], cursors[f], saved[f]} \ {None}
    OBVIOUS
  <2> QED
    BY <2>1 DEF Core, CursorsOnlyPassForwarded, Reused
<1> QED
  BY <1>1, <1>2, <1>3 DEF Core

\* A crash forgets every cursor but the saved ones.
LEMMA CrashHolds == Core /\ Crash => Core'
<1> SUFFICES ASSUME Core, Crash PROVE Core'
  OBVIOUS
<1>1. /\ UNCHANGED <<gen, ino, lines, exists, sent, hidden, from, saved>>
      /\ pc' = "down" /\ at' = None /\ fresh' = {}
      /\ \A f \in File : tracked'[f] = None /\ cursors'[f] = None
      /\ tracked' = NoCursors /\ cursors' = NoCursors
  BY DEF Crash, disk, history, NoCursors
<1>2. TypeOK'
  <2>1. tracked' \in [File -> Cursor \cup {None}] /\ cursors' \in [File -> Cursor \cup {None}]
        /\ idle' \in [File -> Nat \cup {None}]
    BY DEF Crash, NoCursors
  <2>2. crashes' \in 0..MaxCrash
    BY BoundType DEF Core, Crash, TypeOK
  <2>3. pass' = {} /\ busy' = {} /\ next' = 0 /\ 0 \in Nat /\ changed' = FALSE /\ fresh' = {}
    BY DEF Crash
  <2> QED
    BY <1>1, <2>1, <2>2, <2>3 DEF Core, Crash, TypeOK, disk, history
<1>3. \A f \in File : Held(f)' \subseteq Held(f)
  BY <1>1, NoneApart DEF Held
<1>4. CursorAges' /\ Progress' /\ FreshUnsent' /\ HistoryStaysHidden'
  BY <1>1 DEF CursorAges, Progress, FreshUnsent, HistoryStaysHidden, Reused
<1> QED
  BY <1>1, <1>2, <1>3, <1>4, FewerCursors

\* A restart loads the saved cursors.
LEMMA BootHolds == Core /\ Boot => Core'
<1> SUFFICES ASSUME Core, Boot PROVE Core'
  OBVIOUS
<1>1. /\ UNCHANGED <<gen, ino, lines, exists, sent, hidden, from, saved, tracked, at, read>>
      /\ cursors' = saved /\ fresh' = {} /\ pc = "down" /\ pc' = "sleep"
  BY DEF Boot, disk, loop, history
<1>2. TypeOK'
  BY DEF Core, Boot, TypeOK, disk, env, loop, history
<1>3. \A f \in File : Held(f)' \subseteq Held(f)
  BY <1>1 DEF Held
<1>4. \A f \in File : tracked[f] = None
  BY <1>1 DEF Core, CursorAges, NoCursors
<1>5. CursorAges'
  <2>1. \A f \in File : saved[f] # None => saved[f] \in Cursor
    BY DEF Core, TypeOK
  <2> QED
    BY <1>1, <1>4, <2>1 DEF CursorAges, Cursor
<1>6. Progress' /\ FreshUnsent' /\ HistoryStaysHidden'
  BY <1>1 DEF Progress, FreshUnsent, HistoryStaysHidden, Reused
<1> QED
  BY <1>1, <1>2, <1>3, <1>5, <1>6, FewerCursors

-----------------------------------------------------------------------------
(* The scans. *)

\* A scan without the marker leaves no cursor: whatever the cursor file
\* holds, memory holds a cursor for the same path.
LEMMA ScanOffHolds == Core /\ ScanOff => Core'
<1> SUFFICES ASSUME Core, ScanOff PROVE Core'
  OBVIOUS
<1>1. /\ UNCHANGED <<gen, ino, lines, exists, sent, from, pc, at, read>>
      /\ pc = "sleep" /\ fresh' = {} /\ hidden' = hidden \cup OnDisk
  BY DEF ScanOff, disk, loop
<1>2. tracked' = NoCursors /\ cursors' = NoCursors /\ saved' = NoCursors
  <2>1. CASE tracked # NoCursors \/ cursors # NoCursors
    BY <2>1 DEF ScanOff
  <2>2. CASE tracked = NoCursors /\ cursors = NoCursors
    <3>1. \A f \in File : saved[f] = None
      BY <1>1, <2>2 DEF Core, CursorAges, NoCursors
    <3>2. saved \in [File -> Cursor \cup {None}]
      BY DEF Core, TypeOK
    <3>3. saved = NoCursors
      BY <3>1, <3>2 DEF NoCursors
    <3> QED
      BY <2>2, <3>3 DEF ScanOff
  <2> QED
    BY <2>1, <2>2
<1>3. \A f \in File : tracked'[f] = None /\ cursors'[f] = None /\ saved'[f] = None
  BY <1>1, <1>2 DEF NoCursors
<1>4. \A f \in File : Held(f)' = {}
  BY <1>1, <1>3, HeldAreCursors DEF Core, Held
<1>5. /\ hidden' \subseteq File \X Nat \X Nat
      /\ \A f \in File, g \in Nat, i \in Nat :
           <<f, g, i>> \in OnDisk => g = gen[f] /\ i <= lines[f]
  <2>1. OnDisk \subseteq File \X Nat \X Nat
    BY DEF Core, TypeOK, OnDisk, Line
  <2> QED
    BY <1>1, <2>1 DEF Core, TypeOK, OnDisk, Line
<1>6. TypeOK'
  <2>1. /\ tracked' \in [File -> Cursor \cup {None}] /\ cursors' \in [File -> Cursor \cup {None}]
        /\ saved' \in [File -> Cursor \cup {None}] /\ idle' \in [File -> Nat \cup {None}]
    BY <1>1, <1>2 DEF Core, TypeOK, ScanOff, NoCursors
  <2>2. pass = {}
    BY <1>1 DEF Core, TypeOK
  <2> QED
    BY <1>1, <1>5, <2>1, <2>2 DEF Core, ScanOff, TypeOK, disk, env, loop
<1>7. CursorsWithin' /\ FollowedClean' /\ StaleMeansZero'
  BY <1>4 DEF CursorsWithin, FollowedClean, StaleMeansZero, Reused
<1>8. LinesWithin'
  BY <1>1, <1>5 DEF Core, LinesWithin, TypeOK
<1>9. FreshClean' /\ FreshUnsent' /\ Progress' /\ HistoryStaysHidden' /\ NoGaps'
  BY <1>1 DEF Core, FreshClean, FreshUnsent, Progress, HistoryStaysHidden, NoGaps, Line, Reused
<1>10. CursorAges'
  BY <1>1, <1>3 DEF CursorAges
<1>11. CursorsOnlyPassForwarded'
  BY <1>3 DEF CursorsOnlyPassForwarded, Reused
<1> QED
  BY <1>6, <1>7, <1>8, <1>9, <1>10, <1>11 DEF Core

\* resolve keeps a cursor of the current file and restarts any other at 0,
\* unless the current file has the identity of that one.
LEMMA Resolved ==
  ASSUME TypeOK, NEW f \in File, NEW c \in Cursor,
         c.ino <= c.gen, c.gen <= gen[f],
         c.gen = gen[f] => c.ino = ino[f] /\ c.offset <= lines[f]
  PROVE  /\ Resolve(c, f) \in Cursor
         /\ Resolve(c, f).gen = gen[f]
         /\ Resolve(c, f).ino = ino[f]
         /\ Resolve(c, f).offset <= lines[f]
         /\ c.gen = gen[f] => Resolve(c, f) = c
         /\ c.gen # gen[f] => /\ c.gen < gen[f] /\ Resolve(c, f) # c
                              /\ ~Reused(f) => Resolve(c, f).offset = 0
<1>1. /\ gen[f] \in Nat /\ ino[f] \in Nat /\ lines[f] \in Nat
      /\ c.gen \in Nat /\ c.ino \in Nat /\ c.offset \in Nat
  BY DEF TypeOK, Cursor
<1>2. CASE c.ino = ino[f] /\ c.offset <= lines[f]
  <2>1. Resolve(c, f) = [c EXCEPT !.gen = gen[f]]
    BY <1>2 DEF Resolve
  <2>2. /\ Resolve(c, f) \in Cursor /\ Resolve(c, f).gen = gen[f]
        /\ Resolve(c, f).ino = c.ino /\ Resolve(c, f).offset = c.offset
    BY <1>1, <2>1 DEF Cursor
  <2>3. c.gen = gen[f] => Resolve(c, f) = c
    BY <2>1 DEF Cursor
  <2>4. c.gen # gen[f] => Reused(f) /\ c.gen < gen[f]
    BY <1>1, <1>2 DEF Reused
  <2> QED
    BY <1>2, <2>2, <2>3, <2>4
<1>3. CASE ~(c.ino = ino[f] /\ c.offset <= lines[f])
  <2>1. Resolve(c, f) = [gen |-> gen[f], ino |-> ino[f], offset |-> 0]
    BY <1>3 DEF Resolve
  <2> QED
    BY <1>1, <1>3, <2>1 DEF Cursor
<1> QED
  BY <1>2, <1>3

\* Where following a found file begins: at the cursor there is, at the
\* beginning of a file newer than the cursor, or there is no cursor at all.
LEMMA Started ==
  ASSUME Core, pc = "sleep", NEW f \in Found
  PROVE  /\ f \in File /\ f \in exists /\ tracked[f] = None
         /\ StartCursor(f) \in Cursor
         /\ StartCursor(f).gen = gen[f]
         /\ StartCursor(f).ino = ino[f]
         /\ StartCursor(f).offset <= lines[f]
         /\ \/ cursors[f] # None /\ StartCursor(f) = cursors[f] /\ StartFrom(f) = from[f]
            \/ /\ cursors[f] # None /\ cursors[f].gen < gen[f]
               /\ StartCursor(f) # cursors[f] /\ StartFrom(f) = 0
               /\ ~Reused(f) => StartCursor(f).offset = 0
            \/ /\ Held(f) = {} /\ cursors[f] = None /\ StartFrom(f) = StartCursor(f).offset
               /\ f \in fresh => StartCursor(f).offset = 0
               /\ f \notin fresh => StartCursor(f).offset = lines[f]
<1>1. f \in File /\ f \in exists /\ tracked[f] = None
  BY DEF Found, Core, TypeOK
<1>2. gen[f] \in Nat /\ ino[f] \in Nat /\ lines[f] \in Nat
  BY <1>1 DEF Core, TypeOK
<1>3. CASE cursors[f] # None
  <2>1. cursors[f] \in Held(f) /\ cursors[f] \in Cursor /\ StartCursor(f) = Resolve(cursors[f], f)
    BY <1>1, <1>3 DEF Held, StartCursor, Core, TypeOK
  <2>2. /\ cursors[f].ino <= cursors[f].gen /\ cursors[f].gen <= gen[f]
        /\ cursors[f].gen = gen[f] => cursors[f].ino = ino[f] /\ cursors[f].offset <= lines[f]
    BY <1>1, <2>1 DEF Core, CursorsWithin
  <2>3. StartFrom(f) = IF StartCursor(f) = cursors[f] THEN from[f] ELSE 0
    BY <1>3 DEF StartFrom
  <2> QED
    BY <1>1, <1>3, <2>1, <2>2, <2>3, Resolved DEF Core
<1>4. CASE cursors[f] = None
  <2>1. /\ StartCursor(f) = [gen |-> gen[f], ino |-> ino[f],
                             offset |-> IF f \in fresh THEN 0 ELSE lines[f]]
        /\ StartFrom(f) = StartCursor(f).offset
    BY <1>4 DEF StartCursor, StartFrom
  <2>2. saved[f] = None
    BY <1>1, <1>4 DEF Core, CursorAges
  <2>3. Held(f) = {}
    BY <1>1, <1>4, <2>2, HeldAreCursors DEF Core, Held
  <2> QED
    BY <1>1, <1>2, <1>4, <2>1, <2>3 DEF Cursor
<1> QED
  BY <1>3, <1>4

\* A scan with the marker.
LEMMA ScanHolds == Core /\ Scan => Core'
<1> SUFFICES ASSUME Core, Scan PROVE Core'
  OBVIOUS
<1>1. /\ UNCHANGED <<gen, ino, lines, exists, half, recent, dir, marker, toggles, crashes>>
      /\ UNCHANGED <<sent, hidden, fresh, at, next, read, busy, changed>>
      /\ pc = "sleep" /\ pc' = "tail"
  BY DEF Scan, disk, env
<1>2. \A f \in File :
        /\ tracked'[f] = IF f \in Found THEN StartCursor(f) ELSE tracked[f]
        /\ cursors'[f] = IF f \in exists THEN cursors[f] ELSE None
        /\ saved'[f] \in {cursors'[f], saved[f]}
        /\ saved'[f] # cursors'[f] => saved'[f] = saved[f] /\ cursors'[f] = cursors[f]
        /\ from'[f] = IF f \in Found THEN StartFrom(f) ELSE from[f]
  BY DEF Scan
<1>3. \A f \in File : at # f
  BY <1>1, HeldAreCursors DEF Core
<1>4. \A f \in File : Held(f)' \subseteq Held(f) \cup (IF f \in Found THEN {StartCursor(f)} ELSE {})
  BY <1>1, <1>2, <1>3 DEF Held
<1>5. \A f \in File : /\ gen[f] \in Nat /\ lines[f] \in Nat
                      /\ cursors[f] # None => cursors[f] \in Held(f)
  BY DEF Core, TypeOK, Held
<1>6. TypeOK'
  <2>1. \A f \in Found : StartCursor(f) \in Cursor /\ StartFrom(f) \in Nat
    BY <1>1, Started DEF Cursor, Core, TypeOK
  <2>2. tracked' \in [File -> Cursor \cup {None}] /\ from' \in [File -> Nat]
    BY <2>1 DEF Scan, Core, TypeOK
  <2>3. cursors' \in [File -> Cursor \cup {None}] /\ idle' \in [File -> Nat \cup {None}]
    BY DEF Scan, Core, TypeOK
  <2>4. saved' \in [File -> Cursor \cup {None}]
    BY <2>3 DEF Scan, Core, TypeOK
  <2>5. pass' = {f \in File : tracked'[f] # None}
    BY DEF Scan
  <2> QED
    BY <1>1, <2>2, <2>3, <2>4, <2>5 DEF Core, TypeOK
<1>7. CursorsWithin'
  <2>1. \A f \in File : ino[f] <= gen[f]
    BY DEF Core, TypeOK
  <2> QED
    BY <1>1, <1>4, <1>5, <2>1, Started DEF Core, CursorsWithin
<1>8. LinesWithin' /\ FreshClean' /\ Progress' /\ HistoryStaysHidden'
  BY <1>1 DEF Core, LinesWithin, FreshClean, Progress, HistoryStaysHidden, Line, Reused
<1>9. FollowedClean'
  <2> SUFFICES ASSUME NEW f \in File, NEW c \in Held(f)', NEW i \in Nat, Line(f, i) \in hidden
               PROVE  c.gen = gen[f] /\ i <= c.offset
    BY <1>1 DEF FollowedClean, Line
  <2>1. CASE c \in Held(f)
    BY <2>1 DEF Core, FollowedClean
  <2>2. CASE f \in Found /\ c = StartCursor(f)
    <3>1. i <= lines[f]
      BY <1>5 DEF Core, LinesWithin, Line
    <3>2. cursors[f] # None => cursors[f].gen = gen[f] /\ i <= cursors[f].offset
      BY <1>5 DEF Core, FollowedClean
    <3>3. f \notin fresh
      BY DEF Core, FreshClean
    <3> QED
      BY <1>1, <1>5, <2>2, <3>1, <3>2, <3>3, Started
  <2> QED
    BY <1>4, <2>1, <2>2
<1>10. CursorAges'
  <2> SUFFICES ASSUME NEW f \in File
               PROVE  /\ saved'[f] # None => cursors'[f] # None /\ saved'[f].gen <= cursors'[f].gen
                      /\ tracked'[f] # None /\ cursors'[f] # None => cursors'[f].gen <= tracked'[f].gen
    BY <1>1 DEF CursorAges
  <2>1. saved'[f] # None => cursors'[f] # None /\ saved'[f].gen <= cursors'[f].gen
    <3>1. cursors'[f] # None => cursors'[f] \in Cursor
      BY <1>6 DEF TypeOK
    <3> QED
      BY <1>1, <1>2, <3>1 DEF Core, CursorAges, Cursor
  <2>2. tracked'[f] # None /\ cursors'[f] # None => cursors'[f].gen <= tracked'[f].gen
    <3>1. cursors[f] # None => cursors[f].gen <= gen[f]
      BY <1>5 DEF Core, CursorsWithin
    <3> QED
      BY <1>1, <1>2, <3>1, Started DEF Core, CursorAges
  <2> QED
    BY <2>1, <2>2
<1>11. NoGaps'
  <2> SUFFICES ASSUME NEW f \in File, ~Reused(f), NEW i \in Nat, i >= from'[f] + 2, Line(f, i) \in sent
               PROVE  Line(f, i - 1) \in sent
    BY <1>1 DEF NoGaps, Line, Reused
  <2>1. CASE from'[f] = from[f]
    BY <2>1 DEF Core, NoGaps, Reused
  <2>2. CASE f \in Found /\ cursors[f] # None /\ cursors[f].gen < gen[f] /\ from'[f] = 0
    <3>1. cursors[f] \in Held(f) /\ cursors[f].gen # gen[f] /\ i >= 2
      BY <1>2, <1>5, <2>2, HeldAreCursors DEF Core, Cursor
    <3> QED
      BY <3>1 DEF Core, StaleMeansZero, Reused
  <2>3. CASE f \in Found /\ cursors[f] = None
    <3>1. f \notin fresh
      BY <1>1, <1>3, <2>3, Started DEF Core, FreshUnsent
    <3>2. i <= lines[f]
      BY <1>5 DEF Core, LinesWithin, Line
    <3>3. from'[f] = lines[f]
      BY <1>1, <1>2, <2>3, <3>1, Started
    <3> QED
      BY <1>5, <3>2, <3>3
  <2> QED
    BY <1>1, <1>2, <2>1, <2>2, <2>3, Started
<1>12. StaleMeansZero'
  <2> SUFFICES ASSUME NEW f \in File, NEW c \in Held(f)', c.gen # gen[f], ~Reused(f)
               PROVE  /\ \A d \in Held(f)' : d.gen = gen[f] => from'[f] = 0
                      /\ \A i \in Nat : i >= 2 /\ Line(f, i) \in sent => Line(f, i - 1) \in sent
    BY <1>1 DEF StaleMeansZero, Line, Reused
  <2>1. c \in Held(f)
    BY <1>1, <1>4, Started
  <2>2. \A i \in Nat : i >= 2 /\ Line(f, i) \in sent => Line(f, i - 1) \in sent
    BY <2>1 DEF Core, StaleMeansZero, Reused
  <2>3. \A d \in Held(f)' : d.gen = gen[f] => from'[f] = 0
    <3>1. CASE from'[f] = from[f] /\ Held(f)' \subseteq Held(f)
      BY <2>1, <3>1 DEF Core, StaleMeansZero, Reused
    <3>2. CASE from'[f] = 0
      BY <3>2
    <3> QED
      BY <1>1, <1>2, <1>4, <1>5, <2>1, <3>1, <3>2, Started
  <2> QED
    BY <2>2, <2>3
<1>13. FreshUnsent'
  <2> SUFFICES ASSUME NEW f \in fresh \cap exists, cursors'[f] = None, NEW i \in Nat
               PROVE  Line(f, i) \notin sent
    BY <1>1 DEF FreshUnsent, Line
  <2>1. f \in File
    BY DEF Core, TypeOK
  <2> QED
    BY <1>2, <1>3, <2>1 DEF Core, FreshUnsent
<1>14. CursorsOnlyPassForwarded'
  <2> SUFFICES ASSUME NEW f \in File, ~Reused(f), NEW c \in {tracked'[f], cursors'[f], saved'[f]} \ {None},
                      c.gen = gen[f], NEW i \in (from'[f] + 1)..c.offset
               PROVE  Line(f, i) \in sent
    BY <1>1 DEF CursorsOnlyPassForwarded, Line, Reused
  <2>1. c \in {tracked[f], cursors[f], saved[f]} \ {None} \/ (f \in Found /\ c = StartCursor(f))
    BY <1>2
  <2>2. CASE from'[f] = from[f] /\ c \in {tracked[f], cursors[f], saved[f]} \ {None}
    BY <2>2 DEF Core, CursorsOnlyPassForwarded, Reused
  <2>3. CASE f \in Found /\ c = StartCursor(f) /\ StartCursor(f) # cursors[f]
    <3>1. from'[f] = c.offset /\ c.offset \in Nat
      BY <1>1, <1>2, <2>3, Started DEF Cursor
    <3> QED
      BY <3>1
  <2>4. CASE /\ f \in Found /\ StartCursor(f) # cursors[f]
             /\ c \in {tracked[f], cursors[f], saved[f]} \ {None}
    <3>1. c \in Held(f) /\ tracked[f] = None
      BY <1>1, <2>4, Started DEF Held
    <3>2. cursors[f] # None /\ cursors[f].gen < gen[f]
      BY <1>1, <2>4, <3>1, Started
    <3>3. c = saved[f] /\ saved[f].gen <= cursors[f].gen
      BY <1>1, <1>5, <2>4, <3>1, <3>2 DEF Core, CursorAges
    <3> QED
      BY <1>5, <3>1, <3>2, <3>3, HeldAreCursors DEF Core, Cursor
  <2>5. CASE f \notin Found \/ StartCursor(f) = cursors[f]
    <3>1. from'[f] = from[f]
      BY <1>1, <1>2, <2>5, NoneApart, Started
    <3> QED
      BY <2>1, <2>2, <2>5, <3>1
  <2> QED
    BY <2>1, <2>3, <2>4, <2>5
<1> QED
  BY <1>6, <1>7, <1>8, <1>9, <1>10, <1>11, <1>12, <1>13, <1>14 DEF Core

\* A pass between two scans only starts to read.
LEMMA StartPassHolds == Core /\ StartPass => Core'
<1> SUFFICES ASSUME Core, StartPass PROVE Core'
  OBVIOUS
<1>1. /\ UNCHANGED <<gen, ino, lines, exists, sent, hidden, from>>
      /\ UNCHANGED <<tracked, cursors, saved, fresh, at, read>>
      /\ pc = "sleep" /\ pc' = "tail"
  BY DEF StartPass, disk, memory, history
<1>2. TypeOK'
  BY DEF Core, StartPass, TypeOK, disk, env, memory, history
<1>3. CursorAges' /\ Progress' /\ FreshUnsent' /\ HistoryStaysHidden'
  BY <1>1 DEF Core, CursorAges, Progress, FreshUnsent, HistoryStaysHidden, Line, Reused
<1>4. \A f \in File : Held(f)' = Held(f)
  BY <1>1 DEF Held
<1> QED
  BY <1>1, <1>2, <1>3, <1>4, FewerCursors

-----------------------------------------------------------------------------
(* The pass over the tracked files. *)

\* A read starts at the tracked cursor, or at 0 of a newer file.
LEMMA ReadFileHolds == \A f \in File : Core /\ ReadFile(f) => Core'
<1> SUFFICES ASSUME NEW f \in File, Core, ReadFile(f) PROVE Core'
  OBVIOUS
<1> DEFINE start == Resolve(tracked[f], f)
           end == ReadEnd(f, start.offset)
<1>1. /\ UNCHANGED <<gen, ino, lines, exists, half, recent, dir, marker, toggles, crashes>>
      /\ UNCHANGED <<fresh, tracked, idle, cursors, saved, sent, hidden>>
      /\ pc = "tail" /\ pc' = "forward" /\ f \in pass /\ pass' = pass \ {f}
      /\ at' = f /\ next' = start.offset + 1
      /\ read' = [gen |-> gen[f], ino |-> ino[f], offset |-> end]
      /\ from' = [from EXCEPT ![f] = IF start = tracked[f] THEN @ ELSE 0]
      /\ busy' \subseteq busy \cup {f}
  BY DEF ReadFile, disk, env, memory
<1>2. /\ gen[f] \in Nat /\ ino[f] \in Nat /\ ino[f] <= gen[f]
      /\ lines[f] \in Nat /\ from[f] \in Nat
      /\ tracked[f] # None /\ tracked[f] \in Cursor /\ tracked[f] \in Held(f)
  BY <1>1 DEF Core, TypeOK, Held
<1>3. /\ tracked[f].ino <= tracked[f].gen /\ tracked[f].gen <= gen[f]
      /\ tracked[f].gen = gen[f] => tracked[f].ino = ino[f] /\ tracked[f].offset <= lines[f]
  BY <1>2 DEF Core, CursorsWithin
<1>4. /\ start \in Cursor /\ start.gen = gen[f] /\ start.offset <= lines[f]
      /\ tracked[f].gen = gen[f] => start = tracked[f]
      /\ tracked[f].gen # gen[f] => /\ tracked[f].gen < gen[f] /\ start # tracked[f]
                                    /\ ~Reused(f) => start.offset = 0
  BY <1>2, <1>3, Resolved DEF Core
<1>5. start.offset \in Nat /\ end \in Nat /\ start.offset <= end /\ end <= lines[f]
  BY <1>2, <1>4, BoundType DEF ReadEnd, Smaller, Cursor
<1> HIDE DEF start, end
<1>6. /\ read' \in Cursor /\ read'.gen = gen[f] /\ read'.ino = ino[f] /\ read'.offset = end
      /\ from'[f] = IF tracked[f].gen = gen[f] THEN from[f] ELSE 0
      /\ \A h \in File \ {f} : from'[h] = from[h]
  BY <1>1, <1>2, <1>4, <1>5 DEF Cursor, Core, TypeOK
<1>7. \A h \in File : at # h
  BY <1>1, HeldAreCursors DEF Core
<1>8. /\ Held(f)' = Held(f) \cup {read'}
      /\ \A h \in File \ {f} : Held(h)' = Held(h)
  BY <1>1, <1>6, <1>7, NoneApart DEF Held
<1>9. TypeOK'
  <2>1. from' \in [File -> Nat] /\ next' \in Nat
    BY <1>1, <1>2, <1>5 DEF Core, TypeOK
  <2>2. changed' \in BOOLEAN
    BY Zenon DEF ReadFile
  <2> QED
    BY <1>1, <1>2, <1>6, <2>1, <2>2 DEF Core, TypeOK
<1>10. CursorsWithin'
  BY <1>1, <1>2, <1>5, <1>6, <1>8 DEF Core, CursorsWithin
<1>11. LinesWithin' /\ FreshClean'
  BY <1>1 DEF Core, LinesWithin, FreshClean, Line
<1>12. \A i \in Nat : Line(f, i) \in hidden => tracked[f].gen = gen[f] /\ i <= start.offset
  BY <1>2, <1>4 DEF Core, FollowedClean
<1>13. FollowedClean'
  <2> SUFFICES ASSUME NEW h \in File, NEW c \in Held(h)', NEW i \in Nat, Line(h, i) \in hidden
               PROVE  c.gen = gen[h] /\ i <= c.offset
    BY <1>1 DEF FollowedClean, Line
  <2>1. CASE c \in Held(h)
    BY <2>1 DEF Core, FollowedClean
  <2>2. CASE h = f /\ c = read'
    BY <1>5, <1>6, <1>12, <2>2
  <2> QED
    BY <1>8, <2>1, <2>2
<1>14. CursorAges'
  <2>1. tracked[f].gen <= read'.gen
    BY <1>3, <1>6
  <2> QED
    BY <1>1, <2>1 DEF Core, CursorAges
<1>15. Progress'
  <2>1. ASSUME ~Reused(f) PROVE \A i \in (from'[f] + 1)..start.offset : Line(f, i) \in sent
    <3>1. CASE tracked[f].gen = gen[f]
      BY <1>2, <1>4, <1>6, <2>1, <3>1 DEF Core, CursorsOnlyPassForwarded
    <3>2. CASE tracked[f].gen # gen[f]
      BY <1>4, <1>6, <2>1, <3>2
    <3> QED
      BY <3>1, <3>2
  <2>2. start.offset + 1 >= 1 /\ start.offset + 1 <= end + 1 /\ (start.offset + 1) - 1 = start.offset
    BY <1>5
  <2> QED
    BY <1>1, <1>6, <2>1, <2>2 DEF Progress, Line, Reused
<1>16. NoGaps'
  <2> SUFFICES ASSUME NEW h \in File, ~Reused(h), NEW i \in Nat, i >= from'[h] + 2, Line(h, i) \in sent
               PROVE  Line(h, i - 1) \in sent
    BY <1>1 DEF NoGaps, Line, Reused
  <2>1. CASE from'[h] = from[h]
    BY <2>1 DEF Core, NoGaps, Reused
  <2>2. CASE h = f /\ tracked[f].gen # gen[f]
    BY <1>2, <1>6, <2>2 DEF Core, StaleMeansZero, Reused
  <2> QED
    BY <1>6, <2>1, <2>2
<1>17. StaleMeansZero'
  <2> SUFFICES ASSUME NEW h \in File, NEW c \in Held(h)', c.gen # gen[h], ~Reused(h)
               PROVE  /\ \A d \in Held(h)' : d.gen = gen[h] => from'[h] = 0
                      /\ \A i \in Nat : i >= 2 /\ Line(h, i) \in sent => Line(h, i - 1) \in sent
    BY <1>1 DEF StaleMeansZero, Line, Reused
  <2>1. c \in Held(h)
    BY <1>6, <1>8
  <2>2. \A i \in Nat : i >= 2 /\ Line(h, i) \in sent => Line(h, i - 1) \in sent
    BY <2>1 DEF Core, StaleMeansZero, Reused
  <2>3. \A d \in Held(h)' : d.gen = gen[h] => from'[h] = 0
    <3>1. CASE h # f
      BY <1>6, <1>8, <2>1, <3>1 DEF Core, StaleMeansZero, Reused
    <3>2. CASE h = f /\ tracked[f].gen = gen[f]
      BY <1>2, <1>6, <2>1, <3>2 DEF Core, StaleMeansZero, Reused
    <3>3. CASE h = f /\ tracked[f].gen # gen[f]
      BY <1>6, <3>3
    <3> QED
      BY <3>1, <3>2, <3>3
  <2> QED
    BY <2>2, <2>3
<1>18. FreshUnsent'
  BY <1>1, <1>7 DEF Core, FreshUnsent, Line, TypeOK
<1>19. CursorsOnlyPassForwarded'
  <2> SUFFICES ASSUME NEW h \in File, ~Reused(h), NEW c \in {tracked[h], cursors[h], saved[h]} \ {None},
                      c.gen = gen[h], NEW i \in (from'[h] + 1)..c.offset
               PROVE  Line(h, i) \in sent
    BY <1>1 DEF CursorsOnlyPassForwarded, Line, Reused
  <2>1. CASE from'[h] = from[h]
    BY <2>1 DEF Core, CursorsOnlyPassForwarded, Reused
  <2>2. CASE h = f /\ tracked[f].gen # gen[f]
    <3>1. /\ saved[f] # None => cursors[f] # None /\ saved[f].gen <= cursors[f].gen
          /\ cursors[f] # None => cursors[f].gen <= tracked[f].gen
      BY <1>1, <1>2 DEF Core, CursorAges
    <3>2. /\ cursors[f] # None => cursors[f].gen \in Nat
          /\ saved[f] # None => saved[f].gen \in Nat
          /\ tracked[f].gen \in Nat
      BY <1>2 DEF Core, TypeOK, Cursor
    <3> QED
      BY <1>2, <1>4, <2>2, <3>1, <3>2
  <2> QED
    BY <1>6, <2>1, <2>2
<1>20. HistoryStaysHidden'
  <2> SUFFICES ASSUME NEW i \in (start.offset + 1)..end PROVE Line(f, i) \notin hidden
    BY <1>1, <1>6 DEF HistoryStaysHidden, Line
  <2> QED
    BY <1>5, <1>12
<1> QED
  BY <1>9, <1>10, <1>11, <1>13, <1>14, <1>15, <1>16, <1>17, <1>18, <1>19, <1>20 DEF Core

\* A file that cannot be opened changes nothing.
LEMMA ReadFailsHolds == \A f \in File : Core /\ ReadFails(f) => Core'
<1> SUFFICES ASSUME NEW f \in File, Core, ReadFails(f) PROVE Core'
  OBVIOUS
<1>1. TypeOK'
  BY DEF Core, ReadFails, TypeOK, disk, env, memory, history
<1> QED
  BY <1>1, Untouched DEF ReadFails, disk, memory, history

\* The line in hand lies within its file and follows a forwarded one.
LEMMA ForwardLineHolds == Core /\ ForwardLine => Core'
<1> SUFFICES ASSUME Core, ForwardLine PROVE Core'
  OBVIOUS
<1>1. /\ UNCHANGED <<gen, ino, lines, exists, half, recent, dir, marker, toggles, crashes>>
      /\ UNCHANGED <<fresh, tracked, idle, cursors, saved, hidden, from>>
      /\ UNCHANGED <<pc, pass, busy, changed, at, read>>
      /\ pc = "forward" /\ next <= read.offset /\ next' = next + 1
      /\ sent' = sent \cup {<<at, read.gen, next>>}
  BY DEF ForwardLine, disk, env, memory
<1>2. /\ at \in File /\ read \in Cursor /\ read \in Held(at) /\ next \in Nat
      /\ read.gen \in Nat /\ read.offset \in Nat
      /\ \A f \in File : gen[f] \in Nat /\ lines[f] \in Nat /\ from[f] \in Nat
  BY <1>1, NoneApart DEF Core, TypeOK, Held, Cursor
<1>3. /\ next >= 1
      /\ read.gen = gen[at] /\ ~Reused(at) =>
           \A i \in (from[at] + 1)..(next - 1) : Line(at, i) \in sent
  BY <1>1 DEF Core, Progress, Reused
<1>4. \A f \in File : Held(f)' = Held(f)
  BY <1>1 DEF Held
<1>5. TypeOK'
  <2>1. sent' \subseteq File \X Nat \X Nat
    BY <1>1, <1>2 DEF Core, TypeOK
  <2>2. next' \in Nat
    BY <1>1, <1>2
  <2> QED
    BY <1>1, <2>1, <2>2 DEF Core, TypeOK
<1>6. CursorsWithin' /\ FollowedClean' /\ FreshClean' /\ CursorAges'
  BY <1>1, <1>4 DEF Core, CursorsWithin, FollowedClean, FreshClean, CursorAges, Line
<1>7. LinesWithin'
  <2>1. read.gen <= gen[at] /\ (read.gen = gen[at] => read.offset <= lines[at])
    BY <1>2 DEF Core, CursorsWithin
  <2>2. read.gen <= gen[at] /\ (read.gen = gen[at] => next <= lines[at])
    BY <1>1, <1>2, <2>1
  <2> QED
    BY <1>1, <2>2 DEF Core, LinesWithin
<1>8. Progress'
  <2>1. next + 1 >= 1 /\ next + 1 <= read.offset + 1 /\ (next + 1) - 1 = next
    BY <1>1, <1>2
  <2>2. ASSUME read.gen = gen[at], ~Reused(at), NEW i \in (from[at] + 1)..next
        PROVE  Line(at, i) \in sent'
    <3>1. i = next \/ i \in (from[at] + 1)..(next - 1)
      BY <1>2
    <3> QED
      BY <1>1, <1>3, <2>2, <3>1 DEF Line
  <2> QED
    BY <1>1, <2>1, <2>2 DEF Progress, Line, Reused
<1>9. NoGaps'
  <2> SUFFICES ASSUME NEW f \in File, ~Reused(f), NEW i \in Nat, i >= from[f] + 2, Line(f, i) \in sent'
               PROVE  Line(f, i - 1) \in sent'
    BY <1>1 DEF NoGaps, Line, Reused
  <2>1. CASE Line(f, i) \in sent
    BY <1>1, <2>1 DEF Core, NoGaps, Reused
  <2>2. CASE Line(f, i) = <<at, read.gen, next>>
    <3>1. f = at /\ read.gen = gen[at] /\ i = next
      BY <2>2 DEF Line
    <3>2. next - 1 \in (from[at] + 1)..(next - 1)
      BY <1>2, <3>1
    <3> QED
      BY <1>1, <1>3, <3>1, <3>2
  <2> QED
    BY <1>1, <2>1, <2>2
<1>10. StaleMeansZero'
  <2> SUFFICES ASSUME NEW f \in File, NEW c \in Held(f), c.gen # gen[f], ~Reused(f),
                      NEW i \in Nat, i >= 2, Line(f, i) \in sent'
               PROVE  Line(f, i - 1) \in sent'
    BY <1>1, <1>4 DEF Core, StaleMeansZero, Line, Reused
  <2>1. CASE Line(f, i) \in sent
    BY <1>1, <2>1 DEF Core, StaleMeansZero, Reused
  <2>2. CASE Line(f, i) = <<at, read.gen, next>>
    <3>1. f = at /\ read.gen = gen[at] /\ i = next
      BY <2>2 DEF Line
    <3>2. from[at] = 0
      BY <1>2, <3>1 DEF Core, StaleMeansZero, Reused
    <3>3. next - 1 \in (from[at] + 1)..(next - 1)
      BY <1>2, <3>1, <3>2
    <3> QED
      BY <1>1, <1>3, <3>1, <3>3
  <2> QED
    BY <1>1, <2>1, <2>2
<1>11. FreshUnsent'
  BY <1>1 DEF Core, FreshUnsent, Line
<1>12. CursorsOnlyPassForwarded'
  BY <1>1 DEF Core, CursorsOnlyPassForwarded, Line, Reused
<1>13. HistoryStaysHidden'
  BY <1>1, <1>2 DEF Core, HistoryStaysHidden
<1> QED
  BY <1>5, <1>6, <1>7, <1>8, <1>9, <1>10, <1>11, <1>12, <1>13 DEF Core

\* The cursor moves once every line it passes is forwarded.
LEMMA FinishFileHolds == Core /\ FinishFile => Core'
<1> SUFFICES ASSUME Core, FinishFile PROVE Core'
  OBVIOUS
<1>1. /\ UNCHANGED <<gen, ino, lines, exists, half, recent, dir, marker, toggles, crashes>>
      /\ UNCHANGED <<fresh, idle, saved, sent, hidden, from, pass, busy, changed>>
      /\ pc = "forward" /\ pc' = "tail" /\ next > read.offset /\ next' = 0
      /\ at' = None /\ read' = None
      /\ tracked' = [tracked EXCEPT ![at] = read] /\ cursors' = [cursors EXCEPT ![at] = read]
  BY DEF FinishFile, disk, env, history
<1>2. /\ at \in File /\ read \in Cursor /\ read # None /\ tracked[at] # None /\ next \in Nat
      /\ read.gen \in Nat /\ read.offset \in Nat
      /\ tracked \in [File -> Cursor \cup {None}] /\ cursors \in [File -> Cursor \cup {None}]
  BY <1>1, NoneApart DEF Core, TypeOK, Cursor
<1>3. /\ tracked'[at] = read /\ cursors'[at] = read
      /\ \A f \in File \ {at} : tracked'[f] = tracked[f] /\ cursors'[f] = cursors[f]
  BY <1>1, <1>2
<1>4. \A f \in File : Held(f)' \subseteq Held(f)
  BY <1>1, <1>2, <1>3, NoneApart DEF Held
<1>5. TypeOK'
  <2>1. tracked' \in [File -> Cursor \cup {None}] /\ cursors' \in [File -> Cursor \cup {None}]
    BY <1>1, <1>2
  <2>2. pass' \subseteq {f \in File : tracked'[f] # None}
    BY <1>1, <1>2, <1>3 DEF Core, TypeOK
  <2> QED
    BY <1>1, <2>1, <2>2 DEF Core, TypeOK
<1>6. CursorsWithin' /\ LinesWithin' /\ FollowedClean' /\ StaleMeansZero'
  BY <1>1, <1>4 DEF Core, CursorsWithin, LinesWithin, FollowedClean, StaleMeansZero, Line, Reused
<1>7. FreshClean' /\ NoGaps' /\ Progress' /\ HistoryStaysHidden'
  BY <1>1 DEF Core, FreshClean, NoGaps, Progress, HistoryStaysHidden, Line, Reused
<1>8. CursorAges'
  <2> SUFFICES ASSUME NEW f \in File
               PROVE  /\ saved[f] # None => cursors'[f] # None /\ saved[f].gen <= cursors'[f].gen
                      /\ tracked'[f] # None /\ cursors'[f] # None => cursors'[f].gen <= tracked'[f].gen
    BY <1>1 DEF CursorAges
  <2>1. CASE f # at
    BY <1>1, <1>3, <2>1 DEF Core, CursorAges
  <2>2. CASE f = at
    <3>1. /\ saved[at] # None => saved[at].gen \in Nat
          /\ cursors[at] # None => cursors[at].gen \in Nat
          /\ tracked[at].gen \in Nat
      BY <1>2 DEF Core, TypeOK, Cursor
    <3>2. /\ saved[at] # None => cursors[at] # None /\ saved[at].gen <= cursors[at].gen
          /\ cursors[at] # None => cursors[at].gen <= tracked[at].gen
          /\ tracked[at].gen <= read.gen
      BY <1>1, <1>2 DEF Core, CursorAges
    <3>3. saved[at] # None => saved[at].gen <= read.gen
      BY <1>2, <3>1, <3>2
    <3> QED
      BY <1>2, <1>3, <2>2, <3>3
  <2> QED
    BY <2>1, <2>2
<1>9. FreshUnsent'
  <2> SUFFICES ASSUME NEW f \in fresh \cap exists, cursors'[f] = None, NEW i \in Nat
               PROVE  Line(f, i) \notin sent
    BY <1>1 DEF FreshUnsent, Line
  <2>1. f \in File /\ f # at
    BY <1>2, <1>3 DEF Core, TypeOK
  <2> QED
    BY <1>3, <2>1 DEF Core, FreshUnsent
<1>10. CursorsOnlyPassForwarded'
  <2> SUFFICES ASSUME NEW f \in File, ~Reused(f), NEW c \in {tracked'[f], cursors'[f], saved[f]} \ {None},
                      c.gen = gen[f], NEW i \in (from[f] + 1)..c.offset
               PROVE  Line(f, i) \in sent
    BY <1>1 DEF CursorsOnlyPassForwarded, Line, Reused
  <2>1. CASE c \in {tracked[f], cursors[f], saved[f]}
    BY <2>1 DEF Core, CursorsOnlyPassForwarded, Reused
  <2>2. CASE f = at /\ c = read
    <3>1. next - 1 = read.offset
      BY <1>1, <1>2 DEF Core, Progress, Reused
    <3> QED
      BY <1>1, <2>2, <3>1 DEF Core, Progress, Reused
  <2> QED
    BY <1>2, <1>3, <2>1, <2>2
<1> QED
  BY <1>5, <1>6, <1>7, <1>8, <1>9, <1>10 DEF Core

\* A dropped file only loses its tracked cursor.
LEMMA DropIdleHolds == \A F \in SUBSET File : Core /\ DropIdle(F) => Core'
<1> SUFFICES ASSUME NEW F \in SUBSET File, Core, DropIdle(F) PROVE Core'
  OBVIOUS
<1>1. /\ UNCHANGED <<gen, ino, lines, exists, half, recent, dir, marker, toggles, crashes, fresh, cursors, saved>>
      /\ UNCHANGED <<sent, hidden, from, pass, busy, changed, at, next, read>>
      /\ pc = "tail" /\ pc' = "drop" /\ pass = {}
      /\ tracked' = [f \in File |-> IF f \in F THEN None ELSE tracked[f]]
  BY DEF DropIdle, disk, env, loop, history
<1>2. TypeOK'
  <2>1. idle' \in [File -> Nat \cup {None}]
    <3>1. \A f \in File : Length(f) \in Nat
      <4>1. \A f \in File : lines[f] \in Nat
        BY DEF Core, TypeOK
      <4> SUFFICES ASSUME NEW f \in File PROVE Length(f) \in Nat
        OBVIOUS
      <4>2. f \in half => Length(f) = 2 * lines[f] + 1
        BY DEF Length
      <4>3. f \notin half => Length(f) = 2 * lines[f] + 0
        BY DEF Length
      <4> QED
        BY <4>1, <4>2, <4>3
    <3>2. \A f \in F : 2 * tracked[f].offset \in Nat
      BY DEF DropIdle, Core, TypeOK, Cursor
    <3>3. \A f \in File : idle[f] \in Nat \cup {None}
      BY DEF Core, TypeOK
    <3> QED
      BY <3>1, <3>2, <3>3 DEF DropIdle
  <2>2. tracked' \in [File -> Cursor \cup {None}]
    BY <1>1 DEF Core, TypeOK
  <2> QED
    BY <1>1, <2>1, <2>2 DEF Core, TypeOK
<1>3. \A f \in File : Held(f)' \subseteq Held(f)
  BY <1>1 DEF Held
<1>4. CursorAges'
  BY <1>1 DEF Core, CursorAges
<1>5. Progress' /\ FreshUnsent' /\ HistoryStaysHidden'
  BY <1>1 DEF Core, Progress, FreshUnsent, HistoryStaysHidden, Line, Reused
<1> QED
  BY <1>1, <1>2, <1>3, <1>4, <1>5, FewerCursors

\* Saving makes the saved cursors those in memory.
LEMMA EndPassHolds == Core /\ EndPass => Core'
<1> SUFFICES ASSUME Core, EndPass PROVE Core'
  OBVIOUS
<1>1. /\ UNCHANGED <<gen, ino, lines, exists, half, recent, dir, marker, toggles, crashes>>
      /\ UNCHANGED <<fresh, tracked, idle, cursors, sent, hidden, from>>
      /\ pc = "drop" /\ pc' = "sleep" /\ at' = None /\ read' = None
      /\ pass' = {} /\ busy' = {} /\ changed' = FALSE /\ next' = 0
      /\ saved' = cursors \/ saved' = saved
  BY DEF EndPass, disk, env, memory, history
<1>2. TypeOK'
  BY <1>1 DEF Core, TypeOK
<1>3. \A f \in File : Held(f)' \subseteq Held(f)
  BY <1>1, NoneApart DEF Held
<1>4. CursorAges'
  <2>1. \A f \in File : cursors[f] # None => cursors[f].gen \in Nat
    BY DEF Core, TypeOK, Cursor
  <2> QED
    BY <1>1, <2>1 DEF Core, CursorAges
<1>5. at = None
  BY <1>1 DEF Core, TypeOK
<1>6. Progress' /\ FreshUnsent' /\ HistoryStaysHidden'
  BY <1>1, <1>5 DEF Core, Progress, FreshUnsent, HistoryStaysHidden, Line, Reused
<1> QED
  BY <1>1, <1>2, <1>3, <1>4, <1>6, FewerCursors

-----------------------------------------------------------------------------
(* The theorems. *)

LEMMA InitHolds == Init => Core
<1> SUFFICES ASSUME Init PROVE Core
  OBVIOUS
<1>1. /\ pc = "sleep" /\ at = None /\ fresh = {} /\ sent = {} /\ hidden = {}
      /\ \A f \in File : tracked[f] = None /\ cursors[f] = None /\ saved[f] = None
  BY DEF Init, Idling, NoCursors
<1>2. TypeOK
  <2>1. toggles \in 0..MaxToggle /\ crashes \in 0..MaxCrash /\ next \in Nat
    BY BoundType DEF Init, Idling
  <2>2. /\ gen \in [File -> Nat] /\ ino \in [File -> Nat] /\ \A f \in File : ino[f] <= gen[f]
        /\ lines \in [File -> Nat] /\ from \in [File -> Nat]
    BY DEF Init
  <2>3. /\ tracked \in [File -> Cursor \cup {None}] /\ cursors \in [File -> Cursor \cup {None}]
        /\ saved \in [File -> Cursor \cup {None}] /\ idle \in [File -> Nat \cup {None}]
    BY DEF Init, NoCursors
  <2> QED
    BY <1>1, <2>1, <2>2, <2>3 DEF Init, Idling, TypeOK
<1>3. \A f \in File : Held(f) = {}
  BY <1>1, NoneApart DEF Held
<1>4. CursorsWithin /\ FollowedClean /\ StaleMeansZero /\ CursorAges
  BY <1>1, <1>3 DEF CursorsWithin, FollowedClean, StaleMeansZero, CursorAges, Reused
<1>5. LinesWithin /\ FreshClean /\ Progress /\ NoGaps /\ FreshUnsent
  BY <1>1 DEF LinesWithin, FreshClean, Progress, NoGaps, FreshUnsent, Reused
<1>6. CursorsOnlyPassForwarded /\ HistoryStaysHidden
  BY <1>1 DEF CursorsOnlyPassForwarded, HistoryStaysHidden, Reused
<1> QED
  BY <1>2, <1>4, <1>5, <1>6 DEF Core

LEMMA StepHolds == Core /\ [Next]_vars => Core'
<1> SUFFICES ASSUME Core, [Next]_vars PROVE Core'
  OBVIOUS
<1>1. CASE Watcher /\ ~UNCHANGED vars
  BY <1>1, BootHolds, ScanOffHolds, ScanHolds, StartPassHolds, ReadFileHolds, ReadFailsHolds,
     ForwardLineHolds, FinishFileHolds, DropIdleHolds, EndPassHolds DEF Watcher, ScanMissing
<1>2. CASE \E f \in File : Create(f) \/ Remove(f) \/ Append(f) \/ Recency(f)
  BY <1>2, CreateHolds, RemoveHolds, AppendHolds, RecencyHolds
<1>3. CASE ToggleMarker \/ ToggleDir \/ Crash
  BY <1>3, ToggleHolds, ToggleDirHolds, CrashHolds
<1>4. CASE UNCHANGED vars
  <2>1. TypeOK'
    BY <1>4 DEF Core, TypeOK, vars
  <2> QED
    BY <1>4, <2>1, Untouched DEF vars
<1> QED
  BY <1>1, <1>2, <1>3, <1>4 DEF Next

LEMMA AlwaysCore == Spec => []Core
  BY InitHolds, StepHolds, PTL DEF Spec

\* The types, and that every file still to be read in a pass is tracked (a
\* file is dropped only when no read of it is pending).
THEOREM WatcherTypeCorrect == Spec => []TypeOK
<1>1. Core => TypeOK
  BY DEF Core
<1> QED
  BY <1>1, AlwaysCore, PTL

\* No cursor, not even a saved one, passes a line that was not forwarded.
THEOREM NoLineSkipped == Spec => []CursorsOnlyPassForwarded
<1>1. Core => CursorsOnlyPassForwarded
  BY DEF Core
<1> QED
  BY <1>1, AlwaysCore, PTL

\* A followed line is forwarded only after the one before it, whatever
\* crashes and replacements of the file lie between the two.
THEOREM InOrder == Spec => []ForwardedInOrder
<1>1. Core => ForwardedInOrder
  <2> SUFFICES ASSUME Core, NEW f \in File, NEW i \in (from[f] + 2)..lines[f],
                      ~Reused(f), Line(f, i) \in sent
               PROVE  Line(f, i - 1) \in sent
    BY DEF ForwardedInOrder
  <2>1. i \in Nat /\ i >= from[f] + 2
    BY DEF Core, TypeOK
  <2> QED
    BY <2>1 DEF Core, NoGaps, Reused
<1> QED
  BY <1>1, AlwaysCore, PTL

\* No line is forwarded before it is complete.
THEOREM CompleteLines == Spec => []OnlyCompleteLines
<1>1. Core => OnlyCompleteLines
  <2> SUFFICES ASSUME Core, NEW l \in sent, l[2] = gen[l[1]] PROVE l[3] <= lines[l[1]]
    BY DEF OnlyCompleteLines
  <2>1. l \in File \X Nat \X Nat
    BY DEF Core, TypeOK
  <2>2. l[1] \in File /\ l[2] \in Nat /\ l[3] \in Nat /\ l = <<l[1], l[2], l[3]>>
    BY <2>1
  <2> QED
    BY <2>2 DEF Core, LinesWithin
<1> QED
  BY <1>1, AlwaysCore, PTL

\* What was passed over while capture was off is never read.
THEOREM OffMeansOff == Spec => []HistoryStaysHidden
<1>1. Core => HistoryStaysHidden
  BY DEF Core
<1> QED
  BY <1>1, AlwaysCore, PTL
=============================================================================
