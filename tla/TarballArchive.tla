--------------------------- MODULE TarballArchive ---------------------------
(***************************************************************************)
(* The archive of suspects' tarballs on the server,                        *)
(* src/src/monitor/tarball-archive.js, and the workstation that pulls it,  *)
(* src/scripts/ops/pull-archive.sh.  Once a registry has withdrawn a       *)
(* version, the archive holds its only copy.                               *)
(*                                                                         *)
(* Tarballs are filed by day.  The monitor names a day by the date in      *)
(* Paris, the workstation by the date in UTC, and there is an hour or two  *)
(* each night in which they differ.  A suspect is a file name; files with  *)
(* only a record in them are left out but for the directory they make.     *)
(***************************************************************************)
EXTENDS Naturals

CONSTANTS Suspects,
          Downloads,      \* bound: the calls of archiveSuspectTarball that get to save
          Uncalled, Over, \* such a call before and after
          Soft, Hard,  \* retention and its ceiling, in days
          MaxDay       \* bound: the last day in UTC

ArchiveAssumption ==
  /\ {Uncalled, Over} \cap [suspect : Suspects, day : Nat, writing : BOOLEAN] = {}
  /\ Soft \in Nat \ {0} /\ Hard \in Nat /\ Soft <= Hard /\ MaxDay \in Nat

VARIABLES utc, ahead,  \* the day in UTC; whether Paris has the next one already
          dirs,        \* the directory of each day
          saving,      \* what each call is saving
          copies,      \* what the workstation has of each day
          pull,        \* the pull that is going on
          archived,    \* history: the suspects of each day reported as archived, whose
                       \* file no other download wrote to meanwhile or since
          lost,        \* history: those whose removal was logged as a loss
          hasty        \* history: days released while Paris was still in them

archiveVars == <<utc, ahead, dirs, saving, copies, pull, archived, lost, hasty>>
clock == <<utc, ahead>>
histories == <<archived, lost, hasty>>

Days == 0..(MaxDay + 1)
Paris == IF ahead THEN utc + 1 ELSE utc

\* whole: tarballs with their record.  part: without, as they are being written or
\* were when the process died, or with the record of other contents.
Dir == [there : BOOLEAN, pulled : BOOLEAN, whole : SUBSET Suspects, part : SUBSET Suspects]
NoDir == [there |-> FALSE, pulled |-> FALSE, whole |-> {}, part |-> {}]
Copy == [whole : SUBSET Suspects, part : SUBSET Suspects]

Saving == [suspect : Suspects, day : Days, writing : BOOLEAN]
Pull == [phase : {"idle", "mark", "purge"}, days : SUBSET Days]

ArchiveTypeOK ==
  /\ utc \in 0..MaxDay /\ ahead \in BOOLEAN
  /\ dirs \in [Days -> Dir]
  /\ saving \in [Downloads -> Saving \cup {Uncalled, Over}]
  /\ copies \in [Days -> Copy]
  /\ pull \in Pull
  /\ archived \subseteq Suspects \X Days /\ lost \subseteq Suspects \X Days
  /\ hasty \subseteq Days

ArchiveInit ==
  /\ utc = 0 /\ ahead = FALSE
  /\ dirs = [d \in Days |-> NoDir]
  /\ saving = [k \in Downloads |-> Uncalled]
  /\ copies = [d \in Days |-> [whole |-> {}, part |-> {}]]
  /\ pull = [phase |-> "idle", days |-> {}]
  /\ archived = {} /\ lost = {} /\ hasty = {}

-----------------------------------------------------------------------------
(* Time *)

ParisMidnight ==
  /\ ~ahead
  /\ ahead' = TRUE
  /\ UNCHANGED <<utc, dirs, saving, copies, pull, histories>>

\* A download that began before midnight in Paris ends before midnight in UTC.
UtcMidnight ==
  /\ ahead /\ utc < MaxDay
  /\ \A k \in Downloads : saving[k] \in Saving => saving[k].day > utc
  /\ ahead' = FALSE
  /\ utc' = utc + 1
  /\ UNCHANGED <<dirs, saving, copies, pull, histories>>

-----------------------------------------------------------------------------
(* The monitor *)

Tarballs(d) == dirs[d].whole \cup dirs[d].part
Writes(k, s, d) == saving[k] = [suspect |-> s, day |-> d, writing |-> TRUE]

\* archiveSuspectTarball up to its first await.  The file is looked for, another
\* download of it is not.
SaveBegins(k, s) ==
  /\ saving[k] = Uncalled
  /\ s \notin Tarballs(Paris)
  /\ dirs' = [dirs EXCEPT ![Paris].there = TRUE]
  /\ saving' = [saving EXCEPT ![k] = [suspect |-> s, day |-> Paris, writing |-> FALSE]]
  /\ UNCHANGED <<clock, copies, pull, histories>>

\* A suspect below the threshold: its record only.
RecordOnly ==
  /\ ~dirs[Paris].there
  /\ dirs' = [dirs EXCEPT ![Paris].there = TRUE]
  /\ UNCHANGED <<clock, saving, copies, pull, histories>>

\* The response comes, and the file is created, or emptied when it is there.
WriteBegins(k, s, d) ==
  /\ saving[k] = [suspect |-> s, day |-> d, writing |-> FALSE]
  /\ dirs[d].there
  /\ dirs' = [dirs EXCEPT ![d].part = @ \cup {s}, ![d].whole = @ \ {s}]
  /\ saving' = [saving EXCEPT ![k] = [suspect |-> s, day |-> d, writing |-> TRUE]]
  /\ archived' = archived \ {<<s, d>>}
  /\ UNCHANGED <<clock, copies, pull, lost, hasty>>

\* Another download into this file, which truncates and unlinks it as it likes.
Shared(k, s, d) == \E j \in Downloads \ {k} : Writes(j, s, d)

\* The file is hashed and its record written.  While the file is shared, the record
\* tells the truth about it or not.
SaveEnds(k, s, d) ==
  /\ Writes(k, s, d)
  /\ s \in Tarballs(d)
  /\ \/ dirs' = [dirs EXCEPT ![d].part = @ \ {s}, ![d].whole = @ \cup {s}]
     \/ /\ Shared(k, s, d)
        /\ dirs' = [dirs EXCEPT ![d].part = @ \cup {s}, ![d].whole = @ \ {s}]
  /\ archived' = IF Shared(k, s, d) THEN archived ELSE archived \cup {<<s, d>>}
  /\ saving' = [saving EXCEPT ![k] = Over]
  /\ UNCHANGED <<clock, copies, pull, lost, hasty>>

\* No slot, no answer, no directory.
SaveRefused(k) ==
  /\ saving[k] \in Saving /\ ~saving[k].writing
  /\ saving' = [saving EXCEPT ![k] = Over]
  /\ UNCHANGED <<clock, dirs, copies, pull, histories>>

\* The download breaks off and the file is unlinked, whoever else writes or wrote it;
\* or there is no file to hash; or its record cannot be written and it stays without.
SaveFails(k, s, d) ==
  /\ Writes(k, s, d)
  /\ \E left \in SUBSET ({s} \cap Tarballs(d)) :
       dirs' = [dirs EXCEPT ![d].part = (@ \ {s}) \cup left, ![d].whole = @ \ {s}]
  /\ saving' = [saving EXCEPT ![k] = Over]
  /\ UNCHANGED <<clock, copies, pull, histories>>

Crash ==
  /\ saving' = [k \in Downloads |-> IF saving[k] \in Saving THEN Over ELSE saving[k]]
  /\ UNCHANGED <<clock, dirs, copies, pull, histories>>

Aged(d) == dirs[d].there /\ d + Soft <= utc

\* Mutant: past the retention a day goes, pulled or not.
ReleasedTimer(d) == TRUE

\* Safe to purge: the workstation has it, or there is nothing to have.
Released(d) == dirs[d].pulled \/ Tarballs(d) = {}

\* cleanupOldArchives.  A day that was not pulled goes at the ceiling, or while the
\* disk is full, oldest first; both are logged as a loss.
Cleanup ==
  LET aged == {d \in Days : Aged(d)}
      ceiling == {d \in aged : ~Released(d) /\ d + Hard <= utc}
      waiting == {d \in aged : ~Released(d)} \ ceiling
  IN  \E squeezed \in SUBSET waiting :
        /\ \A d \in squeezed, e \in waiting \ squeezed : d < e
        /\ LET out == {d \in aged : Released(d)} \cup ceiling \cup squeezed
           IN  dirs' = [d \in Days |-> IF d \in out THEN NoDir ELSE dirs[d]]
        /\ lost' = lost \cup
             UNION {dirs[d].whole \X {d} : d \in ceiling \cup squeezed}
        /\ UNCHANGED <<clock, saving, copies, pull, archived, hasty>>

-----------------------------------------------------------------------------
(* The workstation *)

\* rsync without --delete: what the server has replaces what was there.
Rsynced(d) ==
  [whole |-> dirs[d].whole \cup (copies[d].whole \ dirs[d].part),
   part  |-> dirs[d].part \cup (copies[d].part \ dirs[d].whole)]

\* Mutant: today's directory is verified like the others.
PastAny(d) == TRUE

Past(d) == d # utc

\* The copy of the archive and its verification.  A tarball without its record, or
\* with another hash than the recorded one, keeps its day.
Rsync ==
  /\ pull.phase = "idle"
  /\ copies' = [d \in Days |-> Rsynced(d)]
  /\ LET verified == 
           {d \in Days : /\ dirs[d].there \/ copies[d].whole # {}
                        /\ Past(d) /\ Rsynced(d).part = {}}
     IN  /\ pull' = [phase |-> "mark", days |-> verified]
         /\ hasty' = hasty \cup {d \in verified : d > utc}
  /\ UNCHANGED <<clock, dirs, saving, archived, lost>>

\* The days are marked; a mark may fail, that of a directory that is gone always does.
Mark ==
  /\ pull.phase = "mark"
  /\ \E marked \in SUBSET {d \in pull.days : dirs[d].there} :
       dirs' = [d \in Days |-> IF d \in marked THEN [dirs[d] EXCEPT !.pulled = TRUE]
                           ELSE dirs[d]]
  /\ pull' = [pull EXCEPT !.phase = "purge"]
  /\ UNCHANGED <<clock, saving, copies, histories>>

\* PURGE_AFTER_PULL; a removal may fail, and is not made when the variable is 0.
PurgePulled ==
  /\ pull.phase = "purge"
  /\ \E purged \in SUBSET pull.days :
       dirs' = [d \in Days |-> IF d \in purged THEN NoDir ELSE dirs[d]]
  /\ pull' = [pull EXCEPT !.phase = "idle", !.days = {}]
  /\ UNCHANGED <<clock, saving, copies, histories>>

ArchiveNext ==
  \/ ParisMidnight \/ UtcMidnight
  \/ \E k \in Downloads, s \in Suspects : SaveBegins(k, s)
  \/ \E k \in Downloads, s \in Suspects, d \in Days :
       WriteBegins(k, s, d) \/ SaveEnds(k, s, d) \/ SaveFails(k, s, d)
  \/ \E k \in Downloads : SaveRefused(k)
  \/ RecordOnly \/ Crash \/ Cleanup
  \/ Rsync \/ Mark \/ PurgePulled

ArchiveSpec == ArchiveInit /\ [][ArchiveNext]_archiveVars

-----------------------------------------------------------------------------
(* Properties *)

Held(s, d) == s \in dirs[d].whole \/ s \in copies[d].whole

\* A tarball reported as archived is on the server or on the workstation, or its
\* removal was logged as a loss, whatever the pull, the retention, a full disk and the
\* death of the process do to its directory in whichever order.  Days the pull took for
\* past while the monitor still filled them are exempt, and reports on a file that a
\* second download is on.
ArchivedIsKept ==
  \A s \in Suspects, d \in Days :
    <<s, d>> \in archived => Held(s, d) \/ <<s, d>> \in lost \/ d \in hasty

=============================================================================
