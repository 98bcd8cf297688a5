----------------------------- MODULE FloatingcityDB -----------------------------
(***************************************************************************)
(* The directory cache mncache.dat (CFloatingcityDB and DumpFloatingcities *)
(* in src/src/floatingcityman.cpp) across crashes and restarts.  The       *)
(* directory's contents are abstracted to a snapshot value of Dirs; the    *)
(* file is one of: absent, a complete snapshot of ours, a snapshot whose   *)
(* bytes rotted (the hash no longer matches), a truncated file (left by    *)
(* fopen "wb" and an unfinished write), a file of another network, or a    *)
(* file of an older payload format.                                        *)
(***************************************************************************)
EXTENDS Naturals

CONSTANTS
  Dirs,      \* directory contents, as snapshot values
  EmptyDir,  \* no records and empty ask-again maps
  NoDir      \* no snapshot

ASSUME EmptyDir \in Dirs /\ NoDir \notin Dirs

VARIABLES
  mem,        \* the in-memory mnodeman
  file,       \* mncache.dat
  up,         \* the process is running
  wpc,        \* Write: "idle" or "writing" (the file is open and truncated)
  wbuf,       \* ssFloatingcities, the snapshot Write serialized
  committed,  \* history: the last snapshot completely on disk
  loaded      \* history: what the last start loaded from the file

vars == <<mem, file, up, wpc, wbuf, committed, loaded>>

Complete(d) == [kind |-> "complete", data |-> d]
Corrupt(d) == [kind |-> "corrupt", data |-> d]
Other(k) == [kind |-> k, data |-> NoDir]

Files ==
  {Complete(d) : d \in Dirs} \cup {Corrupt(d) : d \in Dirs} \cup
  {Other(k) : k \in {"none", "partial", "foreign", "oldformat"}}

\* mutation: the stored checksum is never compared, the payload parsed as is
ReadResultsNoHash(f) ==
  CASE f.kind = "none"     -> {"FileError"}
    [] f.kind = "partial"  -> {"HashReadError", "IncorrectFormat"}
    [] f.kind \in {"complete", "corrupt"} -> {"Ok"}
    [] f.kind = "foreign"  -> {"IncorrectMagicNumber"}
    [] f.kind = "oldformat" -> {"IncorrectFormat"}

\* CFloatingcityDB::Read: fopen fails (FileError); a file shorter than the
\* hash throws while reading it (HashReadError), a truncated or rotted one
\* fails the checksum (IncorrectHash); then the magic message, the network
\* bytes and the payload are parsed (IncorrectMagicNumber, IncorrectFormat)
ReadResults(f) ==
  CASE f.kind = "none"     -> {"FileError"}
    [] f.kind = "partial"  -> {"HashReadError", "IncorrectHash"}
    [] f.kind = "corrupt"  -> {"IncorrectHash"}
    [] f.kind = "complete" -> {"Ok"}
    [] f.kind = "foreign"  -> {"IncorrectMagicNumber"}
    [] f.kind = "oldformat" -> {"IncorrectFormat"}

\* CFloatingcityMan::Clear: the records, the three ask-again maps and the
\* dsq count emptied
Clear == EmptyDir

\* mutation: the loaded payload taken whatever Read returned
LoadedAnyResult(f, r) == f.data

\* The directory Read leaves in the manager it loads into: the payload on
\* Ok (CheckAndRemove then purges expired records, see FloatingcityMan),
\* the cleared manager on IncorrectFormat, the untouched empty one otherwise
Loaded(f, r) == IF r = "Ok" THEN f.data ELSE Clear

\* gossip changes the directory
Gossip ==
  /\ up
  /\ \E d \in Dirs : mem' = d
  /\ UNCHANGED <<file, up, wpc, wbuf, committed, loaded>>

\* DumpFloatingcities: Read the file into a temporary manager; return on
\* any result but FileError, Ok and IncorrectFormat; else Write(mnodeman):
\* serialize under cs, then fopen "wb", which truncates the file (a failed
\* fopen returns before anything is written)
DumpFloatingcities ==
  /\ up /\ wpc = "idle"
  /\ \E r \in ReadResults(file) :
       IF r \in {"FileError", "Ok", "IncorrectFormat"}
       THEN \/ /\ wpc' = "writing" /\ wbuf' = mem
               /\ file' = Other("partial")
            \/ UNCHANGED <<file, wpc, wbuf>>
       ELSE UNCHANGED <<file, wpc, wbuf>>
  /\ UNCHANGED <<mem, up, committed, loaded>>

\* Write: fileout << ssFloatingcities, FileCommit, fclose
WriteCommit ==
  /\ up /\ wpc = "writing"
  /\ file' = Complete(wbuf) /\ committed' = wbuf
  /\ wpc' = "idle" /\ wbuf' = NoDir
  /\ UNCHANGED <<mem, up, loaded>>

\* Write: the stream throws (disk full, I/O error); Write returns false and
\* leaves the truncated file
WriteFail ==
  /\ up /\ wpc = "writing"
  /\ wpc' = "idle" /\ wbuf' = NoDir
  /\ UNCHANGED <<mem, file, up, committed, loaded>>

\* the process dies, an open Write with it
Crash ==
  /\ up
  /\ up' = FALSE /\ wpc' = "idle" /\ wbuf' = NoDir /\ mem' = EmptyDir
  /\ UNCHANGED <<file, committed, loaded>>

\* start-up loads the cache with CFloatingcityDB::Read into mnodeman
Restart ==
  /\ ~up
  /\ \E r \in ReadResults(file) :
       /\ mem' = Loaded(file, r)
       /\ loaded' = Loaded(file, r)
  /\ up' = TRUE
  /\ UNCHANGED <<file, wpc, wbuf, committed>>

\* bytes of the file rot on disk
Rot ==
  /\ file.kind = "complete"
  /\ \E d \in Dirs \ {file.data} : file' = Corrupt(d)
  /\ UNCHANGED <<mem, up, wpc, wbuf, committed, loaded>>

\* a file written by an earlier run, an earlier version or another network
InitialFiles == Files \ {Other("partial")}

Init ==
  /\ file \in InitialFiles
  /\ up = FALSE /\ mem = EmptyDir
  /\ wpc = "idle" /\ wbuf = NoDir
  /\ committed = IF file.kind = "complete" THEN file.data ELSE NoDir
  /\ loaded = NoDir

Next ==
  \/ Gossip \/ DumpFloatingcities \/ WriteCommit \/ WriteFail
  \/ Crash \/ Restart \/ Rot

Spec == Init /\ [][Next]_vars

-----------------------------------------------------------------------------
(* Properties *)

DBTypeOK ==
  /\ mem \in Dirs /\ file \in Files /\ up \in BOOLEAN
  /\ wpc \in {"idle", "writing"} /\ wbuf \in Dirs \cup {NoDir}
  /\ committed \in Dirs \cup {NoDir} /\ loaded \in Dirs \cup {NoDir}

\* Persistence round trip (spec 8): a start never loads a silently wrong
\* directory: Read either falls back to the empty directory or loads the
\* last snapshot that Write completely committed, across truncated writes,
\* crashes and rotted bytes.
NeverSilentlyWrong ==
  [][~up /\ up' => loaded' \in {EmptyDir, committed}]_vars

\* On write, the prior snapshot is left untouched if the write fails partway
\* (spec 7): the file a start reads is never a truncated one.
NoPartialFileRead ==
  ~up => file.kind # "partial"

=============================================================================
