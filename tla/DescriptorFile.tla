---------------------------- MODULE DescriptorFile ---------------------------
(***************************************************************************)
(* internal/discovery/descriptor.go: LoadServicesFromFile, against a       *)
(* descriptor file that is updated while it is read.                       *)
(*                                                                         *)
(* The content of the file is a list of FileDescriptorProto records.  It   *)
(* is written and read in chunks, here half a record each, so that a read  *)
(* may end within a record.  Whoever updates the file is external: a new   *)
(* file is renamed over the old one, which a reader keeps as long as it    *)
(* has it open, or the file is truncated and written again in place.  A    *)
(* reader may then get chunks of two versions, and the wire format has     *)
(* nothing to tell: what they decode as is left open.                      *)
(***************************************************************************)
EXTENDS ServiceNames

CONSTANTS
    Records,      \* FileDescriptorProto records
    PathOf,       \* PathOf[r]: the path of the file that r describes
    ImportsOf,    \* ImportsOf[r]: the paths it imports
    ServicesOf,   \* ServicesOf[r]: the services it declares
    Versions,     \* the contents the file is given, one after the other
    InPlace       \* the file is also rewritten in place

ASSUME RecordsAssumption ==
    /\ Versions \in Seq(Seq(Records)) /\ Versions # <<>>
    /\ \A r \in Records : ServicesOf[r] \subseteq Services
    /\ InPlace \in BOOLEAN

VARIABLES
    disk,     \* the chunks under the path
    revision,  \* the version they are of, or are going to be
    exists,   \* there is a file under the path
    read      \* the load in progress

fileVars == <<disk, revision, exists, read>>

Chunk == [record : Records, half : {1, 2}]
Chunks(records) ==
    [k \in 1..(2 * Len(records)) |->
        [record |-> records[(k + 1) \div 2], half |-> IF k % 2 = 1 THEN 1 ELSE 2]]

Written == disk = Chunks(Versions[revision])

Idle == [phase |-> "none", wanted |-> <<>>, linked |-> TRUE, held |-> <<>>, raw |-> <<>>,
         got |-> <<>>, opened |-> 1, torn |-> FALSE]

FInit ==
    /\ revision = 1
    /\ exists \in BOOLEAN
    /\ disk = Chunks(Versions[1])
    /\ read = Idle
------------------------------------------------------------------------------
\* A new file under the path; a reader keeps the one it has opened.
Replace ==
    /\ Written
    /\ revision < Len(Versions)
    /\ revision' = revision + 1
    /\ disk' = Chunks(Versions[revision + 1])
    /\ exists' = TRUE
    /\ read' = IF read.phase = "reading" /\ read.linked
               THEN [read EXCEPT !.linked = FALSE, !.held = disk] ELSE read

\* The file a reader has open changes under it.
Touch == read' = IF read.phase = "reading" /\ read.linked
                 THEN [read EXCEPT !.torn = TRUE] ELSE read

Truncate ==
    /\ InPlace /\ exists /\ Written
    /\ revision < Len(Versions)
    /\ revision' = revision + 1
    /\ disk' = <<>>
    /\ Touch
    /\ UNCHANGED exists

WriteChunk ==
    /\ ~Written
    /\ disk' = Append(disk, Chunks(Versions[revision])[Len(disk) + 1])
    /\ Touch
    /\ UNCHANGED <<revision, exists>>
------------------------------------------------------------------------------
FailRead == read' = [Idle EXCEPT !.phase = "failed"]

\* os.ReadFile opens the path, or fails.  A file that is still being written
\* is torn from the start.
OpenFile(list) ==
    /\ read.phase = "none"
    /\ exists
    /\ read' = [Idle EXCEPT !.phase = "reading", !.wanted = list, !.opened = revision,
                            !.torn = ~Written]
    /\ UNCHANGED <<disk, revision, exists>>

NoFile ==
    /\ read.phase = "none"
    /\ ~exists
    /\ FailRead
    /\ UNCHANGED <<disk, revision, exists>>

\* Mutant of Source: the path is opened again for every chunk.
SourceByPath == disk
Source == IF read.linked THEN disk ELSE read.held

\* The next chunk at the offset reached so far.
ReadChunk ==
    /\ read.phase = "reading"
    /\ Len(read.raw) < Len(Source)
    /\ read' = [read EXCEPT !.raw = Append(@, Source[Len(@) + 1])]
    /\ UNCHANGED <<disk, revision, exists>>

\* What was read is one version, or the beginning of one.
OfOneVersion(raw) ==
    \E v \in 1..Len(Versions) :
        /\ Len(raw) <= 2 * Len(Versions[v])
        /\ raw = SubSeq(Chunks(Versions[v]), 1, Len(raw))

RecordsIn(raw) == [k \in 1..(Len(raw) \div 2) |-> raw[2 * k].record]

\* proto.Unmarshal.  A record is preceded by its length, so that a version cut
\* off within a record does not decode; pieces of two versions may decode as any
\* records, as many as there is room for, or not at all (RejectFile).
Decodings(raw) ==
    IF ~OfOneVersion(raw) THEN UNION {[1..n -> Records] : n \in 0..(Len(raw) \div 2)}
    ELSE IF Len(raw) % 2 = 0 THEN {RecordsIn(raw)} ELSE {}

\* Mutant of Links: files that are not there are left unresolved.
LinksPartly(list) ==
    \A j, k \in DOMAIN list : j # k => PathOf[list[j]] # PathOf[list[k]]

\* protodesc.NewFiles: no file or service comes twice and no import is missing.
Links(list) ==
    /\ \A j, k \in DOMAIN list : j # k =>
          /\ PathOf[list[j]] # PathOf[list[k]]
          /\ ServicesOf[list[j]] \cap ServicesOf[list[k]] = {}
    /\ \A r \in Members(list) : ImportsOf[r] \subseteq {PathOf[q] : q \in Members(list)}

Declared(list) == UNION {ServicesOf[r] : r \in Members(list)}
Find(list, s) == [service |-> s, record |-> CHOOSE r \in Members(list) : s \in ServicesOf[r]]

\* Mutant of Chosen: services of the filter that are not there are skipped.
ChosenIfThere(list, filter) ==
    IF filter = <<>> THEN SortedNames[Listing(Declared(list))]
    ELSE SelectSeq(filter, LAMBDA s : s \in Declared(list))

\* ServicesFromDescriptorSet: the filter in its order, without a look at
\* isReflectionService; or all other services, sorted.
Chosen(list, filter) ==
    IF filter = <<>> THEN SortedNames[Listing(Declared(list))] ELSE filter

Loads(list, filter) ==
    /\ Links(list)
    /\ Chosen(list, filter) # <<>>
    /\ Members(Chosen(list, filter)) \subseteq Declared(list)

Loaded(list, filter) ==
    [i \in DOMAIN Chosen(list, filter) |-> Find(list, Chosen(list, filter)[i])]

AtEnd == read.phase = "reading" /\ Len(read.raw) >= Len(Source)

LoadFile ==
    /\ AtEnd
    /\ \E list \in Decodings(read.raw) :
          /\ Loads(list, NamesOf(read.wanted))
          /\ read' = [read EXCEPT !.phase = "done", !.got = Loaded(list, NamesOf(read.wanted))]
    /\ UNCHANGED <<disk, revision, exists>>

RejectFile ==
    /\ AtEnd
    /\ \/ ~OfOneVersion(read.raw)
       \/ ~\E list \in Decodings(read.raw) : Loads(list, NamesOf(read.wanted))
    /\ FailRead
    /\ UNCHANGED <<disk, revision, exists>>

\* Mutant of EndRead: a load that failed is the last.
EndReadIfDone ==
    /\ read.phase \in {"done", "failed"}
    /\ read' = IF read.phase = "done" THEN Idle ELSE read
    /\ UNCHANGED <<disk, revision, exists>>

\* The loader returns to Reload, which keeps its tools if the load failed.
EndRead ==
    /\ read.phase \in {"done", "failed"}
    /\ read' = Idle
    /\ UNCHANGED <<disk, revision, exists>>

Loader(list) == OpenFile(list) \/ NoFile \/ ReadChunk \/ LoadFile \/ RejectFile \/ EndRead

FNext(list) == Replace \/ Truncate \/ WriteChunk \/ Loader(list)

FileTypeOK ==
    /\ revision \in 1..Len(Versions)
    /\ disk = SubSeq(Chunks(Versions[revision]), 1, Len(disk))
    /\ exists \in BOOLEAN
    /\ read \in [phase : {"none", "reading", "done", "failed"}, wanted : Seq(Entries(Services)),
                 linked : BOOLEAN, held : Seq(Chunk), raw : Seq(Chunk),
                 got : Seq([service : Services, record : Records]),
                 opened : 1..Len(Versions), torn : BOOLEAN]

------------------------------------------------------------------------------
IsVersion(v, filter) ==
    Loads(Versions[v], filter) /\ read.got = Loaded(Versions[v], filter)

\* A load during which the open file is not rewritten in place returns what one
\* version of the file declares, the one under the path when it was opened,
\* although new versions are renamed over it while it is read.  Also a torn load
\* that succeeds, of whatever it has decoded, returns every service that the
\* configuration names, once and in the order of first mention, or else some
\* services without those of reflection; and as long as it has not met pieces of
\* two versions, each as a version had it that was under the path between the
\* start of the load and now.
FileLoadIsFaithful ==
    read.phase = "done" =>
        LET names == [i \in DOMAIN read.got |-> read.got[i].service]
        IN  /\ ~read.torn => IsVersion(read.opened, NamesOf(read.wanted))
            /\ IF Mentioned(read.wanted) # {} THEN AsMentioned(names, read.wanted)
               ELSE names # <<>> /\ names = SortedNames[Listing(Members(names))]
            /\ OfOneVersion(read.raw) => \A i \in DOMAIN read.got :
                 \E v \in read.opened..revision : read.got[i].record \in Members(Versions[v])
==============================================================================
