----------------------------- MODULE Annotations -----------------------------
(***************************************************************************)
(* internal/annotations/annotations.go: ForMethod and ForService.          *)
(*                                                                         *)
(* An option (grpcmcpgateway.v1.tool, .service or .server) reaches the     *)
(* gateway in one of two forms: parsed, when the generated package is      *)
(* linked into the process, or as unknown records of the options message.  *)
(* Unknown records can be read only with the extension's descriptor, which *)
(* is searched in the file of the service and its imports.                 *)
(***************************************************************************)
EXTENDS Naturals, Sequences

CONSTANTS
    Files,       \* file descriptors
    ServiceFile, \* the file that declares the service
    Nowhere,     \* no file
    Extensions,  \* the options that files may declare and records may carry
    Attributes,  \* the fields of their messages
    ImportGraphs, \* the import lists to look at: Files to sequences of files
    Declarations, \* the extensions each file may declare
    Options      \* the records the options message may hold

\* One record of the option ext, setting some of the fields of its message.
\* A record that is not sound does not unmarshal.
Record == [ext : Extensions, sets : SUBSET Attributes, sound : BOOLEAN]

ASSUME FilesAssumption ==
    /\ ServiceFile \in Files
    /\ Nowhere \notin Files
    /\ {"tool", "service", "server"} \subseteq Extensions
ASSUME InputsAssumption ==
    /\ ImportGraphs \subseteq [Files -> Seq(Files)]
    /\ Declarations \subseteq [Files -> SUBSET Extensions]
    /\ Options \subseteq Seq(Record)

VARIABLES
    imports, declares, \* the files
    linked,    \* the generated package is part of the process
    records,   \* the option records, in the order of the wire
    query,     \* "method" or "service"
    todo,      \* the options still to be looked up for the query
    at,        \* "registered", "search", "decode" or "done"
    stack,     \* active calls of findExtensionInFile: file, next import
    seen,      \* the files searched
    found,     \* the file that declares the option, or Nowhere
    r,         \* the record to be read next
    meta,      \* for every attribute, the record it was taken from, or 0
    annotated  \* ToolMetadata.Annotated

input == <<imports, declares, linked, records, query>>
search == <<stack, seen, found>>
vars == <<input, todo, at, search, r, meta, annotated>>

\* The files in reach of the service's: those that no set closed under imports
\* can leave out.
Closed(S) ==
    /\ ServiceFile \in S
    /\ \A f \in S : \A j \in DOMAIN imports[f] : imports[f][j] \in S

Reachable == {f \in Files : \A S \in SUBSET Files : Closed(S) => f \in S}

Declared(ext) == \E f \in Reachable : ext \in declares[f]

Lookups(q) == IF q = "method" THEN <<"tool">> ELSE <<"service", "server">>

RecordsOf(ext) == {k \in DOMAIN records : records[k].ext = ext}

\* fallback, serverFallback: what the descriptor itself says.
Fallback == [a \in Attributes |-> 0]

\* A linked package rejects a record that does not unmarshal along with the
\* whole descriptor, and no compiler accepts an option that is not imported.
Init ==
    /\ imports \in ImportGraphs
    /\ declares \in Declarations
    /\ linked \in BOOLEAN
    /\ records \in Options
    /\ linked => \A k \in DOMAIN records : records[k].sound
    /\ \A ext \in {"tool", "service", "server"} : RecordsOf(ext) # {} => Declared(ext)
    /\ query \in {"method", "service"}
    /\ todo = Lookups(query)
    /\ at = "registered"
    /\ stack = <<>> /\ seen = {} /\ found = Nowhere
    /\ r = 1
    /\ meta = Fallback
    /\ annotated = FALSE

Ext == Head(todo)

\* proto.HasExtension: the option has been parsed.
Parsed(ext) == linked /\ RecordsOf(ext) # {}

\* Mutant: what the message does not set is cleared.
ApplyClearing(m, k) == [a \in Attributes |-> IF a \in records[k].sets THEN k ELSE 0]
\* applyToolMessage, applyServiceMessage, applyServerMessage: what the message
\* sets replaces what meta says.
Apply(m, k) == [a \in Attributes |-> IF a \in records[k].sets THEN k ELSE m[a]]

\* A parsed option holds the last of every field of all its records.
ApplyParsed(m, ext) ==
    [a \in Attributes |->
        LET given == {k \in RecordsOf(ext) : a \in records[k].sets}
        IN  IF given = {} THEN m[a] ELSE CHOOSE k \in given : \A j \in given : j <= k]

\* Mutant: the lookup of one option is the whole query.
FinishQuery ==
    /\ todo' = Tail(todo)
    /\ at' = "done"
    /\ r' = 1

\* The lookup of the option at hand is over.
Finish ==
    /\ todo' = Tail(todo)
    /\ at' = IF Len(todo) = 1 THEN "done" ELSE "registered"
    /\ r' = 1

StartSearch ==
    /\ at' = "search"
    /\ stack' = <<[file |-> ServiceFile, i |-> 0]>>
    /\ seen' = {}
    /\ found' = Nowhere

\* fromRegistered...Extension succeeds.  Only the service option is looked up
\* in the files as well.
FromRegistered ==
    /\ at = "registered"
    /\ Parsed(Ext)
    /\ meta' = ApplyParsed(meta, Ext)
    /\ annotated' = (annotated \/ Ext = "tool")
    /\ IF Ext = "service"
       THEN StartSearch /\ UNCHANGED <<todo, r>>
       ELSE Finish /\ UNCHANGED search
    /\ UNCHANGED input

NotRegistered ==
    /\ at = "registered"
    /\ ~Parsed(Ext)
    /\ StartSearch
    /\ UNCHANGED <<input, todo, r, meta, annotated>>

Searching == at = "search" /\ stack # <<>>
Top == stack[Len(stack)]
Pop == SubSeq(stack, 1, Len(stack) - 1)

\* findExtensionInFile: a file that was searched before is left at once.
SkipSeen ==
    /\ Searching
    /\ Top.i = 0
    /\ Top.file \in seen
    /\ stack' = Pop
    /\ UNCHANGED <<input, todo, at, seen, found, r, meta, annotated>>

\* The file declares the extension: every active call returns it.
FindHere ==
    /\ Searching
    /\ Top.i = 0
    /\ Top.file \notin seen
    /\ Ext \in declares[Top.file]
    /\ seen' = seen \cup {Top.file}
    /\ found' = Top.file
    /\ stack' = <<>>
    /\ UNCHANGED <<input, todo, at, r, meta, annotated>>

\* The file does not: its imports are next.
EnterFile ==
    /\ Searching
    /\ Top.i = 0
    /\ Top.file \notin seen
    /\ Ext \notin declares[Top.file]
    /\ seen' = seen \cup {Top.file}
    /\ stack' = [stack EXCEPT ![Len(stack)].i = 1]
    /\ UNCHANGED <<input, todo, at, found, r, meta, annotated>>

\* Mutant: the result of the first import is returned, whatever it is.
SearchFirstImport ==
    /\ Searching
    /\ Top.i \in DOMAIN imports[Top.file]
    /\ stack' = Append(Pop, [file |-> imports[Top.file][Top.i], i |-> 0])
    /\ UNCHANGED <<input, todo, at, seen, found, r, meta, annotated>>

SearchImport ==
    /\ Searching
    /\ Top.i \in DOMAIN imports[Top.file]
    /\ stack' = Append([stack EXCEPT ![Len(stack)].i = @ + 1],
                       [file |-> imports[Top.file][Top.i], i |-> 0])
    /\ UNCHANGED <<input, todo, at, seen, found, r, meta, annotated>>

LeaveFile ==
    /\ Searching
    /\ Top.i > Len(imports[Top.file])
    /\ stack' = Pop
    /\ UNCHANGED <<input, todo, at, seen, found, r, meta, annotated>>

NotFound ==
    /\ at = "search" /\ stack = <<>>
    /\ found = Nowhere
    /\ Finish
    /\ UNCHANGED <<input, search, meta, annotated>>

Found ==
    /\ at = "search" /\ stack = <<>>
    /\ found # Nowhere
    /\ at' = "decode"
    /\ UNCHANGED <<input, todo, search, r, meta, annotated>>

\* The extension's own type finds the option parsed.
ReadParsed ==
    /\ at = "decode"
    /\ Parsed(Ext)
    /\ meta' = ApplyParsed(meta, Ext)
    /\ annotated' = (annotated \/ Ext = "tool")
    /\ Finish
    /\ UNCHANGED <<input, search>>

Scanning == at = "decode" /\ ~Parsed(Ext)

\* unmarshalUnknownExtension: a record of some other option.
SkipRecord ==
    /\ Scanning
    /\ r <= Len(records)
    /\ records[r].ext # Ext
    /\ r' = r + 1
    /\ UNCHANGED <<input, todo, at, search, meta, annotated>>

\* Mutant: an option that cannot be read counts as an annotation.
ReadRecordAnnotated ==
    /\ Scanning
    /\ r <= Len(records)
    /\ records[r].ext = Ext
    /\ meta' = IF records[r].sound THEN Apply(meta, r) ELSE meta
    /\ annotated' = (annotated \/ Ext = "tool")
    /\ Finish
    /\ UNCHANGED <<input, search>>

\* The first record of the option is the one that counts.
ReadRecord ==
    /\ Scanning
    /\ r <= Len(records)
    /\ records[r].ext = Ext
    /\ IF records[r].sound
       THEN /\ meta' = Apply(meta, r)
            /\ annotated' = (annotated \/ Ext = "tool")
       ELSE UNCHANGED <<meta, annotated>>
    /\ Finish
    /\ UNCHANGED <<input, search>>

NoRecord ==
    /\ Scanning
    /\ r > Len(records)
    /\ Finish
    /\ UNCHANGED <<input, search, meta, annotated>>

Next ==
    \/ FromRegistered \/ NotRegistered
    \/ SkipSeen \/ FindHere \/ EnterFile \/ SearchImport \/ LeaveFile
    \/ NotFound \/ Found
    \/ ReadParsed \/ SkipRecord \/ ReadRecord \/ NoRecord

Spec == Init /\ [][Next]_vars

------------------------------------------------------------------------------
\* The depth-first search with one set of visited files for the whole search
\* finds the extension if and only if it is declared within reach, also when
\* files are imported along several ways.
FindsWhatIsImported ==
    at = "search" /\ stack = <<>> =>
        /\ found # Nowhere <=> Declared(Ext)
        /\ found # Nowhere => found \in Reachable /\ Ext \in declares[found]

\* Whether the options come parsed or as records makes no difference to an
\* option of one record: every attribute is the one its option gives, and the
\* fallback otherwise.  Of an option split into several records (every field in
\* an option statement of its own) a parsed one loses nothing, the last word on
\* a field counting, and an unparsed one all but its first record.
Readable(ext) ==
    IF Parsed(ext) THEN RecordsOf(ext)
    ELSE {k \in RecordsOf(ext) : records[k].sound /\ \A j \in RecordsOf(ext) : k <= j}

OptionsDecide ==
    at = "done" =>
        \A a \in Attributes :
            LET given == {k \in UNION {Readable(Lookups(query)[x]) : x \in DOMAIN Lookups(query)} :
                            a \in records[k].sets}
            IN  IF given = {} THEN meta[a] = 0
                ELSE /\ meta[a] \in given
                     /\ \A k \in given : records[k].ext = records[meta[a]].ext => k <= meta[a]

\* --require-tool-annotations shows exactly the methods with a tool option
\* whose first record can be read.
AnnotatedIsExplicit ==
    at = "done" =>
        (annotated <=> /\ query = "method"
                       /\ \E k \in RecordsOf("tool") :
                             records[k].sound /\ \A j \in RecordsOf("tool") : k <= j)
==============================================================================
