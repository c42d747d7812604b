----------------------------- MODULE SessionLog -----------------------------
(***************************************************************************)
(* The session file of runtime/src/session.rs: one JSON record per line,   *)
(* appended to while a turn runs and replaced by a snapshot when it is     *)
(* saved.  A process calls one Session operation at a time; each takes     *)
(* several file system steps, any of which may fail or be its last.        *)
(*                                                                         *)
(* A file is a sequence of chunks: whole records, the newlines written     *)
(* after them, and what a cut-off write left of a record.  Files are       *)
(* inodes, so that an append that was opened before a rename goes on       *)
(* writing to the file it opened.                                          *)
(*                                                                         *)
(* A record is which message or prompt it holds: what a record leaves out  *)
(* of a message (long fields cut, secrets blanked) is not modelled.        *)
(***************************************************************************)
EXTENDS Naturals, Sequences, SequencesExt, FiniteSets

CONSTANTS Process,          \* processes working on this one session file
          RotateAfter,      \* ROTATE_AFTER_BYTES, in records
          MaxRotatedFiles,
          Failures,         \* subset of {"io", "crash"}: what may go wrong
          MaxRecords,       \* bound: messages and prompts ever pushed
          MaxSaves,         \* bound: saves and compactions asked for
          MaxCrashes        \* bound: crashes

VARIABLES
    files,      \* contents, by inode
    path,       \* the inode at the session's path, 0 when there is none
    rotated,    \* inodes of the rotated copies, oldest first
    session,    \* process -> its Session in memory
    op,         \* process -> the operation it is in
    next,       \* the next record id
    saves,      \* saves and compactions so far
    crashes,    \* crashes so far
    cut,        \* history: an append has been cut short since the last snapshot
    trouble,    \* history: what has gone wrong so far, within {"io", "shared"}
    acked       \* history: records pushed with Ok and not compacted away since

disk == <<files, path, rotated>>
vars == <<disk, session, op, next, saves, crashes, cut, trouble, acked>>

Kind == {"meta", "compaction", "prompt", "message", "newline", "torn"}
Chunk == [kind : Kind, id : Nat]

Meta == [kind |-> "meta", id |-> 0]
Newline == [kind |-> "newline", id |-> 0]
Torn == [kind |-> "torn", id |-> 0]
\* The message a compaction puts in front of what it keeps.
Summary == [kind |-> "message", id |-> 0]

IsRecord(chunk) == chunk.kind \notin {"newline", "torn"}

NoSession == [open |-> FALSE, messages |-> << >>, prompts |-> << >>, compactions |-> 0]
Idle == [pc |-> "idle", record |-> Meta, snapshot |-> << >>, inode |-> 0]

----------------------------------------------------------------------------
(* Reading and rendering *)

\* Every line of the file is one whole record.
Readable(content) ==
    \A i \in 1..Len(content) :
        content[i] # Newline =>
            /\ content[i] # Torn
            /\ i < Len(content) => content[i + 1] = Newline

\* The records of one kind, in the order of the file.
RecordsOf(content, kind) ==
    LET kept[i \in 0..Len(content)] ==
            IF i = 0 THEN << >>
            ELSE IF content[i].kind = kind THEN Append(kept[i - 1], content[i])
            ELSE kept[i - 1]
    IN  kept[Len(content)]

\* Variant: prompt_history records are passed over.
Parse_WithoutPrompts(content) ==
    [open |-> TRUE, messages |-> RecordsOf(content, "message"), prompts |-> << >>,
     compactions |-> 0]

\* from_jsonl; the last compaction record counts.
Parse(content) ==
    LET compactions == RecordsOf(content, "compaction") IN
    [open |-> TRUE,
     messages |-> RecordsOf(content, "message"),
     prompts |-> RecordsOf(content, "prompt"),
     compactions |-> IF compactions = << >> THEN 0 ELSE Last(compactions).id]

\* Each record on a line of its own.
Lines(records) ==
    [i \in 1..2 * Len(records) |-> IF i % 2 = 1 THEN records[(i + 1) \div 2] ELSE Newline]

\* render_jsonl_snapshot
Snapshot(s) ==
    LET compaction == IF s.compactions = 0 THEN << >>
                      ELSE <<[kind |-> "compaction", id |-> s.compactions]>>
    IN  Lines(<<Meta>> \o compaction \o s.prompts \o s.messages)

\* The length of a file, in records.
Size(content) == Len(SelectSeq(content, IsRecord))

FreshInode == Len(files) + 1

----------------------------------------------------------------------------
\* LiveCli::new: an empty session, saved.
Init ==
    /\ files = <<Snapshot(NoSession)>> /\ path = 1 /\ rotated = << >>
    /\ \E first \in Process :
          session = [p \in Process |->
                        IF p = first THEN [NoSession EXCEPT !.open = TRUE] ELSE NoSession]
    /\ op = [p \in Process |-> Idle]
    /\ next = 1 /\ saves = 0 /\ crashes = 0
    /\ cut = FALSE /\ trouble = {} /\ acked = {}

Ready(p) == session[p].open /\ op[p].pc = "idle"

NeedsBootstrap == IF path = 0 THEN TRUE ELSE files[path] = << >>

\* append_persisted_message and append_persisted_prompt_entry: the record is
\* in memory already; an empty or missing file gets a whole snapshot instead.
StartAppend(p, record, newSession) ==
    /\ session' = [session EXCEPT ![p] = newSession]
    /\ op' = [op EXCEPT ![p] =
                 IF NeedsBootstrap
                 THEN [pc |-> "rotate", record |-> record,
                       snapshot |-> Snapshot(newSession), inode |-> 0]
                 ELSE [pc |-> "body", record |-> record, snapshot |-> << >>, inode |-> 0]]
    /\ next' = next + 1
    /\ UNCHANGED <<disk, saves, crashes, trouble, cut, acked>>

PushMessage(p) ==
    /\ Ready(p) /\ next <= MaxRecords
    /\ LET record == [kind |-> "message", id |-> next] IN
       StartAppend(p, record, [session[p] EXCEPT !.messages = Append(@, record)])

PushPromptEntry(p) ==
    /\ Ready(p) /\ next <= MaxRecords
    /\ LET record == [kind |-> "prompt", id |-> next] IN
       StartAppend(p, record, [session[p] EXCEPT !.prompts = Append(@, record)])

\* record_compaction, with the messages a compaction leaves.  The file is not
\* touched: it hears of it at the next save.
RecordCompaction(p) ==
    /\ Ready(p) /\ saves < MaxSaves
    /\ LET messages == session[p].messages
           first == IF messages # << >> /\ messages[1] = Summary THEN 2 ELSE 1
       IN  \E keep \in first..Len(messages) :
              /\ session' = [session EXCEPT
                     ![p].messages = <<Summary>> \o SubSeq(messages, keep + 1, Len(messages)),
                     ![p].compactions = @ + 1]
              /\ acked' = acked \ Range(SubSeq(messages, 1, keep))
    /\ saves' = saves + 1
    /\ UNCHANGED <<disk, op, next, crashes, trouble, cut>>

\* save_to_path, called for itself.
SaveToPath(p) ==
    /\ Ready(p) /\ saves < MaxSaves
    /\ op' = [op EXCEPT ![p] = [pc |-> "rotate", record |-> Meta,
                                snapshot |-> Snapshot(session[p]), inode |-> 0]]
    /\ saves' = saves + 1
    /\ UNCHANGED <<disk, session, next, crashes, trouble, cut, acked>>

----------------------------------------------------------------------------
(* The steps of an operation *)

Finish(p) == op' = [op EXCEPT ![p] = Idle]
Acknowledge(p) ==
    acked' = IF op[p].record = Meta THEN acked ELSE acked \cup {op[p].record}
Goto(p, pc) == op' = [op EXCEPT ![p].pc = pc]

\* push_message pops its message when the append failed; push_prompt_entry and
\* a save leave memory as it is.
Rollback(p) ==
    session' = IF op[p].record.kind = "message"
               THEN [session EXCEPT ![p].messages = Front(@)] ELSE session

Fail(p) == Finish(p) /\ Rollback(p)

Written(inode, chunks) == files' = [files EXCEPT ![inode] = @ \o chunks]

\* writeln! on an unbuffered file writes the record and the newline apart.
AppendBody(p) ==
    /\ op[p].pc = "body" /\ path # 0
    /\ Written(path, <<op[p].record>>)
    /\ op' = [op EXCEPT ![p].pc = "newline", ![p].inode = path]
    /\ UNCHANGED <<path, rotated, session, next, saves, crashes, trouble, cut, acked>>

AppendNewline(p) ==
    /\ op[p].pc = "newline"
    /\ Written(op[p].inode, <<Newline>>)
    /\ Finish(p) /\ Acknowledge(p)
    /\ UNCHANGED <<path, rotated, session, next, saves, crashes, trouble, cut>>

\* The file was renamed away between the check and the open.
AppendTargetGone(p) ==
    /\ op[p].pc = "body" /\ path = 0
    /\ Fail(p)
    /\ UNCHANGED <<disk, next, saves, crashes, trouble, cut, acked>>

\* Variant: the file is cut back for the snapshot instead of being renamed.
Rotate_Truncates(p) ==
    /\ op[p].pc = "rotate" /\ Goto(p, "write")
    /\ IF path # 0
       THEN files' = [files EXCEPT ![path] = << >>] ELSE UNCHANGED files
    /\ UNCHANGED <<path, rotated, session, next, saves, crashes, trouble, cut, acked>>

\* rotate_session_file_if_needed
Rotate(p) ==
    /\ op[p].pc = "rotate" /\ Goto(p, "write")
    /\ LET full == IF path = 0 THEN FALSE ELSE Size(files[path]) >= RotateAfter IN
       IF full THEN path' = 0 /\ rotated' = Append(rotated, path)
       ELSE UNCHANGED <<path, rotated>>
    /\ UNCHANGED <<files, session, next, saves, crashes, trouble, cut, acked>>

\* write_atomic: the temporary file is complete before it gets the name.
WriteAtomic(p) ==
    /\ op[p].pc = "write" /\ Goto(p, "cleanup")
    /\ files' = Append(files, op[p].snapshot) /\ path' = FreshInode
    /\ cut' = FALSE
    /\ UNCHANGED <<rotated, session, next, saves, crashes, trouble, acked>>

\* cleanup_rotated_logs keeps the newest.
CleanupRotatedLogs(p) ==
    /\ op[p].pc = "cleanup" /\ Finish(p) /\ Acknowledge(p)
    /\ LET extra == IF Len(rotated) > MaxRotatedFiles
                    THEN Len(rotated) - MaxRotatedFiles ELSE 0
       IN  rotated' = SubSeq(rotated, extra + 1, Len(rotated))
    /\ UNCHANGED <<files, path, session, next, saves, crashes, trouble, cut>>

\* Any step may return an error; a failed write may leave a part behind.
IoFails(p) ==
    /\ "io" \in Failures /\ op[p].pc # "idle"
    /\ Fail(p)
    /\ IF op[p].pc = "body" /\ path # 0
       THEN \E part \in {<< >>, <<Torn>>} : Written(path, part)
       ELSE UNCHANGED files
    /\ cut' = (cut \/ op[p].pc \in {"body", "newline"})
    /\ trouble' = trouble \cup {"io"}
    /\ UNCHANGED <<path, rotated, next, saves, crashes, acked>>

\* The process dies; the write it was in may be cut off.
Crash(p) ==
    /\ "crash" \in Failures /\ session[p].open /\ crashes < MaxCrashes
    /\ session' = [session EXCEPT ![p] = NoSession]
    /\ Finish(p)
    /\ IF op[p].pc = "body" /\ path # 0
       THEN \E part \in {<< >>, <<Torn>>} : Written(path, part)
       ELSE UNCHANGED files
    /\ cut' = (cut \/ op[p].pc \in {"body", "newline"})
    /\ crashes' = crashes + 1
    /\ UNCHANGED <<path, rotated, next, saves, trouble, acked>>

\* load_from_path refuses a file with any line it cannot parse.
LoadFromPath(p) ==
    /\ ~session[p].open /\ path # 0
    /\ Readable(files[path])
    /\ session' = [session EXCEPT ![p] = Parse(files[path])]
    /\ trouble' = IF \E q \in Process : session[q].open THEN trouble \cup {"shared"} ELSE trouble
    /\ UNCHANGED <<disk, op, next, saves, crashes, cut, acked>>

Next == \E p \in Process :
    \/ PushMessage(p) \/ PushPromptEntry(p) \/ RecordCompaction(p) \/ SaveToPath(p)
    \/ AppendBody(p) \/ AppendNewline(p) \/ AppendTargetGone(p)
    \/ Rotate(p) \/ WriteAtomic(p) \/ CleanupRotatedLogs(p)
    \/ IoFails(p) \/ Crash(p) \/ LoadFromPath(p)

Spec == Init /\ [][Next]_vars

----------------------------------------------------------------------------
(* Properties *)

\* The type invariant.
TypeOK ==
    /\ files \in Seq(Seq(Chunk))
    /\ path \in 0..Len(files) /\ rotated \in Seq(1..Len(files))
    /\ session \in [Process -> [open : BOOLEAN, messages : Seq(Chunk),
                                prompts : Seq(Chunk), compactions : Nat]]
    /\ op \in [Process -> [pc : {"idle", "body", "newline", "rotate", "write", "cleanup"},
                           record : Chunk, snapshot : Seq(Chunk), inode : Nat]]
    /\ next \in Nat /\ saves \in 0..MaxSaves /\ crashes \in 0..MaxCrashes
    /\ cut \in BOOLEAN /\ trouble \subseteq {"io", "shared"} /\ acked \subseteq Chunk

\* Between two operations the file holds exactly the prompts in memory and, as
\* the last of its messages, those in memory: appends, bootstraps, rotations,
\* compactions not yet saved, crashes and reloads in any order, as long as the
\* file system has not failed and one process has had the session.
WithoutSummary(messages) ==
    IF messages # << >> /\ messages[1] = Summary THEN Tail(messages) ELSE messages

FileMirrorsSession ==
    trouble = {} => \A p \in Process :
        Ready(p) =>
            /\ path # 0
            /\ session[p].prompts = RecordsOf(files[path], "prompt")
            /\ IsSuffix(WithoutSummary(session[p].messages),
                        RecordsOf(files[path], "message"))

\* A message or prompt whose push returned Ok is in the file or, while the file
\* is being replaced, in the copy rotated last, and that file can be read unless
\* an append since the last snapshot was cut short: whatever fails and whenever
\* the process dies, as long as one process has had the session.
AcknowledgedSurvives ==
    "shared" \notin trouble =>
    /\ path # 0 => acked \subseteq Range(files[path]) /\ (cut \/ Readable(files[path]))
    /\ path = 0 /\ acked # {}
         => rotated # << >> /\ acked \subseteq Range(files[Last(rotated)])

\* However saves of several processes overlap, a rotated copy too many is one
\* that a save still running, or one that died, has not come to clean up, as
\* long as the file system has not failed.
RotatedBounded ==
    "io" \notin trouble =>
    Len(rotated) <= MaxRotatedFiles + crashes
                      + Cardinality({p \in Process : op[p].pc \in {"write", "cleanup"}})

=============================================================================
