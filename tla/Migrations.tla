----------------------------- MODULE Migrations -----------------------------
(***************************************************************************)
(* The schema of the database under the migrations 0001 to 0007:           *)
(* "alembic upgrade head", which runs at every start of the container      *)
(* before the application, and "alembic downgrade -n".                     *)
(*                                                                         *)
(* A command runs its revisions in one transaction, which ends early where *)
(* revision 0006 executes COMMIT: from there on every statement, also of   *)
(* the revisions that follow and of the table alembic_version, takes       *)
(* effect by itself.  Statements and schemas are abstracted to the objects *)
(* they create and drop and to the width of the column user_image.         *)
(***************************************************************************)
EXTENDS Naturals, Sequences

CONSTANT PathLength  \* how long the paths of images may be that users upload

ASSUME MigrationsAssumption == PathLength \subseteq Nat

VARIABLES
    db,       \* the committed schema
    work,     \* the schema as the command sees it, with the version that it is at
    command,  \* "none", "upgrade" or "downgrade"
    goal,     \* the version where the command ends
    step,     \* the statements it has executed of the revision under way
    open,     \* its transaction is open
    image,    \* the length of the longest user_image stored
    cut       \* history: the revisions whose downgrade was cut off after the COMMIT

vars == <<db, work, command, goal, step, open, image, cut>>

-----------------------------------------------------------------------------
(***************************************************************************)
(* Objects                                                                 *)
(***************************************************************************)
ChatIndexes == {"idx_chat_on_guid", "idx_chat_on_is_deleted_chat_type"}
MessageIndexes ==
    {"idx_message_on_chat_id", "idx_message_on_user_id", "idx_message_on_user_id_chat_id"}
ReadStatusIndexes == {"idx_read_status_on_chat_id", "idx_read_status_on_user_id"}
UserIndexes == {"idx_user_on_email_username", "idx_user_partial_on_email_not_deleted"}
Index == ChatIndexes \cup MessageIndexes \cup ReadStatusIndexes \cup UserIndexes

\* The columns that were added later.
MessageColumns == {"message_type", "file_name", "file_path"}
Column == MessageColumns \cup {"settings"}

Tables == {"chat", "user", "chat_participant", "message", "read_status"}
Objects == Tables \cup {"admin_user", "chattype", "messagetype"} \cup Index \cup Column

\* The indexes and columns of a table, which go with it when it is dropped.
Parts(o) ==
    CASE o = "chat"        -> ChatIndexes
      [] o = "message"     -> MessageIndexes \cup MessageColumns
      [] o = "read_status" -> ReadStatusIndexes
      [] o = "user"        -> UserIndexes \cup {"settings"}
      [] OTHER             -> {}

\* What must be there for an object to be created, and may not be dropped before it.
Uses(o) ==
    CASE o = "chat" -> {"chattype"}
      [] o \in {"chat_participant", "message", "read_status"} -> {"chat", "user"}
      [] o = "message_type" -> {"messagetype", "message"}
      [] OTHER -> {t \in Tables : o \in Parts(t)}

\* models.py
Models == Tables \cup {"chattype", "messagetype"} \cup Index \cup Column

\* Variant: models.py is changed and no revision is made of it.
ModelsWithoutRevision == 1000

ModelsWidth == 1048

-----------------------------------------------------------------------------
(***************************************************************************)
(* Statements and revisions                                                *)
(***************************************************************************)
Statement(do, on, to) == [do |-> do, on |-> on, to |-> to]
Create(o) == Statement("create", o, 0)
Drop(o) == Statement("drop", o, 0)
Alter(width) == Statement("alter", "user", width)
Commit == Statement("commit", "transaction", 0)

\* Variant: an index is created without IF NOT EXISTS.
AddIndexAnew(i) == Create(i)

AddIndex(i) == Statement("create_if_missing", i, 0)
DropIfThere(o) == Statement("drop_if_there", o, 0)

Upgrade0001 ==
    <<Create("chattype"), Create("chat"), Create("user"), Create("chat_participant"),
      Create("message"), Create("read_status")>>
Downgrade0001 ==
    <<Drop("read_status"), Drop("message"), Drop("chat_participant"), Drop("user"),
      Drop("chat"), DropIfThere("chattype")>>
Upgrade0002 == <<Create("admin_user")>>
Downgrade0002 == <<Drop("admin_user")>>
Upgrade0003 == <<Alter(1000)>>
Downgrade0003 == <<Alter(128)>>
Upgrade0004 == <<Create("settings")>>
Downgrade0004 == <<Drop("settings")>>
Upgrade0005 ==
    <<Statement("create_if_missing", "messagetype", 0), Create("message_type"),
      Create("file_name"), Create("file_path")>>
Downgrade0005 ==
    <<Drop("file_path"), Drop("file_name"), Drop("message_type"),
      DropIfThere("messagetype")>>
Upgrade0006 ==
    <<Commit,
      AddIndex("idx_chat_on_guid"), AddIndex("idx_chat_on_is_deleted_chat_type"),
      AddIndex("idx_message_on_chat_id"), AddIndex("idx_message_on_user_id"),
      AddIndex("idx_message_on_user_id_chat_id"),
      AddIndex("idx_read_status_on_chat_id"), AddIndex("idx_read_status_on_user_id"),
      Alter(1048),
      AddIndex("idx_user_on_email_username"), AddIndex("idx_user_partial_on_email_not_deleted")>>
Downgrade0006 ==
    <<Commit,
      DropIfThere("idx_user_partial_on_email_not_deleted"), DropIfThere("idx_user_on_email_username"),
      Alter(1000),
      DropIfThere("idx_read_status_on_user_id"), DropIfThere("idx_read_status_on_chat_id"),
      DropIfThere("idx_message_on_user_id_chat_id"),
      DropIfThere("idx_message_on_user_id"), DropIfThere("idx_message_on_chat_id"),
      DropIfThere("idx_chat_on_is_deleted_chat_type"), DropIfThere("idx_chat_on_guid")>>
Upgrade0007 == <<Drop("admin_user")>>
Downgrade0007 == <<Create("admin_user")>>

Upgrades == <<Upgrade0001, Upgrade0002, Upgrade0003, Upgrade0004, Upgrade0005, Upgrade0006,
              Upgrade0007>>
Downgrades == <<Downgrade0001, Downgrade0002, Downgrade0003, Downgrade0004, Downgrade0005,
                Downgrade0006, Downgrade0007>>
HeadRevision == 7

\* The revision under way, the version that it leads to, and its statements.
Revision == IF command = "upgrade" THEN work.version + 1 ELSE work.version
Target == IF command = "upgrade" THEN Revision ELSE Revision - 1
Script == IF command = "upgrade" THEN Upgrades[Revision] ELSE Downgrades[Revision]

UnderWay == command # "none" /\ work.version # goal
Due == UnderWay /\ step < Len(Script)
NextStatement == Script[step + 1]

\* The database executes the statement, or refuses it.
Applies(s, st) ==
    /\ st.do = "create" => st.on \notin s.objects
    /\ st.do \in {"create", "create_if_missing"} => Uses(st.on) \subseteq s.objects
    /\ st.do = "drop" => st.on \in s.objects
    /\ st.do \in {"drop", "drop_if_there"} =>
           \A o \in s.objects \ Parts(st.on) : st.on \notin Uses(o)
    /\ st.do = "alter" => "user" \in s.objects /\ image <= st.to

Apply(s, st) ==
    CASE st.do \in {"create", "create_if_missing"} -> [s EXCEPT !.objects = @ \cup {st.on}]
      [] st.do \in {"drop", "drop_if_there"} ->
             [s EXCEPT !.objects = @ \ ({st.on} \cup Parts(st.on))]
      [] st.do = "alter" -> [s EXCEPT !.width = st.to]
      [] OTHER -> s

Empty == [objects |-> {}, width |-> 128, version |-> 0]

-----------------------------------------------------------------------------
(***************************************************************************)
(* Commands                                                                *)
(***************************************************************************)
Schema == [objects : SUBSET Objects, width : {128, 1000, 1048}, version : 0..HeadRevision]

TypeOK ==
    /\ db \in Schema /\ work \in Schema
    /\ command \in {"none", "upgrade", "downgrade"}
    /\ goal \in 0..HeadRevision
    /\ step \in Nat
    /\ open \in BOOLEAN
    /\ ~open => work = db
    /\ image \in PathLength \cup {0}
    /\ cut \subseteq 1..(HeadRevision - 1)

Init ==
    /\ db = Empty
    /\ work = Empty
    /\ command = "none"
    /\ goal = 0
    /\ step = 0
    /\ open = FALSE
    /\ image = 0
    /\ cut = {}

\* Variant: as with the engine of the application, every statement commits by itself.
Autocommit == FALSE

Transaction == TRUE

Begin(name, to) ==
    /\ command = "none"
    /\ command' = name
    /\ goal' = to
    /\ step' = 0
    /\ open' = Transaction
    /\ UNCHANGED <<db, work, image, cut>>

\* The container starts.
Upgrade == Begin("upgrade", HeadRevision)

\* make downgrade last=n
Downgrade(n) == n <= db.version /\ Begin("downgrade", db.version - n)

\* The paths go with the table.
ImageLeft == IF "user" \in db'.objects THEN image ELSE 0

\* A statement of the revision under way.
Execute ==
    /\ Due
    /\ Applies(work, NextStatement)
    /\ work' = Apply(work, NextStatement)
    /\ open' = (open /\ NextStatement # Commit)
    /\ db' = IF open' THEN db ELSE work'
    /\ image' = ImageLeft
    /\ step' = step + 1
    /\ UNCHANGED <<command, goal, cut>>

\* What a downgrade has undone does not matter any more.
StillCut == cut \cap (1..db'.version)

\* The revision is done, and alembic_version updated.
Record ==
    /\ UnderWay /\ ~Due
    /\ work' = [work EXCEPT !.version = Target]
    /\ db' = IF open THEN db ELSE work'
    /\ step' = 0
    /\ cut' = StillCut
    /\ UNCHANGED <<command, goal, open, image>>

\* The command is over, and its connection closed.
Stop ==
    /\ command' = "none"
    /\ goal' = 0
    /\ step' = 0
    /\ open' = FALSE

\* env.py leaves begin_transaction.
Finish ==
    /\ command # "none" /\ ~UnderWay
    /\ Stop
    /\ db' = work
    /\ image' = ImageLeft
    /\ cut' = StillCut
    /\ UNCHANGED work

\* Variant: the statements of the transaction stay in effect.
NoRollback == work

Rollback == db

\* A downgrade that ends where its statements are not taken back, and before its version is
\* updated.
CutOff == cut \cup (IF command = "downgrade" /\ UnderWay /\ ~open THEN {Revision} ELSE {})

\* The database refuses the statement.
Refuse ==
    /\ Due
    /\ ~Applies(work, NextStatement)
    /\ work' = Rollback
    /\ cut' = CutOff
    /\ Stop
    /\ UNCHANGED <<db, image>>

\* The container stops, or the connection is lost, before the next statement ...
Crash ==
    /\ command # "none"
    /\ work' = Rollback
    /\ cut' = CutOff
    /\ Stop
    /\ UNCHANGED <<db, image>>

\* ... or while an index is built concurrently.  That leaves an index of that name, which is
\* all that IF NOT EXISTS looks at: it is invalid, and no upgrade builds it again.
CrashInBuild ==
    /\ Due /\ ~open
    /\ NextStatement.on \in Index \ db.objects
    /\ NextStatement.do \in {"create", "create_if_missing"}
    /\ Applies(work, NextStatement)
    /\ db' = Apply(db, NextStatement)
    /\ work' = db'
    /\ cut' = CutOff
    /\ Stop
    /\ UNCHANGED image

\* The application, at the head revision, stores the path of an image.
StoreImage ==
    /\ command = "none" /\ db.version = HeadRevision
    /\ image' \in {length \in PathLength : image < length /\ length <= db.width}
    /\ UNCHANGED <<db, work, command, goal, step, open, cut>>

Next ==
    \/ Upgrade
    \/ \E n \in 1..HeadRevision : Downgrade(n)
    \/ Execute \/ Record \/ Finish \/ Refuse \/ Crash \/ CrashInBuild
    \/ StoreImage

Spec == Init /\ [][Next]_vars

-----------------------------------------------------------------------------
(***************************************************************************)
(* Properties                                                              *)
(***************************************************************************)

\* The revision that an object comes with.
ComesWith(o) ==
    CASE o \in Tables \cup {"chattype"}          -> 1
      [] o = "admin_user"                         -> 2
      [] o = "settings"                           -> 4
      [] o \in MessageColumns \cup {"messagetype"} -> 5
      [] o \in Index                              -> 6

\* The objects of the schema at a revision: 0007 only takes one away.
At(r) == {o \in Objects : ComesWith(o) <= r /\ (r = 7 => o # "admin_user")}

\* What the downgrades that were cut off may have taken away.
Lost == {o \in Objects : ComesWith(o) \in cut}

\* The widths that user_image may have at a version: 0006 may have been cut off after its
\* ALTER, and so may the downgrades of 0003 and of 0006.
Widths(version) ==
    CASE version < 3      -> {128}
      [] version \in 3..5 -> {1000, 1048} \cup (IF 3 \in cut THEN {128} ELSE {})
      [] OTHER            -> {1048} \cup (IF 6 \in cut THEN {1000} ELSE {})

\* Whatever stops a command, at any statement, the schema it leaves is that of the version on
\* record, but for what the COMMIT of 0006 lets a command that is cut off leave behind:
\*   - an upgrade, indexes of 0006 at an earlier version (also below 0005, after a downgrade),
\*     the width 1048 from 0003 to 0005, and the table of 0007 dropped before its time;
\*   - a downgrade, some of what came with the very revision that it was undoing lost, or the
\*     width of the revision before, and nothing of any other revision;
\*   - the build of an index, an invalid index, which counts as there.
LeavesARevision ==
    command = "none" =>
        /\ db.objects \ At(db.version) \subseteq Index
        /\ At(db.version) \ db.objects \subseteq {"admin_user"} \cup Lost
        /\ db.width \in Widths(db.version)

\* After any sequence of upgrades, downgrades, failures and retries, the head revision has the
\* objects that models.py declares and no other, and its width, but for what a downgrade that
\* was cut off took away: an upgrade goes on from the version on record and does not bring it
\* back.  (An index that was left invalid is there, and stays invalid.)
HeadIsModels ==
    command = "none" /\ db.version = HeadRevision =>
        /\ db.objects \subseteq Models
        /\ Models \ db.objects \subseteq Lost
        /\ db.width = ModelsWidth \/ 6 \in cut

\* Dockerfile:20, the application starts after the upgrade: an upgrade can be run after whatever
\* was cut off before, except where the downgrade of 0001 was, which drops the tables, and where
\* the table that 0007 drops is gone already.
RetriesSucceed ==
    command = "upgrade" /\ Due /\ ~Applies(work, NextStatement) =>
        1 \in cut \/ (db.version = 6 /\ "admin_user" \notin db.objects)

-----------------------------------------------------------------------------
(***************************************************************************)
(* The inductive invariant.                                                *)
(***************************************************************************)

\* The objects of s are those of the set, as far as what is left early or lost allows.
Shows(s, objects) ==
    /\ s.objects \ objects \subseteq Index
    /\ objects \ s.objects \subseteq {"admin_user"} \cup Lost

\* A schema that a command may leave and start from.
Settled(s) == Shows(s, At(s.version)) /\ s.width \in Widths(s.version)

\* What the first k statements of a revision have created, and dropped.
Created(statements, k) ==
    {statements[i].on : i \in {j \in 1..k : statements[j].do \in {"create", "create_if_missing"}}}
Dropped(statements, k) ==
    UNION {{statements[i].on} \cup Parts(statements[i].on) :
               i \in {j \in 1..k : statements[j].do \in {"drop", "drop_if_there"}}}

\* The objects of the schema after k statements of the script.
Reached(k) == (At(work.version) \cup Created(Script, k)) \ Dropped(Script, k)

\* The ALTER of the revision under way is executed, and the width that it leads to.
Altered ==
    \/ Revision = 3 /\ step > 0
    \/ Revision = 6 /\ step > (IF command = "upgrade" THEN 8 ELSE 3)

AlteredTo ==
    IF Revision = 3
    THEN IF command = "upgrade" THEN 1000 ELSE 128
    ELSE IF command = "upgrade" THEN 1048 ELSE 1000

WidthReached == IF Altered THEN {AlteredTo} ELSE Widths(work.version)

\* A command under way: how far it is, and what its transaction can still take back.
CommandOK ==
    /\ UnderWay => step <= Len(Script)
    /\ ~UnderWay => step = 0
    /\ IF command = "upgrade" THEN goal = HeadRevision ELSE goal <= work.version
    /\ command = "upgrade" => /\ db.version <= work.version
                              /\ work.version < 5 => open
                              /\ work.version = 5 => (open <=> step = 0)
                              /\ work.version = 6 /\ step = 0 /\ open => db = work
    /\ command = "downgrade" /\ work.version = HeadRevision => open

IInv ==
    /\ TypeOK
    /\ image <= db.width /\ image <= work.width
    /\ cut \subseteq 1..db.version
    /\ IF command = "none" THEN ~open ELSE CommandOK
    /\ command = "none" \/ open => Settled(db)
    /\ command # "none" => Shows(work, Reached(step)) /\ work.width \in WidthReached
=============================================================================
