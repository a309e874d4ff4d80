-------------------------- MODULE MigrationsProofs --------------------------
(***************************************************************************)
(* The properties of Migrations for paths of any lengths: IInv is          *)
(* inductive and implies them.                                             *)
(***************************************************************************)
EXTENDS Migrations, TLAPS

-----------------------------------------------------------------------------
(***************************************************************************)
(* What the statements of each revision do.                                *)
(***************************************************************************)
Creates(st) == st.do \in {"create", "create_if_missing"}
Drops(st) == st.do \in {"drop", "drop_if_there"}
Width == {128, 1000, 1048}

IsStatement(st) ==
  \/ st = Commit
  \/ \E w \in Width : st = Alter(w)
  \/ \E o \in Objects : st \in {Create(o), AddIndex(o), Drop(o), DropIfThere(o)}

\* The schema at each revision.
LEMMA Schemas ==
  /\ At(0) = {}
  /\ At(1) = Tables \cup {"chattype"}
  /\ At(2) = At(1) \cup {"admin_user"} /\ "admin_user" \notin At(1)
  /\ At(3) = At(2)
  /\ At(4) = At(3) \cup {"settings"} /\ "settings" \notin At(3)
  /\ At(5) = At(4) \cup MessageColumns \cup {"messagetype"}
  /\ At(4) \cap (MessageColumns \cup {"messagetype"}) = {}
  /\ At(6) = At(5) \cup Index /\ At(5) \cap Index = {}
  /\ At(7) = At(6) \ {"admin_user"} /\ At(7) = Models
<1> USE DEF Tables, MessageColumns, Column, Index, ChatIndexes, MessageIndexes, ReadStatusIndexes, UserIndexes
<1>1. \A o \in Tables \cup {"chattype"} : ComesWith(o) = 1
  BY DEF ComesWith
<1>2. ComesWith("admin_user") = 2 /\ ComesWith("settings") = 4
  BY DEF ComesWith
<1>3. \A o \in MessageColumns \cup {"messagetype"} : ComesWith(o) = 5
  BY DEF ComesWith
<1>4. \A o \in Index : ComesWith(o) = 6
  BY DEF ComesWith
<1> QED
  BY <1>1, <1>2, <1>3, <1>4 DEF At, Objects, Models

\* Each object comes with one revision before 0007, and a schema has what came until then.
LEMMA Origins ==
  /\ \A o \in Objects : ComesWith(o) \in 1..6
  /\ \A o \in Tables \cup {"chattype"} : o \in Objects /\ ComesWith(o) = 1
  /\ "messagetype" \in Objects /\ ComesWith("messagetype") = 5
  /\ \A r \in 0..7 : \A o \in At(r) : o \in Objects /\ ComesWith(o) <= r
  /\ \A r \in 1..6 : \A o \in At(r) \ At(r - 1) : ComesWith(o) = r
<1>1. /\ \A o \in Objects : ComesWith(o) \in 1..6
      /\ \A o \in Tables \cup {"chattype"} : ComesWith(o) = 1
      /\ ComesWith("messagetype") = 5
  <2> USE DEF Tables, MessageColumns, Column, Index, ChatIndexes, MessageIndexes, ReadStatusIndexes, UserIndexes
  <2>1. \A o \in Tables \cup {"chattype"} : ComesWith(o) = 1
    BY DEF ComesWith
  <2>2. ComesWith("admin_user") = 2 /\ ComesWith("settings") = 4
    BY DEF ComesWith
  <2>3. \A o \in MessageColumns \cup {"messagetype"} : ComesWith(o) = 5
    BY DEF ComesWith
  <2>4. \A o \in Index : ComesWith(o) = 6
    BY DEF ComesWith
  <2> QED
    BY <2>1, <2>2, <2>3, <2>4 DEF Objects
<1>2. \A o \in Tables \cup {"chattype"} : o \in Objects /\ ComesWith(o) = 1
  BY <1>1 DEF Objects
<1>3. "messagetype" \in Objects /\ ComesWith("messagetype") = 5
  BY <1>1 DEF Objects
<1>4. \A r \in 0..7 : \A o \in At(r) : o \in Objects /\ ComesWith(o) <= r
  BY DEF At
<1>5. \A r \in 1..6 : \A o \in At(r) \ At(r - 1) : ComesWith(o) = r
  <2> SUFFICES ASSUME NEW r \in 1..6, NEW o \in At(r) \ At(r - 1)
               PROVE  ComesWith(o) = r
    OBVIOUS
  <2>1. o \in Objects /\ ComesWith(o) <= r /\ ~(ComesWith(o) <= r - 1)
    BY DEF At
  <2> QED
    BY <1>1, <2>1
<1> QED
  BY <1>1, <1>2, <1>3, <1>4, <1>5

\* A script that creates what one schema lacks of another, each object once and after those
\* that it uses.
Builds(script, from, to) ==
  /\ Len(script) \in Nat /\ DOMAIN script = 1..Len(script)
  /\ \A i \in DOMAIN script : IsStatement(script[i]) /\ ~Drops(script[i])
  /\ \A i \in DOMAIN script : script[i].do = "create" =>
        script[i].on \notin from \cup Index \cup Created(script, i - 1)
  /\ \A i \in DOMAIN script : Creates(script[i]) =>
        Uses(script[i].on) \subseteq (from \cup Created(script, i - 1)) \ {"admin_user"}
  /\ from \cup Created(script, Len(script)) = to

\* A script that drops what one schema has more than another.
Clears(script, from, to) ==
  /\ Len(script) \in Nat /\ DOMAIN script = 1..Len(script)
  /\ \A i \in DOMAIN script : IsStatement(script[i]) /\ ~Creates(script[i])
  /\ from \ Dropped(script, Len(script)) = to

\* In a script that only creates, the first k statements have created what they name.
LEMMA CreatedOnly ==
  ASSUME NEW s, NEW n \in Nat, \A i \in 1..n : Creates(s[i])
  PROVE  \A k \in 0..n : Created(s, k) = {s[i].on : i \in 1..k}
<1> SUFFICES ASSUME NEW k \in 0..n
             PROVE  Created(s, k) = {s[i].on : i \in 1..k}
  OBVIOUS
<1>1. \A j \in 1..k : s[j].do \in {"create", "create_if_missing"}
  <2>1. \A j \in 1..k : j \in 1..n
    OBVIOUS
  <2> QED
    BY <2>1 DEF Creates
<1>2. {j \in 1..k : s[j].do \in {"create", "create_if_missing"}} = 1..k
  BY <1>1
<1> QED
  BY <1>2 DEF Created

\* In a script that only drops, they have dropped it with its parts.
LEMMA DroppedOnly ==
  ASSUME NEW s, NEW n \in Nat, \A i \in 1..n : Drops(s[i])
  PROVE  \A k \in 0..n : Dropped(s, k) = UNION {{s[i].on} \cup Parts(s[i].on) : i \in 1..k}
<1> SUFFICES ASSUME NEW k \in 0..n
             PROVE  Dropped(s, k) = UNION {{s[i].on} \cup Parts(s[i].on) : i \in 1..k}
  OBVIOUS
<1>1. \A j \in 1..k : s[j].do \in {"drop", "drop_if_there"}
  <2>1. \A j \in 1..k : j \in 1..n
    OBVIOUS
  <2> QED
    BY <2>1 DEF Drops
<1>2. {j \in 1..k : s[j].do \in {"drop", "drop_if_there"}} = 1..k
  BY <1>1
<1> QED
  BY <1>2 DEF Dropped

\* 0001 creates the tables, and the type of chats before them.
LEMMA Builds0001 == Builds(Upgrade0001, At(0), At(1))
<1> DEFINE s == Upgrade0001
<1>1. /\ DOMAIN s = 1..6 /\ Len(s) = 6
      /\ s[1] = Create("chattype") /\ s[2] = Create("chat") /\ s[3] = Create("user")
      /\ s[4] = Create("chat_participant") /\ s[5] = Create("message") /\ s[6] = Create("read_status")
  BY DEF Upgrade0001
<1>2. \A i \in 1..6 : s[i].do = "create" /\ Creates(s[i]) /\ ~Drops(s[i])
  <2>1. \A i \in 1..6 : s[i].do = "create"
    BY <1>1 DEF Create, Statement
  <2> QED
    BY <2>1 DEF Creates, Drops
<1>3. /\ s[1].on = "chattype" /\ s[2].on = "chat" /\ s[3].on = "user"
      /\ s[4].on = "chat_participant" /\ s[5].on = "message" /\ s[6].on = "read_status"
  BY <1>1 DEF Create, Statement
<1>4. \A i \in 1..6 : \E o \in Objects : s[i] = Create(o)
  BY <1>1 DEF Objects, Tables
<1> HIDE DEF s
<1>5. \A i \in 1..6 : IsStatement(s[i])
  BY <1>4 DEF IsStatement
<1>6. \A k \in 0..6 : Created(s, k) = {s[i].on : i \in 1..k}
  BY <1>2, CreatedOnly
<1>7. \A i \in 1..6 : s[i].on \notin Index \cup Created(s, i - 1)
  BY <1>3, <1>6 DEF Index, ChatIndexes, MessageIndexes, ReadStatusIndexes, UserIndexes
<1>8. \A i \in 1..6 : Uses(s[i].on) \subseteq Created(s, i - 1) \ {"admin_user"}
  BY <1>3, <1>6 DEF Uses, Parts, Tables, ChatIndexes, MessageIndexes, ReadStatusIndexes, UserIndexes, MessageColumns
<1>9. Created(s, 6) = At(1)
  BY <1>3, <1>6, Schemas DEF Tables
<1> QED
  BY <1>1, <1>2, <1>5, <1>7, <1>8, <1>9, Schemas DEF Builds, s

\* Scripts of one statement.
LEMMA BuildsOne ==
  ASSUME NEW o \in Objects, NEW from, o \notin from \cup Index, Uses(o) \subseteq from \ {"admin_user"}
  PROVE  Builds(<<Create(o)>>, from, from \cup {o})
<1> DEFINE s == <<Create(o)>>
<1>1. DOMAIN s = 1..1 /\ Len(s) = 1 /\ s[1] = Create(o)
  OBVIOUS
<1>2. s[1].do = "create" /\ s[1].on = o
  BY DEF Create, Statement
<1> HIDE DEF s
<1>3. IsStatement(s[1]) /\ Creates(s[1]) /\ ~Drops(s[1])
  BY <1>1, <1>2 DEF IsStatement, Creates, Drops
<1>4. Created(s, 0) = {} /\ Created(s, 1) = {o}
  <2>1. \A k \in 0..1 : Created(s, k) = {s[i].on : i \in 1..k}
    <3>1. \A i \in 1..1 : Creates(s[i])
      BY <1>3
    <3> QED
      BY <3>1, CreatedOnly
  <2> QED
    BY <1>2, <2>1
<1> QED
  BY <1>1, <1>2, <1>3, <1>4 DEF Builds, s

LEMMA ClearsOne ==
  ASSUME NEW o \in Objects, NEW from
  PROVE  Clears(<<Drop(o)>>, from, from \ ({o} \cup Parts(o)))
<1> DEFINE s == <<Drop(o)>>
<1>1. DOMAIN s = 1..1 /\ Len(s) = 1 /\ s[1] = Drop(o)
  OBVIOUS
<1>2. s[1].do = "drop" /\ s[1].on = o
  BY DEF Drop, Statement
<1> HIDE DEF s
<1>3. IsStatement(s[1]) /\ Drops(s[1]) /\ ~Creates(s[1])
  BY <1>1, <1>2 DEF IsStatement, Creates, Drops
<1>4. Dropped(s, 1) = {o} \cup Parts(o)
  <2>1. \A k \in 0..1 : Dropped(s, k) = UNION {{s[i].on} \cup Parts(s[i].on) : i \in 1..k}
    <3>1. \A i \in 1..1 : Drops(s[i])
      BY <1>3
    <3> QED
      BY <3>1, DroppedOnly
  <2> QED
    BY <1>2, <2>1
<1> QED
  BY <1>1, <1>2, <1>3, <1>4 DEF Clears, s

LEMMA AltersOnly ==
  ASSUME NEW w \in Width, NEW from
  PROVE  Builds(<<Alter(w)>>, from, from) /\ Clears(<<Alter(w)>>, from, from)
<1> DEFINE s == <<Alter(w)>>
<1>1. DOMAIN s = 1..1 /\ Len(s) = 1 /\ s[1] = Alter(w)
  OBVIOUS
<1>2. s[1].do = "alter"
  BY DEF Alter, Statement
<1> HIDE DEF s
<1>3. IsStatement(s[1]) /\ ~Creates(s[1]) /\ ~Drops(s[1])
  BY <1>1, <1>2 DEF IsStatement, Creates, Drops
<1>4. Created(s, 1) = {} /\ Dropped(s, 1) = {}
  <2>1. /\ {j \in 1..1 : s[j].do \in {"create", "create_if_missing"}} = {}
        /\ {j \in 1..1 : s[j].do \in {"drop", "drop_if_there"}} = {}
    <3>1. \A j \in 1..1 : s[j].do = "alter"
      BY <1>2
    <3> QED
      BY <3>1
  <2> QED
    BY <2>1 DEF Created, Dropped
<1> QED
  BY <1>1, <1>2, <1>3, <1>4 DEF Builds, Clears, s

LEMMA Builds0002 == Builds(Upgrade0002, At(1), At(2)) /\ Clears(Downgrade0002, At(2), At(1))
<1>1. "admin_user" \in Objects /\ "admin_user" \notin Index /\ Uses("admin_user") = {} /\ Parts("admin_user") = {}
  BY DEF Objects, Index, ChatIndexes, MessageIndexes, ReadStatusIndexes, UserIndexes, Uses, Parts, Tables, MessageColumns
<1>2. At(2) \ {"admin_user"} = At(1)
  BY Schemas
<1> QED
  BY <1>1, <1>2, BuildsOne, ClearsOne, Schemas DEF Upgrade0002, Downgrade0002

LEMMA Builds0003 == Builds(Upgrade0003, At(2), At(3)) /\ Clears(Downgrade0003, At(3), At(2))
BY AltersOnly, Schemas DEF Upgrade0003, Downgrade0003, Width

LEMMA Builds0004 == Builds(Upgrade0004, At(3), At(4)) /\ Clears(Downgrade0004, At(4), At(3))
<1>1. "settings" \in Objects /\ "settings" \notin Index /\ Uses("settings") = {"user"} /\ Parts("settings") = {}
  BY DEF Objects, Column, Index, ChatIndexes, MessageIndexes, ReadStatusIndexes, UserIndexes, Uses, Parts, Tables, MessageColumns
<1>2. "user" \in At(3) \ {"admin_user"}
  BY Schemas DEF Tables
<1>3. At(4) \ {"settings"} = At(3)
  BY Schemas
<1> QED
  BY <1>1, <1>2, <1>3, BuildsOne, ClearsOne, Schemas DEF Upgrade0004, Downgrade0004

LEMMA Builds0007 == Clears(Upgrade0007, At(6), At(7)) /\ Builds(Downgrade0007, At(7), At(6))
<1>1. "admin_user" \in Objects /\ "admin_user" \notin Index /\ Uses("admin_user") = {} /\ Parts("admin_user") = {}
  BY DEF Objects, Index, ChatIndexes, MessageIndexes, ReadStatusIndexes, UserIndexes, Uses, Parts, Tables, MessageColumns
<1>2. "admin_user" \notin At(7) /\ At(6) = At(7) \cup {"admin_user"}
  BY Schemas
<1> QED
  BY <1>1, <1>2, BuildsOne, ClearsOne, Schemas DEF Upgrade0007, Downgrade0007

LEMMA Clears0001 == Clears(Downgrade0001, At(1), At(0))
<1> DEFINE s == Downgrade0001
<1>1. /\ DOMAIN s = 1..6 /\ Len(s) = 6
      /\ s[1] = Drop("read_status") /\ s[2] = Drop("message") /\ s[3] = Drop("chat_participant")
      /\ s[4] = Drop("user") /\ s[5] = Drop("chat") /\ s[6] = DropIfThere("chattype")
  BY DEF Downgrade0001
<1>2. \A i \in 1..6 : s[i].do \in {"drop", "drop_if_there"}
  BY <1>1 DEF Drop, DropIfThere, Statement
<1>3. /\ s[1].on = "read_status" /\ s[2].on = "message" /\ s[3].on = "chat_participant"
      /\ s[4].on = "user" /\ s[5].on = "chat" /\ s[6].on = "chattype"
  BY <1>1 DEF Drop, DropIfThere, Statement
<1>4. \A i \in 1..6 : \E o \in Objects : s[i] \in {Drop(o), DropIfThere(o)}
  BY <1>1 DEF Objects, Tables
<1> HIDE DEF s
<1>5. \A i \in 1..6 : IsStatement(s[i]) /\ Drops(s[i]) /\ ~Creates(s[i])
  BY <1>2, <1>4 DEF IsStatement, Drops, Creates
<1>6. \A k \in 0..6 : Dropped(s, k) = UNION {{s[i].on} \cup Parts(s[i].on) : i \in 1..k}
  BY <1>5, DroppedOnly
<1>7. \A i \in 1..6 : s[i].on \in Dropped(s, 6)
  BY <1>6
<1>8. At(1) \subseteq Dropped(s, 6)
  BY <1>3, <1>7, Schemas DEF Tables
<1> QED
  BY <1>1, <1>5, <1>8, Schemas DEF Clears, s

LEMMA Builds0005 == Builds(Upgrade0005, At(4), At(5))
<1> DEFINE s == Upgrade0005
<1>1. /\ DOMAIN s = 1..4 /\ Len(s) = 4
      /\ s[1] = AddIndex("messagetype") /\ s[2] = Create("message_type")
      /\ s[3] = Create("file_name") /\ s[4] = Create("file_path")
  BY DEF Upgrade0005, AddIndex
<1> HIDE DEF s
<1>2. /\ s[1].do = "create_if_missing"
      /\ \A i \in 2..4 : s[i].do = "create"
  BY <1>1 DEF Create, AddIndex, Statement
<1>3. /\ s[1].on = "messagetype" /\ s[2].on = "message_type"
      /\ s[3].on = "file_name" /\ s[4].on = "file_path"
  BY <1>1 DEF Create, AddIndex, Statement
<1>4. \A i \in 1..4 : \E o \in Objects : s[i] \in {Create(o), AddIndex(o)}
  BY <1>1 DEF Objects, Column, MessageColumns
<1>5. \A i \in 1..4 : IsStatement(s[i])
  BY <1>4 DEF IsStatement
<1>6. \A i \in 1..4 : Creates(s[i]) /\ ~Drops(s[i])
  <2>1. \A i \in 1..4 : i = 1 \/ i \in 2..4
    OBVIOUS
  <2> QED
    BY <1>2, <2>1 DEF Creates, Drops
<1>7. \A k \in 0..4 : Created(s, k) = {s[i].on : i \in 1..k}
  BY <1>6, CreatedOnly
<1>8. {"user", "message"} \subseteq At(4) /\ \A i \in 1..4 : s[i].on \notin At(4) \cup Index
  BY <1>3, Schemas DEF Tables, Index, ChatIndexes, MessageIndexes, ReadStatusIndexes, UserIndexes, MessageColumns
<1>9. \A i \in 1..4 : s[i].on \notin Created(s, i - 1)
  BY <1>3, <1>7
<1>10. \A i \in 1..4 : Uses(s[i].on) \subseteq (At(4) \cup Created(s, i - 1)) \ {"admin_user"}
  BY <1>3, <1>7, <1>8 DEF Uses, Parts, Tables, ChatIndexes, MessageIndexes, ReadStatusIndexes, UserIndexes, MessageColumns
<1>11. At(4) \cup Created(s, 4) = At(5)
  BY <1>3, <1>7, Schemas DEF MessageColumns
<1> QED
  BY <1>1, <1>5, <1>6, <1>8, <1>9, <1>10, <1>11 DEF Builds, s

LEMMA Clears0005 == Clears(Downgrade0005, At(5), At(4))
<1> DEFINE s == Downgrade0005
<1>1. /\ DOMAIN s = 1..4 /\ Len(s) = 4
      /\ s[1] = Drop("file_path") /\ s[2] = Drop("file_name")
      /\ s[3] = Drop("message_type") /\ s[4] = DropIfThere("messagetype")
  BY DEF Downgrade0005
<1>2. \A i \in 1..4 : s[i].do \in {"drop", "drop_if_there"}
  BY <1>1 DEF Drop, DropIfThere, Statement
<1>3. /\ s[1].on = "file_path" /\ s[2].on = "file_name"
      /\ s[3].on = "message_type" /\ s[4].on = "messagetype"
  BY <1>1 DEF Drop, DropIfThere, Statement
<1>4. \A i \in 1..4 : \E o \in Objects : s[i] \in {Drop(o), DropIfThere(o)}
  BY <1>1 DEF Objects, Column, MessageColumns
<1> HIDE DEF s
<1>5. \A i \in 1..4 : IsStatement(s[i]) /\ Drops(s[i]) /\ ~Creates(s[i])
  BY <1>2, <1>4 DEF IsStatement, Drops, Creates
<1>6. \A k \in 0..4 : Dropped(s, k) = UNION {{s[i].on} \cup Parts(s[i].on) : i \in 1..k}
  BY <1>5, DroppedOnly
<1>7. \A i \in 1..4 : Parts(s[i].on) = {}
  BY <1>3 DEF Parts
<1>8. Dropped(s, 4) = MessageColumns \cup {"messagetype"}
  BY <1>3, <1>6, <1>7 DEF MessageColumns
<1>9. At(5) \ (MessageColumns \cup {"messagetype"}) = At(4)
  BY Schemas
<1> QED
  BY <1>1, <1>5, <1>8, <1>9 DEF Clears, s

LEMMA Builds0006 == Builds(Upgrade0006, At(5), At(6))
<1> DEFINE s == Upgrade0006
           Indexing == (2..8) \cup (10..11)
<1>1. /\ DOMAIN s = 1..11 /\ Len(s) = 11
      /\ s[1] = Commit /\ s[9] = Alter(1048)
      /\ s[2] = AddIndex("idx_chat_on_guid")
      /\ s[3] = AddIndex("idx_chat_on_is_deleted_chat_type")
      /\ s[4] = AddIndex("idx_message_on_chat_id")
      /\ s[5] = AddIndex("idx_message_on_user_id")
      /\ s[6] = AddIndex("idx_message_on_user_id_chat_id")
      /\ s[7] = AddIndex("idx_read_status_on_chat_id")
      /\ s[8] = AddIndex("idx_read_status_on_user_id")
      /\ s[10] = AddIndex("idx_user_on_email_username")
      /\ s[11] = AddIndex("idx_user_partial_on_email_not_deleted")
  BY DEF Upgrade0006
<1> HIDE DEF s
<1>2. \A i \in 1..11 : i \in Indexing \/ i = 1 \/ i = 9
  OBVIOUS
<1>3. s[1].do = "commit" /\ s[9].do = "alter" /\ \A i \in Indexing : s[i].do = "create_if_missing"
  BY <1>1 DEF Commit, Alter, AddIndex, Statement
<1>4. /\ s[2].on = "idx_chat_on_guid" /\ s[3].on = "idx_chat_on_is_deleted_chat_type"
      /\ s[4].on = "idx_message_on_chat_id" /\ s[5].on = "idx_message_on_user_id"
      /\ s[6].on = "idx_message_on_user_id_chat_id"
      /\ s[7].on = "idx_read_status_on_chat_id" /\ s[8].on = "idx_read_status_on_user_id"
      /\ s[10].on = "idx_user_on_email_username"
      /\ s[11].on = "idx_user_partial_on_email_not_deleted"
  BY <1>1 DEF AddIndex, Statement
<1>5. \A i \in Indexing : \E o \in Index : s[i] = AddIndex(o) /\ s[i].on = o
  BY <1>1, <1>4 DEF Index, ChatIndexes, MessageIndexes, ReadStatusIndexes, UserIndexes
<1>6. \A i \in 1..11 : IsStatement(s[i])
  BY <1>1, <1>2, <1>5 DEF IsStatement, Objects, Width
<1>7. \A i \in 1..11 : (Creates(s[i]) <=> i \in Indexing) /\ ~Drops(s[i]) /\ s[i].do # "create"
  BY <1>2, <1>3 DEF Creates, Drops
<1>8. \A o \in Index : Uses(o) \subseteq Tables
  BY DEF Uses, Index, ChatIndexes, MessageIndexes, ReadStatusIndexes, UserIndexes
<1>9. Tables \subseteq At(5) \ {"admin_user"}
  BY Schemas DEF Tables
<1>10. {j \in 1..11 : s[j].do \in {"create_if_missing", "create"}} = Indexing
  BY <1>7 DEF Creates
<1>11. Created(s, 11) = {s[i].on : i \in Indexing}
  BY <1>10 DEF Created
<1>12. Created(s, 11) = Index
  BY <1>4, <1>5, <1>11 DEF Index, ChatIndexes, MessageIndexes, ReadStatusIndexes, UserIndexes
<1>13. \A i \in 1..11 : Creates(s[i]) => Uses(s[i].on) \subseteq (At(5) \cup Created(s, i - 1)) \ {"admin_user"}
  BY <1>5, <1>7, <1>8, <1>9
<1> QED
  BY <1>1, <1>6, <1>7, <1>12, <1>13, Schemas DEF Builds, s

LEMMA Clears0006 == Clears(Downgrade0006, At(6), At(5))
<1> DEFINE s == Downgrade0006
           Indexing == (2..3) \cup (5..11)
<1>1. /\ DOMAIN s = 1..11 /\ Len(s) = 11
      /\ s[1] = Commit /\ s[4] = Alter(1000)
      /\ s[2] = DropIfThere("idx_user_partial_on_email_not_deleted")
      /\ s[3] = DropIfThere("idx_user_on_email_username")
      /\ s[5] = DropIfThere("idx_read_status_on_user_id")
      /\ s[6] = DropIfThere("idx_read_status_on_chat_id")
      /\ s[7] = DropIfThere("idx_message_on_user_id_chat_id")
      /\ s[8] = DropIfThere("idx_message_on_user_id")
      /\ s[9] = DropIfThere("idx_message_on_chat_id")
      /\ s[10] = DropIfThere("idx_chat_on_is_deleted_chat_type")
      /\ s[11] = DropIfThere("idx_chat_on_guid")
  BY DEF Downgrade0006
<1> HIDE DEF s
<1>2. \A i \in 1..11 : i \in Indexing \/ i = 1 \/ i = 4
  OBVIOUS
<1>3. s[1].do = "commit" /\ s[4].do = "alter" /\ \A i \in Indexing : s[i].do = "drop_if_there"
  BY <1>1 DEF Commit, Alter, DropIfThere, Statement
<1>4. /\ s[2].on = "idx_user_partial_on_email_not_deleted" /\ s[3].on = "idx_user_on_email_username"
      /\ s[5].on = "idx_read_status_on_user_id" /\ s[6].on = "idx_read_status_on_chat_id"
      /\ s[7].on = "idx_message_on_user_id_chat_id"
      /\ s[8].on = "idx_message_on_user_id" /\ s[9].on = "idx_message_on_chat_id"
      /\ s[10].on = "idx_chat_on_is_deleted_chat_type" /\ s[11].on = "idx_chat_on_guid"
  BY <1>1 DEF DropIfThere, Statement
<1>5. \A i \in Indexing : \E o \in Index : s[i] = DropIfThere(o) /\ s[i].on = o
  BY <1>1, <1>4 DEF Index, ChatIndexes, MessageIndexes, ReadStatusIndexes, UserIndexes
<1>6. \A i \in 1..11 : IsStatement(s[i])
  BY <1>1, <1>2, <1>5 DEF IsStatement, Objects, Width
<1>7. \A i \in 1..11 : (Drops(s[i]) <=> i \in Indexing) /\ ~Creates(s[i])
  BY <1>2, <1>3 DEF Creates, Drops
<1>8. \A o \in Index : Parts(o) = {}
  BY DEF Parts, Index, ChatIndexes, MessageIndexes, ReadStatusIndexes, UserIndexes
<1>9. {j \in 1..11 : s[j].do \in {"drop", "drop_if_there"}} = Indexing
  BY <1>7 DEF Drops
<1>10. Dropped(s, 11) = UNION {{s[i].on} \cup Parts(s[i].on) : i \in Indexing}
  BY <1>9 DEF Dropped
<1>11. Dropped(s, 11) = {s[i].on : i \in Indexing}
  BY <1>5, <1>8, <1>10
<1>12. Dropped(s, 11) = Index
  BY <1>4, <1>5, <1>11 DEF Index, ChatIndexes, MessageIndexes, ReadStatusIndexes, UserIndexes
<1>13. At(6) \ Index = At(5)
  BY Schemas
<1> QED
  BY <1>1, <1>6, <1>7, <1>12, <1>13 DEF Clears, s

\* The scripts of a command, in one place.
LEMMA Scripts ==
  /\ \A r \in 1..6 : Builds(Upgrades[r], At(r - 1), At(r)) /\ Clears(Downgrades[r], At(r), At(r - 1))
  /\ Clears(Upgrades[7], At(6), At(7)) /\ Builds(Downgrades[7], At(7), At(6))
<1>1. /\ Upgrades[1] = Upgrade0001 /\ Upgrades[2] = Upgrade0002 /\ Upgrades[3] = Upgrade0003
      /\ Upgrades[4] = Upgrade0004 /\ Upgrades[5] = Upgrade0005 /\ Upgrades[6] = Upgrade0006
      /\ Upgrades[7] = Upgrade0007
  BY DEF Upgrades
<1>2. /\ Downgrades[1] = Downgrade0001 /\ Downgrades[2] = Downgrade0002 /\ Downgrades[3] = Downgrade0003
      /\ Downgrades[4] = Downgrade0004 /\ Downgrades[5] = Downgrade0005 /\ Downgrades[6] = Downgrade0006
      /\ Downgrades[7] = Downgrade0007
  BY DEF Downgrades
<1>3. \A r \in 1..6 : r = 1 \/ r = 2 \/ r = 3 \/ r = 4 \/ r = 5 \/ r = 6
  OBVIOUS
<1> QED
  BY <1>1, <1>2, <1>3, Builds0001, Builds0002, Builds0003, Builds0004, Builds0005, Builds0006,
     Builds0007, Clears0001, Clears0005, Clears0006

\* Where the width of user_image changes, and where the transaction ends.
LEMMA Landmarks ==
  /\ \A r \in 1..7 : \A i \in DOMAIN Upgrades[r] :
        /\ Upgrades[r][i].do = "alter" => \/ r = 3 /\ i = 1 /\ Upgrades[r][i].to = 1000
                                          \/ r = 6 /\ i = 9 /\ Upgrades[r][i].to = 1048
        /\ Upgrades[r][i].do = "commit" => r = 6 /\ i = 1
  /\ \A r \in 1..7 : \A i \in DOMAIN Downgrades[r] :
        /\ Downgrades[r][i].do = "alter" => \/ r = 3 /\ i = 1 /\ Downgrades[r][i].to = 128
                                            \/ r = 6 /\ i = 4 /\ Downgrades[r][i].to = 1000
        /\ Downgrades[r][i].do = "commit" => r = 6
  /\ Upgrades[3][1].do = "alter" /\ Upgrades[6][9].do = "alter" /\ Upgrades[6][1] = Commit
  /\ Downgrades[3][1].do = "alter" /\ Downgrades[6][4].do = "alter"
<1> USE DEF Create, Drop, Alter, AddIndex, DropIfThere, Commit, Statement
<1>1. /\ Upgrades[1] = Upgrade0001 /\ Upgrades[2] = Upgrade0002 /\ Upgrades[3] = Upgrade0003
      /\ Upgrades[4] = Upgrade0004 /\ Upgrades[5] = Upgrade0005 /\ Upgrades[6] = Upgrade0006
      /\ Upgrades[7] = Upgrade0007
  BY DEF Upgrades
<1>2. /\ Downgrades[1] = Downgrade0001 /\ Downgrades[2] = Downgrade0002 /\ Downgrades[3] = Downgrade0003
      /\ Downgrades[4] = Downgrade0004 /\ Downgrades[5] = Downgrade0005 /\ Downgrades[6] = Downgrade0006
      /\ Downgrades[7] = Downgrade0007
  BY DEF Downgrades
<1>3. /\ \A i \in DOMAIN Upgrade0001 : Upgrade0001[i].do = "create"
      /\ \A i \in DOMAIN Upgrade0002 : Upgrade0002[i].do = "create"
      /\ \A i \in DOMAIN Upgrade0004 : Upgrade0004[i].do = "create"
      /\ \A i \in DOMAIN Upgrade0005 : Upgrade0005[i].do \in {"create", "create_if_missing"}
      /\ \A i \in DOMAIN Upgrade0007 : Upgrade0007[i].do = "drop"
  BY DEF Upgrade0001, Upgrade0002, Upgrade0004, Upgrade0005, Upgrade0007
<1>4. /\ \A i \in DOMAIN Downgrade0001 : Downgrade0001[i].do \in {"drop", "drop_if_there"}
      /\ \A i \in DOMAIN Downgrade0002 : Downgrade0002[i].do = "drop"
      /\ \A i \in DOMAIN Downgrade0004 : Downgrade0004[i].do = "drop"
      /\ \A i \in DOMAIN Downgrade0005 : Downgrade0005[i].do \in {"drop", "drop_if_there"}
      /\ \A i \in DOMAIN Downgrade0007 : Downgrade0007[i].do = "create"
  BY DEF Downgrade0001, Downgrade0002, Downgrade0004, Downgrade0005, Downgrade0007
<1>5. /\ \A i \in DOMAIN Upgrade0003 : i = 1 /\ Upgrade0003[i].do = "alter" /\ Upgrade0003[i].to = 1000
      /\ \A i \in DOMAIN Downgrade0003 : i = 1 /\ Downgrade0003[i].do = "alter" /\ Downgrade0003[i].to = 128
      /\ Upgrade0003[1].do = "alter" /\ Downgrade0003[1].do = "alter"
  BY DEF Upgrade0003, Downgrade0003
<1>6. /\ \A i \in DOMAIN Upgrade0006 :
            \/ i = 1 /\ Upgrade0006[i].do = "commit"
            \/ i = 9 /\ Upgrade0006[i].do = "alter" /\ Upgrade0006[i].to = 1048
            \/ Upgrade0006[i].do = "create_if_missing"
      /\ Upgrade0006[9].do = "alter" /\ Upgrade0006[1] = Commit
  BY DEF Upgrade0006
<1>7. /\ \A i \in DOMAIN Downgrade0006 :
            \/ i = 1 /\ Downgrade0006[i].do = "commit"
            \/ i = 4 /\ Downgrade0006[i].do = "alter" /\ Downgrade0006[i].to = 1000
            \/ Downgrade0006[i].do = "drop_if_there"
      /\ Downgrade0006[4].do = "alter"
  BY DEF Downgrade0006
<1>8. \A r \in 1..7 : r = 1 \/ r = 2 \/ r = 3 \/ r = 4 \/ r = 5 \/ r = 6 \/ r = 7
  OBVIOUS
<1> QED
  BY <1>1, <1>2, <1>3, <1>4, <1>5, <1>6, <1>7, <1>8

-----------------------------------------------------------------------------
(***************************************************************************)
(* The progress of a script.                                               *)
(***************************************************************************)

\* The schema after k statements of a script that starts from a set of objects.
After(script, from, k) == (from \cup Created(script, k)) \ Dropped(script, k)

\* One statement more.
LEMMA OneMore ==
  ASSUME NEW s, NEW k \in Nat
  PROVE  /\ Created(s, k + 1) = IF Creates(s[k + 1]) THEN Created(s, k) \cup {s[k + 1].on}
                                                     ELSE Created(s, k)
         /\ Dropped(s, k + 1) = IF Drops(s[k + 1])
                                THEN Dropped(s, k) \cup ({s[k + 1].on} \cup Parts(s[k + 1].on))
                                ELSE Dropped(s, k)
<1>1. 1..(k + 1) = (1..k) \cup {k + 1}
  OBVIOUS
<1>2. \A S : {j \in 1..(k + 1) : s[j].do \in S} =
                {j \in 1..k : s[j].do \in S} \cup (IF s[k + 1].do \in S THEN {k + 1} ELSE {})
  BY <1>1
<1> DEFINE C == {j \in 1..k : s[j].do \in {"create", "create_if_missing"}}
           D == {j \in 1..k : s[j].do \in {"drop", "drop_if_there"}}
<1>3. /\ Created(s, k) = {s[i].on : i \in C}
      /\ Created(s, k + 1) = {s[i].on : i \in C \cup (IF Creates(s[k + 1]) THEN {k + 1} ELSE {})}
  BY <1>2 DEF Created, Creates
<1>4. /\ Dropped(s, k) = UNION {{s[i].on} \cup Parts(s[i].on) : i \in D}
      /\ Dropped(s, k + 1) = UNION {{s[i].on} \cup Parts(s[i].on) :
                                       i \in D \cup (IF Drops(s[k + 1]) THEN {k + 1} ELSE {})}
  BY <1>2 DEF Dropped, Drops
<1> HIDE DEF C, D
<1>5. ASSUME Creates(s[k + 1])
      PROVE  Created(s, k + 1) = Created(s, k) \cup {s[k + 1].on}
  BY <1>3, <1>5
<1>6. ASSUME ~Creates(s[k + 1])
      PROVE  Created(s, k + 1) = Created(s, k)
  BY <1>3, <1>6
<1>7. ASSUME Drops(s[k + 1])
      PROVE  Dropped(s, k + 1) = Dropped(s, k) \cup ({s[k + 1].on} \cup Parts(s[k + 1].on))
  BY <1>4, <1>7
<1>8. ASSUME ~Drops(s[k + 1])
      PROVE  Dropped(s, k + 1) = Dropped(s, k)
  BY <1>4, <1>8
<1> QED
  BY <1>5, <1>6, <1>7, <1>8

\* Nothing is done before the first statement.
LEMMA NoneYet ==
  \A s, from : Created(s, 0) = {} /\ Dropped(s, 0) = {} /\ After(s, from, 0) = from
<1>1. \A s, S : {j \in 1..0 : s[j].do \in S} = {}
  OBVIOUS
<1> QED
  BY <1>1 DEF Created, Dropped, After

\* A script that builds never drops, one that clears never creates.
LEMMA OneDirection ==
  ASSUME NEW s, NEW from, NEW to, NEW k \in 0..Len(s)
  PROVE  /\ Builds(s, from, to) => Dropped(s, k) = {}
         /\ Clears(s, from, to) => Created(s, k) = {}
<1>1. ASSUME Builds(s, from, to)
      PROVE  Dropped(s, k) = {}
  <2>1. \A j \in 1..k : ~(s[j].do \in {"drop", "drop_if_there"})
    BY <1>1 DEF Builds, Drops
  <2>2. {j \in 1..k : s[j].do \in {"drop", "drop_if_there"}} = {}
    BY <2>1
  <2> QED
    BY <2>2 DEF Dropped
<1>2. ASSUME Clears(s, from, to)
      PROVE  Created(s, k) = {}
  <2>1. \A j \in 1..k : ~(s[j].do \in {"create", "create_if_missing"})
    BY <1>2 DEF Clears, Creates
  <2>2. {j \in 1..k : s[j].do \in {"create", "create_if_missing"}} = {}
    BY <2>1
  <2> QED
    BY <2>2 DEF Created
<1> QED
  BY <1>1, <1>2

\* At its end the script has reached the schema that it is for.
LEMMA AllDone ==
  ASSUME NEW s, NEW from, NEW to, Builds(s, from, to) \/ Clears(s, from, to)
  PROVE  After(s, from, Len(s)) = to
<1>1. Len(s) \in 0..Len(s)
  BY DEF Builds, Clears
<1>2. CASE Builds(s, from, to)
  BY <1>1, <1>2, OneDirection DEF After, Builds
<1>3. CASE Clears(s, from, to)
  BY <1>1, <1>3, OneDirection DEF After, Clears
<1> QED
  BY <1>2, <1>3

\* A statement of a schema of the database.
LEMMA ApplyKeepsSchema ==
  ASSUME NEW t \in Schema, NEW st, IsStatement(st)
  PROVE  /\ Apply(t, st) \in Schema
         /\ Apply(t, st).version = t.version
         /\ Creates(st) => Apply(t, st).objects = t.objects \cup {st.on}
         /\ Drops(st) => Apply(t, st).objects = t.objects \ ({st.on} \cup Parts(st.on))
         /\ ~Creates(st) /\ ~Drops(st) => Apply(t, st).objects = t.objects
         /\ st.do = "alter" => Apply(t, st).width = st.to
         /\ st.do # "alter" => Apply(t, st).width = t.width
         /\ Creates(st) \/ Drops(st) => st.do # "alter"
         /\ st.do = "commit" <=> st = Commit
<1>1. CASE \E o \in Objects : st \in {Create(o), AddIndex(o)}
  <2>1. PICK o \in Objects : st \in {Create(o), AddIndex(o)}
    BY <1>1
  <2>2. st.do \in {"create", "create_if_missing"} /\ st.on = o
    BY <2>1 DEF Create, AddIndex, Statement
  <2>3. Apply(t, st) = [t EXCEPT !.objects = @ \cup {o}]
    BY <2>2 DEF Apply
  <2> QED
    BY <2>2, <2>3 DEF Schema, Creates, Drops, Commit, Statement
<1>2. CASE \E o \in Objects : st \in {Drop(o), DropIfThere(o)}
  <2>1. PICK o \in Objects : st \in {Drop(o), DropIfThere(o)}
    BY <1>2
  <2>2. st.do \in {"drop", "drop_if_there"} /\ st.on = o
    BY <2>1 DEF Drop, DropIfThere, Statement
  <2>3. Apply(t, st) = [t EXCEPT !.objects = @ \ ({o} \cup Parts(o))]
    BY <2>2 DEF Apply
  <2> QED
    BY <2>2, <2>3 DEF Schema, Creates, Drops, Commit, Statement
<1>3. CASE \E w \in Width : st = Alter(w)
  <2>1. PICK w \in Width : st = Alter(w)
    BY <1>3
  <2>2. st.do = "alter" /\ st.to = w
    BY <2>1 DEF Alter, Statement
  <2>3. Apply(t, st) = [t EXCEPT !.width = w]
    BY <2>2 DEF Apply
  <2> QED
    BY <2>2, <2>3 DEF Schema, Creates, Drops, Commit, Statement, Width
<1>4. CASE st = Commit
  <2>1. st.do = "commit"
    BY <1>4 DEF Commit, Statement
  <2>2. Apply(t, st) = t
    BY <2>1 DEF Apply
  <2> QED
    BY <1>4, <2>1, <2>2 DEF Creates, Drops
<1> QED
  BY <1>1, <1>2, <1>3, <1>4 DEF IsStatement

\* What the schema shows stays in step with the script.
LEMMA OneStatement ==
  ASSUME NEW s, NEW from, NEW to, Builds(s, from, to) \/ Clears(s, from, to),
         NEW k \in Nat, k < Len(s), NEW t \in Schema, Shows(t, After(s, from, k)),
         NEW st, st = s[k + 1]
  PROVE  Shows(Apply(t, st), After(s, from, k + 1))
<1> DEFINE A == After(s, from, k)
<1>1. Len(s) \in Nat /\ k + 1 \in 1..Len(s) /\ k \in 0..Len(s) /\ k + 1 \in 0..Len(s) /\ k + 1 \in DOMAIN s
  BY DEF Builds, Clears
<1>2. IsStatement(st)
  BY <1>1 DEF Builds, Clears
<1>3. CASE Creates(st)
  <2>1. Builds(s, from, to)
    BY <1>1, <1>3 DEF Clears
  <2>2. Dropped(s, k) = {} /\ Dropped(s, k + 1) = {}
    BY <1>1, <2>1, OneDirection
  <2>3. After(s, from, k + 1) = A \cup {st.on}
    BY <1>3, <2>2, OneMore DEF After
  <2>4. Apply(t, st).objects = t.objects \cup {st.on}
    BY <1>2, <1>3, ApplyKeepsSchema
  <2> QED
    BY <2>3, <2>4 DEF Shows
<1>4. CASE Drops(st)
  <2>1. Clears(s, from, to)
    BY <1>1, <1>4 DEF Builds
  <2>2. Created(s, k) = {} /\ Created(s, k + 1) = {}
    BY <1>1, <2>1, OneDirection
  <2>3. After(s, from, k + 1) = A \ ({st.on} \cup Parts(st.on))
    BY <1>4, <2>2, OneMore DEF After
  <2>4. Apply(t, st).objects = t.objects \ ({st.on} \cup Parts(st.on))
    BY <1>2, <1>4, ApplyKeepsSchema
  <2>5. /\ t.objects \ A \subseteq Index /\ A \ t.objects \subseteq {"admin_user"} \cup Lost
    BY DEF Shows
  <2> DEFINE gone == {st.on} \cup Parts(st.on)
  <2>6. /\ (t.objects \ gone) \ (A \ gone) \subseteq Index
        /\ (A \ gone) \ (t.objects \ gone) \subseteq {"admin_user"} \cup Lost
    <3> HIDE DEF gone, A
    <3> QED
      BY <2>5
  <2>7. Apply(t, st).objects = t.objects \ gone /\ After(s, from, k + 1) = A \ gone
    BY <2>3, <2>4
  <2> HIDE DEF gone, A
  <2> QED
    BY <2>6, <2>7 DEF Shows
<1>5. CASE ~Creates(st) /\ ~Drops(st)
  <2>1. After(s, from, k + 1) = A
    BY <1>5, OneMore DEF After
  <2>2. Apply(t, st).objects = t.objects
    BY <1>2, <1>5, ApplyKeepsSchema
  <2> QED
    BY <2>1, <2>2 DEF Shows
<1> QED
  BY <1>3, <1>4, <1>5

-----------------------------------------------------------------------------
(***************************************************************************)
(* The inductive invariant.                                                *)
(***************************************************************************)
\* A command under way runs the script from the version on record to the next.
LEMMA ScriptUnderWay ==
  ASSUME IInv, UnderWay
  PROVE  /\ Revision \in 1..HeadRevision
         /\ Target \in 0..HeadRevision
         /\ \/ Builds(Script, At(work.version), At(Target))
            \/ Clears(Script, At(work.version), At(Target))
         /\ \A k : Reached(k) = After(Script, At(work.version), k)
         /\ command \in {"upgrade", "downgrade"}
         /\ step \in 0..Len(Script) /\ Len(Script) \in Nat
         /\ Due <=> step < Len(Script)
         /\ ~Due <=> step = Len(Script)
<1>1. /\ work.version \in 0..7 /\ goal \in 0..7 /\ goal # work.version
      /\ command \in {"upgrade", "downgrade"} /\ CommandOK
  BY DEF IInv, TypeOK, UnderWay, Schema, HeadRevision
<1> DEFINE Runs == /\ Revision \in 1..HeadRevision /\ Target \in 0..HeadRevision
                   /\ \/ Builds(Script, At(work.version), At(Target))
                      \/ Clears(Script, At(work.version), At(Target))
<1>2. ASSUME command = "upgrade"
      PROVE  Runs
  <2>1. work.version \in 0..6 /\ Revision = work.version + 1 /\ Target = work.version + 1
    BY <1>1, <1>2 DEF CommandOK, HeadRevision, Revision, Target
  <2>2. Script = Upgrades[work.version + 1]
    BY <1>2, <2>1 DEF Script
  <2>3. ASSUME work.version \in 0..5
        PROVE  Builds(Upgrades[work.version + 1], At(work.version), At(work.version + 1))
    <3>1. work.version + 1 \in 1..6 /\ (work.version + 1) - 1 = work.version
      BY <2>3
    <3> DEFINE r == work.version + 1
    <3>2. Builds(Upgrades[r], At(r - 1), At(r))
      BY <3>1, Scripts
    <3> QED
      BY <3>1, <3>2
  <2>4. ASSUME work.version = 6
        PROVE  Clears(Upgrades[work.version + 1], At(work.version), At(work.version + 1))
    BY <2>4, Scripts
  <2>5. work.version \in 0..5 \/ work.version = 6
    BY <2>1
  <2>6. Revision \in 1..HeadRevision /\ Target \in 0..HeadRevision
    BY <2>1 DEF HeadRevision
  <2> QED
    BY <2>1, <2>2, <2>3, <2>4, <2>5, <2>6
<1>3. ASSUME command = "downgrade"
      PROVE  Runs
  <2>1. work.version \in 1..7 /\ Revision = work.version /\ Target = work.version - 1
    BY <1>1, <1>3 DEF CommandOK, Target, Revision
  <2>2. Script = Downgrades[work.version]
    BY <1>3, <2>1 DEF Script
  <2>3. ASSUME work.version \in 1..6
        PROVE  Clears(Downgrades[work.version], At(work.version), At(work.version - 1))
    BY <2>3, Scripts
  <2>4. ASSUME work.version = 7
        PROVE  Builds(Downgrades[work.version], At(work.version), At(work.version - 1))
    BY <2>4, Scripts
  <2>5. work.version \in 1..6 \/ work.version = 7
    BY <2>1
  <2>6. Revision \in 1..HeadRevision /\ Target \in 0..HeadRevision
    BY <2>1 DEF HeadRevision
  <2> QED
    BY <2>1, <2>2, <2>3, <2>4, <2>5, <2>6
<1>4. Len(Script) \in Nat
  BY <1>1, <1>2, <1>3 DEF Builds, Clears
<1>5. step \in 0..Len(Script)
  BY <1>1, <1>4 DEF IInv, TypeOK, CommandOK
<1>6. /\ Due <=> step < Len(Script)
      /\ ~Due <=> step = Len(Script)
  BY <1>4, <1>5 DEF Due
<1> QED
  BY <1>1, <1>2, <1>3, <1>4, <1>5, <1>6 DEF Reached, After

\* The next statement, and where those that are more than a create or a drop stand.
LEMMA StatementDue ==
  ASSUME IInv, Due
  PROVE  /\ IsStatement(NextStatement)
         /\ step \in Nat /\ step + 1 <= Len(Script) /\ step + 1 \in DOMAIN Script
         /\ NextStatement.do = "alter" =>
               \/ command = "upgrade" /\ Revision = 3 /\ step = 0 /\ NextStatement.to = 1000
               \/ command = "upgrade" /\ Revision = 6 /\ step = 8 /\ NextStatement.to = 1048
               \/ command = "downgrade" /\ Revision = 3 /\ step = 0 /\ NextStatement.to = 128
               \/ command = "downgrade" /\ Revision = 6 /\ step = 3 /\ NextStatement.to = 1000
         /\ NextStatement.do # "alter" =>
               /\ ~(command = "upgrade" /\ Revision = 3 /\ step = 0)
               /\ ~(command = "upgrade" /\ Revision = 6 /\ step = 8)
               /\ ~(command = "downgrade" /\ Revision = 3 /\ step = 0)
               /\ ~(command = "downgrade" /\ Revision = 6 /\ step = 3)
         /\ command = "upgrade" /\ NextStatement.do = "commit" => Revision = 6 /\ step = 0
         /\ command = "upgrade" /\ Revision = 6 /\ step = 0 => NextStatement = Commit
         /\ NextStatement.do = "commit" => Revision = 6
<1>1. UnderWay
  BY DEF Due
<1>2. /\ step \in Nat /\ step < Len(Script) /\ Len(Script) \in Nat
      /\ Builds(Script, At(work.version), At(Target)) \/ Clears(Script, At(work.version), At(Target))
      /\ Revision \in 1..7 /\ command \in {"upgrade", "downgrade"}
  BY <1>1, ScriptUnderWay DEF HeadRevision
<1>3. step + 1 \in DOMAIN Script /\ step + 1 <= Len(Script)
  BY <1>2 DEF Builds, Clears
<1>4. IsStatement(NextStatement)
  BY <1>2, <1>3 DEF Builds, Clears, NextStatement
<1>5. CASE command = "upgrade"
  <2>1. NextStatement = Upgrades[Revision][step + 1] /\ step + 1 \in DOMAIN Upgrades[Revision]
    BY <1>3, <1>5 DEF NextStatement, Script
  <2> QED
    BY <1>2, <1>3, <1>4, <1>5, <2>1, Landmarks
<1>6. CASE command = "downgrade"
  <2>1. NextStatement = Downgrades[Revision][step + 1] /\ step + 1 \in DOMAIN Downgrades[Revision]
    BY <1>3, <1>6 DEF NextStatement, Script
  <2> QED
    BY <1>2, <1>3, <1>4, <1>6, <2>1, Landmarks
<1> QED
  BY <1>2, <1>5, <1>6

\* The revisions with an ALTER, by the length of their scripts.
LEMMA Lengths ==
  /\ \A r \in 1..7 : Len(Upgrades[r]) \in Nat /\ Len(Downgrades[r]) \in Nat
  /\ Len(Upgrades[3]) = 1 /\ Len(Downgrades[3]) = 1
  /\ Len(Upgrades[6]) = 11 /\ Len(Downgrades[6]) = 11
<1>1. \A r \in 1..7 : r \in 1..6 \/ r = 7
  OBVIOUS
<1>2. \A r \in 1..7 : Len(Upgrades[r]) \in Nat /\ Len(Downgrades[r]) \in Nat
  BY <1>1, Scripts DEF Builds, Clears
<1>3. /\ Upgrades[3] = Upgrade0003 /\ Downgrades[3] = Downgrade0003
      /\ Upgrades[6] = Upgrade0006 /\ Downgrades[6] = Downgrade0006
  BY DEF Upgrades, Downgrades
<1>4. Len(Upgrade0003) = 1 /\ Len(Downgrade0003) = 1
  BY DEF Upgrade0003, Downgrade0003
<1>5. Len(Upgrade0006) = 11 /\ Len(Downgrade0006) = 11
  BY DEF Upgrade0006, Downgrade0006
<1> QED
  BY <1>2, <1>3, <1>4, <1>5

\* The schemas and the image in between.
LEMMA Bounds ==
  ASSUME IInv
  PROVE  /\ db \in Schema /\ work \in Schema /\ image \in Nat
         /\ work.version \in 0..7 /\ goal \in 0..7 /\ step \in Nat
         /\ db.width \in Width /\ work.width \in Width /\ Width \subseteq Nat
BY MigrationsAssumption DEF IInv, TypeOK, Schema, Width, HeadRevision

\* At the first statement of a revision the schema is that of the version on record.
LEMMA AtFirst ==
  /\ step = 0 => Reached(step) = At(work.version)
  /\ step' = 0 => (Reached(step))' = At(work'.version)
<1>1. step = 0 => Reached(step) = At(work.version)
  BY NoneYet DEF Reached
<1>2. ASSUME step' = 0
      PROVE  (Reached(step))' = At(work'.version)
  <2>1. Created(Script', 0) = {} /\ Dropped(Script', 0) = {}
    BY NoneYet
  <2> QED
    BY <1>2, <2>1 DEF Reached
<1> QED
  BY <1>1, <1>2

\* No command is under way: the committed schema is what the last one left.
LEMMA AtRest ==
  ASSUME IInv, command = "none"
  PROVE  db = work /\ ~open /\ Settled(work)
BY DEF IInv, TypeOK

LEMMA BeginIInv ==
  ASSUME IInv, NEW name \in {"upgrade", "downgrade"}, NEW to \in 0..HeadRevision, Begin(name, to),
         IF name = "upgrade" THEN to = HeadRevision ELSE to <= db.version
  PROVE  IInv'
<1>1. /\ command = "none" /\ command' = name /\ goal' = to /\ step' = 0 /\ open' = TRUE
      /\ db' = db /\ work' = work /\ image' = image /\ cut' = cut /\ db = work
      /\ Settled(work)
  BY AtRest DEF Begin, Transaction
<1>2. TypeOK'
  BY <1>1 DEF IInv, TypeOK
<1>3. (image <= db.width /\ image <= work.width /\ cut \subseteq 1..db.version)'
  BY <1>1 DEF IInv
<1>4. UnderWay' => step' <= Len(Script')
  <2> SUFFICES ASSUME UnderWay'
               PROVE  Len(Script') \in Nat
    BY <1>1
  <2>1. work.version \in 0..7 /\ to # work.version
    BY <1>1, Bounds DEF UnderWay
  <2>2. CASE name = "upgrade"
    <3>1. work.version + 1 \in 1..7 /\ Script' = Upgrades[work.version + 1]
      BY <1>1, <2>1, <2>2 DEF Script, Revision, HeadRevision
    <3> QED
      BY <3>1, Lengths
  <2>3. CASE name = "downgrade"
    <3>1. work.version \in 1..7 /\ Script' = Downgrades[work.version]
      BY <1>1, <2>1, <2>3 DEF Script, Revision, HeadRevision
    <3> QED
      BY <3>1, Lengths
  <2> QED
    BY <2>2, <2>3
<1>5. CommandOK'
  BY <1>1, <1>4, Bounds DEF CommandOK, HeadRevision
<1>6. Lost' = Lost /\ (Reached(step))' = At(work.version)
  BY <1>1, AtFirst DEF Lost
<1>7. (Settled(db))'
  BY <1>1, <1>6 DEF Settled, Shows, Widths
<1>8. (Shows(work, Reached(step)))'
  BY <1>1, <1>6 DEF Settled, Shows
<1>9. (work.width \in WidthReached)'
  <2>1. ~Altered'
    BY <1>1 DEF Altered
  <2> QED
    BY <1>1, <2>1 DEF Settled, WidthReached, Widths
<1> QED
  BY <1>1, <1>2, <1>3, <1>5, <1>7, <1>8, <1>9 DEF IInv

\* A command that ends, at its goal or cut off, leaves a schema to start from.
LEMMA StopIInv ==
  ASSUME IInv, Stop, work' = db', db' \in Schema, image' \in PathLength \cup {0},
         image' <= db'.width, cut' \subseteq 1..(HeadRevision - 1), cut' \subseteq 1..db'.version,
         Settled(db)'
  PROVE  IInv'
<1>1. TypeOK'
  <2>1. /\ command' \in {"none", "upgrade", "downgrade"} /\ goal' \in 0..HeadRevision /\ step' \in Nat
    BY DEF Stop, HeadRevision
  <2>2. open' \in BOOLEAN
    BY DEF Stop
  <2> QED
    BY <2>1, <2>2 DEF TypeOK
<1>2. (command = "none" /\ ~open)'
  BY DEF Stop
<1> QED
  BY <1>1, <1>2 DEF IInv

\* What was lost of a version and the versions before it, when only later losses are forgotten.
LEMMA Remembered ==
  ASSUME NEW v \in 0..7, cut \cap (1..v) \subseteq cut'
  PROVE  /\ At(v) \cap Lost \subseteq Lost'
         /\ v >= 3 /\ 3 \in cut => 3 \in cut'
         /\ v >= 6 /\ 6 \in cut => 6 \in cut'
<1>1. ASSUME NEW o \in At(v), o \in Lost
      PROVE  o \in Lost'
  <2>1. o \in Objects /\ ComesWith(o) <= v /\ ComesWith(o) \in cut /\ ComesWith(o) \in 1..6
    BY <1>1, Origins DEF Lost
  <2>2. ComesWith(o) \in cut'
    BY <2>1
  <2> QED
    BY <2>1, <2>2 DEF Lost
<1> QED
  BY <1>1

\* At the goal the work is a schema to start from.
LEMMA AtGoal ==
  ASSUME IInv, command # "none", ~UnderWay
  PROVE  Settled(work)
<1>1. step = 0 /\ work.version = goal /\ Shows(work, Reached(step)) /\ work.width \in WidthReached
  BY DEF IInv, CommandOK, UnderWay
<1>2. Shows(work, At(work.version))
  BY <1>1, AtFirst
<1>3. work.width \in Widths(work.version)
  BY <1>1 DEF WidthReached, Altered
<1> QED
  BY <1>2, <1>3 DEF Settled

\* A downgrade drops nothing but what came with the revision under way.
LEMMA DropsItsOwn ==
  ASSUME IInv, UnderWay, command = "downgrade", work.version \in 1..6
  PROVE  /\ Reached(step) \subseteq At(work.version)
         /\ \A o \in At(work.version) \ Reached(step) : o \in Objects /\ ComesWith(o) = work.version
<1> DEFINE v == work.version
<1>1. /\ Revision = v /\ Script = Downgrades[v] /\ Clears(Script, At(v), At(v - 1))
      /\ Reached(step) = After(Script, At(v), step) /\ step \in 0..Len(Script) /\ Len(Script) \in Nat
  BY ScriptUnderWay, Scripts DEF Script, Revision
<1>2. Created(Script, step) = {}
  BY <1>1, OneDirection
<1>3. Reached(step) = At(v) \ Dropped(Script, step)
  BY <1>1, <1>2 DEF After
<1>4. Dropped(Script, step) \subseteq Dropped(Script, Len(Script))
  <2>1. 1..step \subseteq 1..Len(Script)
    BY <1>1
  <2> QED
    BY <2>1 DEF Dropped
<1>5. At(v) \ Reached(step) \subseteq At(v) \ At(v - 1)
  <2>1. At(v) \ Dropped(Script, Len(Script)) = At(v - 1)
    BY <1>1 DEF Clears
  <2> HIDE DEF v
  <2> QED
    BY <1>3, <1>4, <2>1
<1>6. \A o \in At(v) \ At(v - 1) : o \in Objects /\ ComesWith(o) = v
  BY Origins
<1> QED
  BY <1>3, <1>5, <1>6

\* An upgrade adds, from where it is not taken back, indexes, and drops what 0007 drops.
LEMMA GoesAhead ==
  ASSUME IInv, UnderWay, command = "upgrade", work.version \in 5..6
  PROVE  /\ Reached(step) \ At(work.version) \subseteq Index
         /\ At(work.version) \ Reached(step) \subseteq {"admin_user"}
<1> DEFINE v == work.version
<1>1. /\ Reached(step) = After(Script, At(v), step) /\ step \in 0..Len(Script) /\ step \in Nat
      /\ v + 1 \in 1..7 /\ Script = Upgrades[v + 1]
  BY ScriptUnderWay DEF Script, Revision
<1>2. CASE v = 5
  <2>1. Builds(Script, At(5), At(6))
    BY <1>1, <1>2, Scripts
  <2>2. Dropped(Script, step) = {}
    BY <1>1, <2>1, OneDirection
  <2>3. Created(Script, step) \subseteq Index
    <3>1. Script = Upgrade0006
      BY <1>1, <1>2 DEF Upgrades
    <3>2. \A i \in DOMAIN Upgrade0006 : Creates(Upgrade0006[i]) => Upgrade0006[i].on \in Index
      BY DEF Upgrade0006, AddIndex, Commit, Alter, Statement, Index, ChatIndexes, MessageIndexes,
             ReadStatusIndexes, UserIndexes, Creates
    <3>3. \A i \in 1..step : i \in DOMAIN Script
      BY <1>1, <2>1 DEF Builds
    <3> QED
      BY <3>1, <3>2, <3>3 DEF Created, Creates
  <2> QED
    BY <1>1, <1>2, <2>2, <2>3 DEF After
<1>3. CASE v = 6
  <2>1. Script = <<Drop("admin_user")>>
    BY <1>1, <1>3 DEF Upgrades, Upgrade0007
  <2>2. /\ Len(<<Drop("admin_user")>>) = 1 /\ <<Drop("admin_user")>>[1] = Drop("admin_user")
        /\ Drop("admin_user").on = "admin_user"
    BY DEF Drop, Statement
  <2>3. Parts("admin_user") = {}
    BY DEF Parts
  <2>4. Created(Script, step) = {}
    <3>1. Clears(Script, At(6), At(7))
      BY <1>1, <1>3, Scripts
    <3> QED
      BY <1>1, <3>1, OneDirection
  <2>5. Dropped(Script, step) \subseteq {"admin_user"}
    <3>1. \A i \in 1..step : i = 1
      BY <1>1, <2>1, <2>2
    <3> HIDE DEF v
    <3>2. Script[1].on = "admin_user"
      BY <2>1, <2>2
    <3> QED
      BY <2>3, <3>1, <3>2 DEF Dropped
  <2> QED
    BY <1>1, <1>3, <2>4, <2>5 DEF After
<1> QED
  BY <1>2, <1>3

\* A command that is cut off leaves a schema to start from: what is not taken back is what an
\* upgrade does in or after 0006, or the part that a downgrade has done of its revision.
LEMMA CutOffLeaves ==
  ASSUME IInv, command # "none", cut' = CutOff
  PROVE  /\ cut \subseteq cut' /\ cut' \subseteq 1..(HeadRevision - 1) /\ cut' \subseteq 1..db.version
         /\ db.objects \ At(db.version) \subseteq Index
         /\ At(db.version) \ db.objects \subseteq {"admin_user"} \cup Lost'
         /\ \/ db.width \in Widths(db.version)
            \/ db.version = 3 /\ 3 \in cut' /\ db.width = 128
            \/ db.version = 6 /\ 6 \in cut' /\ db.width = 1000
<1>1. cut \subseteq 1..db.version /\ cut \subseteq 1..6 /\ CommandOK /\ work.version \in 0..7 /\ goal \in 0..7
  BY Bounds DEF IInv, TypeOK, HeadRevision
<1>2. ASSUME Settled(db), cut' = cut
      PROVE  /\ cut' \subseteq 1..6 /\ Lost' = Lost
             /\ db.objects \ At(db.version) \subseteq Index
             /\ At(db.version) \ db.objects \subseteq {"admin_user"} \cup Lost
             /\ db.width \in Widths(db.version)
  BY <1>1, <1>2 DEF Settled, Shows, Lost
<1>3. CASE open
  <2>1. Settled(db) /\ cut' = cut
    BY <1>3 DEF IInv, CutOff
  <2> QED
    BY <1>1, <1>2, <2>1 DEF HeadRevision
<1>4. CASE ~open /\ ~UnderWay
  <2>1. db = work /\ cut' = cut
    BY <1>4 DEF IInv, TypeOK, CutOff
  <2>2. Settled(db)
    BY <1>4, <2>1, AtGoal
  <2> QED
    BY <1>1, <1>2, <2>1, <2>2 DEF HeadRevision
<1>5. CASE ~open /\ UnderWay /\ command = "upgrade"
  <2>1. /\ db = work /\ cut' = cut /\ Shows(work, Reached(step)) /\ work.width \in WidthReached
        /\ work.version \in 5..6 /\ step \in Nat
    BY <1>1, <1>5, Bounds DEF IInv, TypeOK, CutOff, CommandOK, UnderWay, HeadRevision
  <2>2. work.width \in Widths(work.version)
    BY <1>5, <2>1 DEF WidthReached, Altered, AlteredTo, Widths, Revision
  <2>3. Shows(work, At(work.version))
    BY <1>5, <2>1, GoesAhead DEF Shows
  <2>4. Settled(db)
    BY <2>1, <2>2, <2>3 DEF Settled
  <2> QED
    BY <1>1, <1>2, <2>1, <2>4 DEF HeadRevision
<1>6. CASE ~open /\ UnderWay /\ command = "downgrade"
  <2> DEFINE v == work.version
  <2>1. /\ db = work /\ Shows(work, Reached(step)) /\ work.width \in WidthReached /\ step \in Nat
        /\ v \in 1..6 /\ Revision = v /\ cut' = cut \cup {v}
    BY <1>1, <1>6, Bounds DEF IInv, TypeOK, CutOff, CommandOK, UnderWay, HeadRevision, Revision
  <2>2. At(v) \ Reached(step) \subseteq Lost' /\ Lost \subseteq Lost' /\ Reached(step) \subseteq At(v)
    BY <1>6, <2>1, DropsItsOwn DEF Lost
  <2>3. /\ work.objects \ At(v) \subseteq Index
        /\ At(v) \ work.objects \subseteq {"admin_user"} \cup Lost'
    <3>1. /\ work.objects \ Reached(step) \subseteq Index
          /\ Reached(step) \ work.objects \subseteq {"admin_user"} \cup Lost
      BY <2>1 DEF Shows
    <3> HIDE DEF v
    <3> QED
      BY <2>2, <3>1
  <2>4. \/ work.width \in Widths(v)
        \/ v = 3 /\ work.width = 128
        \/ v = 6 /\ work.width = 1000
    BY <1>6, <2>1 DEF WidthReached, Altered, AlteredTo
  <2>5. /\ cut \subseteq cut' /\ cut' \subseteq 1..6 /\ cut' \subseteq 1..v
        /\ v = 3 => 3 \in cut'
        /\ v = 6 => 6 \in cut'
    <3>1. v = db.version
      BY <2>1
    <3>2. cut \subseteq 1..v /\ v \in 1..6 /\ cut' = cut \cup {v}
      BY <1>1, <2>1, <3>1
    <3> HIDE DEF v
    <3> QED
      BY <1>1, <3>2
  <2>6. HeadRevision - 1 = 6 /\ db = work
    BY <2>1 DEF HeadRevision
  <2>7. \/ db.width \in Widths(db.version)
        \/ db.version = 3 /\ 3 \in cut' /\ db.width = 128
        \/ db.version = 6 /\ 6 \in cut' /\ db.width = 1000
    BY <2>4, <2>5, <2>6
  <2> QED
    BY <2>3, <2>5, <2>6, <2>7
<1>7. command \in {"upgrade", "downgrade"}
  BY DEF IInv, TypeOK
<1> QED
  BY <1>3, <1>4, <1>5, <1>6, <1>7

LEMMA CutOffIInv ==
  ASSUME IInv, command # "none", cut' = CutOff, Stop, db' = db, work' = db, image' = image
  PROVE  IInv'
<1>1. db' \in Schema /\ image' \in PathLength \cup {0} /\ image' <= db'.width
  BY DEF IInv, TypeOK
<1>2. (Settled(db))'
  BY CutOffLeaves DEF Settled, Shows, Widths
<1> QED
  BY <1>1, <1>2, CutOffLeaves, StopIInv

LEMMA RefuseIInv == IInv /\ Refuse => IInv'
BY CutOffIInv DEF Refuse, Due, UnderWay, Rollback

LEMMA CrashIInv == IInv /\ Crash => IInv'
BY CutOffIInv DEF Crash, Rollback

LEMMA FinishIInv == IInv /\ Finish => IInv'
<1> SUFFICES ASSUME IInv, Finish
             PROVE  IInv'
  OBVIOUS
<1>1. /\ command # "none" /\ ~UnderWay /\ Stop /\ db' = work /\ work' = work
      /\ cut' = cut \cap (1..work.version)
  BY DEF Finish, StillCut
<1>2. image' = image \/ image' = 0
  BY DEF Finish, ImageLeft
<1>3. /\ work \in Schema /\ image \in PathLength \cup {0} /\ image <= work.width
      /\ cut \subseteq 1..(HeadRevision - 1)
  BY <1>1 DEF IInv, TypeOK
<1>4. image' \in PathLength \cup {0} /\ image' <= work.width
  BY <1>2, <1>3, Bounds
<1>5. Settled(work) /\ work.version \in 0..7
  BY <1>1, AtGoal, Bounds
<1>6. (Settled(db))'
  BY <1>1, <1>5, Remembered DEF Settled, Shows, Widths
<1> QED
  BY <1>1, <1>3, <1>4, <1>6, StopIInv

LEMMA CrashInBuildIInv == IInv /\ CrashInBuild => IInv'
<1> SUFFICES ASSUME IInv, CrashInBuild
             PROVE  IInv'
  OBVIOUS
<1> DEFINE st == NextStatement
<1>1. /\ Due /\ Stop /\ db' = Apply(db, st) /\ work' = db' /\ cut' = CutOff /\ image' = image
      /\ Creates(st) /\ st.on \in Index /\ command # "none"
  BY DEF CrashInBuild, Creates, Due, UnderWay
<1>2. db \in Schema /\ image \in PathLength \cup {0} /\ image <= db.width
  BY DEF IInv, TypeOK
<1>3. /\ db' \in Schema /\ db'.width = db.width /\ db'.version = db.version
      /\ db'.objects = db.objects \cup {st.on}
  <2>1. IsStatement(st)
    BY <1>1, StatementDue
  <2> HIDE DEF st
  <2> QED
    BY <1>1, <1>2, <2>1, ApplyKeepsSchema
<1> HIDE DEF st
<1>4. (Settled(db))'
  BY <1>1, <1>3, CutOffLeaves DEF Settled, Shows, Widths
<1> QED
  BY <1>1, <1>2, <1>3, <1>4, CutOffLeaves, StopIInv

LEMMA StoreImageIInv == IInv /\ StoreImage => IInv'
<1> SUFFICES ASSUME IInv, StoreImage
             PROVE  IInv'
  OBVIOUS
<1>1. /\ command = "none" /\ image' \in PathLength /\ image' <= db.width
      /\ db' = db /\ work' = work /\ command' = command /\ goal' = goal /\ step' = step
      /\ open' = open /\ cut' = cut
  BY DEF StoreImage
<1>2. db = work /\ ~open
  BY <1>1, AtRest
<1>3. TypeOK'
  BY <1>1 DEF IInv, TypeOK
<1>4. (Settled(db))'
  <2>1. Lost' = Lost
    BY <1>1 DEF Lost
  <2> QED
    BY <1>1, <2>1 DEF IInv, Settled, Shows, Widths
<1> QED
  BY <1>1, <1>2, <1>3, <1>4 DEF IInv

LEMMA ExecuteIInv == IInv /\ Execute => IInv'
<1> SUFFICES ASSUME IInv, Execute
             PROVE  IInv'
  OBVIOUS
<1> DEFINE st == NextStatement
<1>1. /\ Due /\ UnderWay /\ Applies(work, st) /\ work' = Apply(work, st)
      /\ open' = (open /\ st # Commit) /\ db' = IF open' THEN db ELSE work'
      /\ step' = step + 1 /\ command' = command /\ goal' = goal /\ cut' = cut
      /\ command # "none"
  BY DEF Execute, Due, UnderWay
<1>2. image' = image \/ image' = 0
  BY DEF Execute, ImageLeft
<1>3. /\ work' \in Schema /\ work'.version = work.version
      /\ work'.width = IF st.do = "alter" THEN st.to ELSE work.width
      /\ st = Commit => st.do = "commit"
  <2>1. IsStatement(st) /\ work \in Schema
    BY <1>1, Bounds, StatementDue
  <2> HIDE DEF st
  <2> QED
    BY <1>1, <2>1, ApplyKeepsSchema
<1>4. Script' = Script /\ Revision' = Revision /\ UnderWay'
  BY <1>1, <1>3 DEF Script, Revision, UnderWay
<1>5. TypeOK'
  <2>1. db' \in Schema /\ (~open' => work' = db')
    BY <1>1, <1>3, Bounds
  <2>2. image' \in PathLength \cup {0}
    BY <1>2 DEF IInv, TypeOK
  <2>3. open' \in BOOLEAN
    BY <1>1
  <2>4. command' \in {"none", "upgrade", "downgrade"} /\ goal' \in 0..HeadRevision /\ step' \in Nat
        /\ cut' \subseteq 1..(HeadRevision - 1)
    BY <1>1, Bounds DEF IInv, TypeOK, HeadRevision
  <2> QED
    BY <1>3, <2>1, <2>2, <2>3, <2>4 DEF TypeOK
<1>6. image' <= db'.width /\ image' <= work'.width
  <2>1. image <= work'.width
    <3>1. st.do = "alter" => image <= st.to
      BY <1>1 DEF Applies
    <3> QED
      BY <1>3, <3>1 DEF IInv
  <2>2. image <= db'.width
    BY <1>1, <2>1 DEF IInv
  <2>3. db'.width \in Nat /\ work'.width \in Nat
    BY <1>3, <1>5 DEF TypeOK, Schema
  <2> QED
    BY <1>2, <2>1, <2>2, <2>3
<1>7. CommandOK'
  <2>1. CommandOK /\ step' <= Len(Script) /\ step' \in Nat /\ step' # 0
    BY <1>1, StatementDue DEF IInv
  <2>2. IF command = "upgrade" THEN goal' = HeadRevision ELSE goal' <= work'.version
    BY <1>1, <1>3, <2>1 DEF CommandOK
  <2>3. ASSUME command = "upgrade"
        PROVE  /\ work.version < 5 => open'
               /\ work.version = 5 => ~open'
               /\ db'.version <= work.version
    <3>1. Revision = work.version + 1 /\ work.version \in 0..7
      BY <2>3, Bounds DEF Revision
    <3>2. work.version < 5 => st # Commit
      BY <1>1, <1>3, <2>3, <3>1, StatementDue
    <3>3. work.version = 5 => ~open \/ st = Commit
      BY <1>1, <2>1, <2>3, <3>1, StatementDue DEF CommandOK
    <3>4. db'.version <= work.version
      <4>1. db.version <= work.version
        BY <2>1, <2>3 DEF CommandOK
      <4> QED
        BY <1>1, <1>3, <3>1, <4>1
    <3> QED
      BY <1>1, <2>1, <2>3, <3>2, <3>3, <3>4 DEF CommandOK
  <2>4. command = "downgrade" /\ work.version = HeadRevision => open'
    <3>1. ASSUME command = "downgrade", work.version = HeadRevision
          PROVE  st # Commit
      <4>1. Revision = 7
        BY <3>1 DEF Revision, HeadRevision
      <4> QED
        BY <1>1, <1>3, <4>1, StatementDue
    <3> QED
      BY <1>1, <2>1, <3>1 DEF CommandOK
  <2> QED
    BY <1>1, <1>3, <1>4, <2>1, <2>2, <2>3, <2>4 DEF CommandOK
<1>8. cut' \subseteq 1..db'.version
  <2>1. cut \subseteq 1..6 /\ cut \subseteq 1..db.version /\ work.version \in 0..7 /\ db.version \in Nat
    BY Bounds DEF IInv, TypeOK, HeadRevision, Schema
  <2>2. CASE db' = db
    BY <1>1, <2>1, <2>2
  <2>3. CASE db' # db /\ ~open
    <3>1. db = work
      BY <2>3 DEF IInv, TypeOK
    <3> QED
      BY <1>1, <1>3, <2>1, <3>1
  <2>4. CASE db' # db /\ open
    <3>1. st = Commit /\ db'.version = work.version
      BY <1>1, <1>3, <2>4
    <3>2. Revision = 6 /\ command \in {"upgrade", "downgrade"} /\ CommandOK
      BY <1>1, <1>3, <3>1, StatementDue, ScriptUnderWay DEF IInv
    <3>3. CASE command = "upgrade"
      <4>1. db.version <= work.version
        BY <3>2, <3>3 DEF CommandOK
      <4> QED
        BY <1>1, <2>1, <3>1, <4>1
    <3>4. CASE command = "downgrade"
      <4>1. work.version = 6
        BY <3>2, <3>4 DEF Revision
      <4> QED
        BY <1>1, <2>1, <3>1, <4>1
    <3> QED
      BY <3>2, <3>3, <3>4
  <2> QED
    BY <2>2, <2>3, <2>4
<1>9. (open => Settled(db))'
  <2> SUFFICES ASSUME open'
               PROVE  (Settled(db))'
    OBVIOUS
  <2>1. open /\ db' = db /\ Settled(db) /\ Lost' = Lost
    BY <1>1 DEF IInv, Lost
  <2> QED
    BY <1>1, <2>1 DEF Settled, Shows, Widths
<1>10. Shows(work, After(Script, At(work.version), step)) /\ work.width \in WidthReached
  BY <1>1, ScriptUnderWay DEF IInv
<1>11. (Shows(work, Reached(step)))'
  <2>1. Shows(work', After(Script, At(work.version), step + 1))
    <3>1. /\ Builds(Script, At(work.version), At(Target)) \/ Clears(Script, At(work.version), At(Target))
          /\ step \in Nat /\ step < Len(Script) /\ work \in Schema /\ st = Script[step + 1]
      BY <1>1, ScriptUnderWay, Bounds DEF NextStatement
    <3> HIDE DEF st
    <3> QED
      BY <1>1, <1>10, <3>1, OneStatement
  <2>2. (Reached(step))' = After(Script, At(work.version), step + 1)
    BY <1>1, <1>3, <1>4 DEF Reached, After
  <2>3. Lost' = Lost
    BY <1>1 DEF Lost
  <2> HIDE DEF st
  <2> QED
    BY <2>1, <2>2, <2>3 DEF Shows
<1>12. (work.width \in WidthReached)'
  <2> HIDE DEF st
  <2>1. /\ step \in Nat /\ step' = step + 1 /\ work.version \in 0..7 /\ work.width \in Width
        /\ Revision' = Revision /\ command' = command /\ AlteredTo' = AlteredTo
    BY <1>1, <1>4, Bounds DEF AlteredTo
  <2>2. CASE st.do = "alter"
    <3>1. \/ command = "upgrade" /\ Revision = 3 /\ step = 0 /\ st.to = 1000
          \/ command = "upgrade" /\ Revision = 6 /\ step = 8 /\ st.to = 1048
          \/ command = "downgrade" /\ Revision = 3 /\ step = 0 /\ st.to = 128
          \/ command = "downgrade" /\ Revision = 6 /\ step = 3 /\ st.to = 1000
      BY <1>1, <2>2, StatementDue DEF st
    <3>2. st.to = AlteredTo
      BY <3>1 DEF AlteredTo
    <3>3. Altered'
      BY <2>1, <3>1 DEF Altered
    <3>4. work'.width = st.to
      BY <1>3, <2>2
    <3> QED
      BY <2>1, <3>2, <3>3, <3>4 DEF WidthReached
  <2>3. CASE st.do # "alter"
    <3>1. Altered' <=> Altered
      <4>1. /\ ~(Revision = 3 /\ step = 0)
            /\ ~(Revision = 6 /\ step = (IF command = "upgrade" THEN 8 ELSE 3))
        BY <1>1, <2>3, StatementDue, ScriptUnderWay DEF st
      <4>2. Altered' = (\/ Revision = 3 /\ step + 1 > 0
                        \/ Revision = 6 /\ step + 1 > (IF command = "upgrade" THEN 8 ELSE 3))
        BY <2>1 DEF Altered
      <4> QED
        BY <2>1, <4>1, <4>2 DEF Altered
    <3>2. work'.width = work.width /\ work'.version = work.version
      BY <1>3, <2>3
    <3> QED
      BY <1>1, <1>10, <2>1, <3>1, <3>2 DEF WidthReached, Widths
  <2> QED
    BY <2>2, <2>3
<1>13. command' # "none"
  BY <1>1
<1> QED
  BY <1>5, <1>6, <1>7, <1>8, <1>9, <1>11, <1>12, <1>13 DEF IInv

LEMMA RecordIInv == IInv /\ Record => IInv'
<1> SUFFICES ASSUME IInv, Record
             PROVE  IInv'
  OBVIOUS
<1>1. /\ UnderWay /\ ~Due /\ command # "none" /\ work' = [work EXCEPT !.version = Target]
      /\ db' = (IF open THEN db ELSE work') /\ step' = 0
      /\ command' = command /\ goal' = goal /\ open' = open /\ image' = image
      /\ cut' = cut \cap (1..db'.version)
  BY DEF Record, UnderWay, StillCut
<1>2. /\ Target \in 0..HeadRevision /\ Revision \in 1..HeadRevision /\ step = Len(Script)
      /\ command \in {"upgrade", "downgrade"} /\ CommandOK
  BY <1>1, ScriptUnderWay DEF IInv
<1>3. /\ work' \in Schema /\ work'.version = Target /\ work'.width = work.width
      /\ work'.objects = work.objects
  BY <1>1, <1>2, Bounds DEF Schema
<1>4. /\ Target = IF command = "upgrade" THEN work.version + 1 ELSE work.version - 1
      /\ Revision = IF command = "upgrade" THEN work.version + 1 ELSE work.version
  BY DEF Target, Revision
<1>5. TypeOK'
  <2>1. db' \in Schema /\ (~open' => work' = db')
    BY <1>1, <1>3, Bounds
  <2> QED
    BY <1>1, <1>3, <2>1 DEF IInv, TypeOK
<1>6. image' <= db'.width /\ image' <= work'.width
  BY <1>1, <1>3 DEF IInv
<1>7. /\ Revision = 3 => step = 1
      /\ Revision = 6 => step = 11
  BY <1>2, Lengths DEF Script
<1>8. CommandOK'
  <2>1. UnderWay' => step' <= Len(Script')
    <3> SUFFICES ASSUME UnderWay'
                 PROVE  Len(Script') \in Nat
      BY <1>1
    <3>1. Target # goal /\ command' = command /\ goal' = goal
      BY <1>1, <1>3 DEF UnderWay
    <3>2. Revision' = IF command = "upgrade" THEN Target + 1 ELSE Target
      BY <1>1, <1>3 DEF Revision
    <3>3. Revision' \in 1..7
      BY <1>1, <1>2, <1>4, <3>1, <3>2, Bounds DEF CommandOK, HeadRevision, UnderWay
    <3> QED
      BY <3>3, Lengths DEF Script
  <2>2. IF command = "upgrade" THEN goal = HeadRevision ELSE goal <= Target
    BY <1>1, <1>2, <1>4, Bounds DEF CommandOK, UnderWay
  <2>3. ASSUME command = "upgrade"
        PROVE  /\ Target < 5 => open
               /\ Target = 5 => open
               /\ Target = 6 => ~open
               /\ db'.version <= Target
    <3>1. db.version <= work.version /\ db.version \in Nat
      BY <1>2, <2>3, Bounds DEF CommandOK, Schema, HeadRevision
    <3> QED
      BY <1>1, <1>2, <1>3, <1>4, <1>7, <2>3, <3>1, Bounds DEF CommandOK
  <2>4. command = "downgrade" => Target # HeadRevision
    BY <1>2, <1>4 DEF HeadRevision
  <2> QED
    BY <1>1, <1>3, <2>1, <2>2, <2>3, <2>4 DEF CommandOK
<1>9. /\ cut' \subseteq 1..db'.version
      /\ cut \cap (1..Target) \subseteq cut'
      /\ open => cut' = cut
  <2>1. cut \subseteq 1..db.version
    BY DEF IInv
  <2>2. CASE open
    BY <1>1, <2>1, <2>2
  <2>3. CASE ~open
    <3>1. db'.version = Target
      BY <1>1, <1>3, <2>3
    <3> QED
      BY <1>1, <2>3, <3>1
  <2> QED
    BY <2>2, <2>3
<1>10. (open => Settled(db))'
  <2> SUFFICES ASSUME open'
               PROVE  (Settled(db))'
    OBVIOUS
  <2>1. db' = db /\ cut' = cut /\ Settled(db) /\ Lost' = Lost
    BY <1>1, <1>9 DEF IInv, Lost
  <2> QED
    BY <2>1 DEF Settled, Shows, Widths
<1>11. Shows(work, At(Target)) /\ work.width \in WidthReached
  <2>1. Reached(step) = At(Target)
    BY <1>1, <1>2, ScriptUnderWay, AllDone
  <2> QED
    BY <1>1, <2>1 DEF IInv
<1>12. (Shows(work, Reached(step)))'
  <2>1. (Reached(step))' = At(Target)
    BY <1>1, <1>3, AtFirst
  <2>2. At(Target) \cap Lost \subseteq Lost'
    BY <1>2, <1>9, Remembered DEF HeadRevision
  <2> QED
    BY <1>3, <1>11, <2>1, <2>2 DEF Shows
<1>13. (work.width \in WidthReached)'
  <2>1. WidthReached' = (Widths(work.version))'
    <3>1. ~Altered'
      BY <1>1 DEF Altered
    <3> QED
      BY <3>1 DEF WidthReached
  <2>2. CASE Altered
    <3>1. Revision = 3 \/ Revision = 6
      BY <2>2 DEF Altered
    <3>2. work.width = AlteredTo
      BY <1>11, <2>2 DEF WidthReached
    <3>3. work.width \in (Widths(work.version))'
      BY <1>2, <1>3, <1>4, <3>1, <3>2, Bounds DEF AlteredTo, Widths
    <3> QED
      BY <1>3, <2>1, <3>3
  <2>3. CASE ~Altered
    <3>1. Revision \in {1, 2, 4, 5, 7}
      <4>1. Revision # 3 /\ Revision # 6
        BY <1>7, <2>3 DEF Altered
      <4> QED
        BY <1>2, <4>1 DEF HeadRevision
    <3>2. /\ Target < 3 <=> work.version < 3
          /\ Target \in 3..5 <=> work.version \in 3..5
          /\ Target \in 6..7 <=> work.version \in 6..7
          /\ Target \in 0..7 /\ work.version \in 0..7
      <4>1. work.version \in 0..7 /\ Target \in 0..7
        BY <1>2, Bounds DEF HeadRevision
      <4>2. CASE command = "upgrade"
        <5>1. Target = Revision /\ work.version = Revision - 1
          BY <1>4, <3>1, <4>1, <4>2
        <5> QED
          BY <3>1, <4>1, <5>1
      <4>3. CASE command # "upgrade"
        <5>1. Target = Revision - 1 /\ work.version = Revision
          BY <1>4, <3>1, <4>1, <4>3
        <5> QED
          BY <3>1, <4>1, <5>1
      <4> QED
        BY <4>2, <4>3
    <3>3. work.width \in Widths(work.version)
      BY <1>11, <2>3 DEF WidthReached
    <3>4. /\ Target >= 3 /\ 3 \in cut => 3 \in cut'
          /\ Target >= 6 /\ 6 \in cut => 6 \in cut'
      BY <1>9, <3>2, Remembered
    <3>5. CASE work.version < 3
      BY <1>3, <2>1, <3>2, <3>3, <3>5 DEF Widths
    <3>6. CASE work.version \in 3..5
      BY <1>3, <2>1, <3>2, <3>3, <3>4, <3>6 DEF Widths
    <3>7. CASE work.version \in 6..7
      BY <1>3, <2>1, <3>2, <3>3, <3>4, <3>7 DEF Widths
    <3> QED
      BY <3>2, <3>5, <3>6, <3>7
  <2> QED
    BY <2>2, <2>3
<1> QED
  BY <1>1, <1>5, <1>6, <1>8, <1>9, <1>10, <1>12, <1>13 DEF IInv

LEMMA InitIInv == Init => IInv
<1> SUFFICES ASSUME Init
             PROVE  IInv
  OBVIOUS
<1>1. Empty \in Schema /\ Empty.version = 0 /\ Empty.width = 128 /\ Empty.objects = {}
  BY DEF Empty, Schema, HeadRevision
<1>2. TypeOK
  <2>1. db \in Schema /\ work \in Schema /\ work = db /\ image \in PathLength \cup {0}
    BY <1>1 DEF Init
  <2>2. command \in {"none", "upgrade", "downgrade"} /\ goal \in 0..HeadRevision /\ step \in Nat
    BY DEF Init, HeadRevision
  <2>3. open \in BOOLEAN /\ cut \subseteq 1..(HeadRevision - 1)
    BY DEF Init, HeadRevision
  <2> QED
    BY <2>1, <2>2, <2>3 DEF TypeOK
<1>3. Settled(db)
  BY <1>1, Schemas DEF Init, Settled, Shows, Widths
<1> QED
  BY <1>1, <1>2, <1>3 DEF Init, IInv

LEMMA NextIInv == IInv /\ [Next]_vars => IInv'
<1> SUFFICES ASSUME IInv, [Next]_vars
             PROVE  IInv'
  OBVIOUS
<1>1. CASE Upgrade
  BY <1>1, BeginIInv DEF Upgrade, HeadRevision
<1>2. ASSUME NEW n \in 1..HeadRevision, Downgrade(n)
      PROVE  IInv'
  <2>1. db.version \in 0..7 /\ n <= db.version /\ Begin("downgrade", db.version - n)
    BY <1>2, Bounds DEF Downgrade, Schema, HeadRevision
  <2>2. db.version - n \in 0..HeadRevision /\ db.version - n <= db.version
    BY <2>1 DEF HeadRevision
  <2> QED
    BY <2>1, <2>2, BeginIInv
<1>3. CASE Execute
  BY <1>3, ExecuteIInv
<1>4. CASE Record
  BY <1>4, RecordIInv
<1>5. CASE Finish
  BY <1>5, FinishIInv
<1>6. CASE Refuse
  BY <1>6, RefuseIInv
<1>7. CASE Crash
  BY <1>7, CrashIInv
<1>8. CASE CrashInBuild
  BY <1>8, CrashInBuildIInv
<1>9. CASE StoreImage
  BY <1>9, StoreImageIInv
<1>10. CASE UNCHANGED vars
  <2>1. /\ db' = db /\ work' = work /\ command' = command /\ goal' = goal /\ step' = step
        /\ open' = open /\ image' = image /\ cut' = cut
    BY <1>10 DEF vars
  <2>2. /\ Revision' = Revision /\ Script' = Script /\ (UnderWay <=> UnderWay') /\ Lost' = Lost
        /\ (Altered <=> Altered') /\ AlteredTo' = AlteredTo
    BY <2>1 DEF Revision, Script, UnderWay, Lost, Altered, AlteredTo
  <2>3. TypeOK' /\ (CommandOK <=> CommandOK')
    BY <2>1, <2>2 DEF IInv, TypeOK, CommandOK
  <2>4. (Settled(db) <=> (Settled(db))') /\ WidthReached' = WidthReached /\ (Reached(step))' = Reached(step)
    BY <2>1, <2>2 DEF Settled, Shows, WidthReached, Widths, Reached
  <2>5. Shows(work, Reached(step)) <=> (Shows(work, Reached(step)))'
    BY <2>1, <2>2, <2>4 DEF Shows
  <2> QED
    BY <2>1, <2>3, <2>4, <2>5 DEF IInv
<1> QED
  BY <1>1, <1>2, <1>3, <1>4, <1>5, <1>6, <1>7, <1>8, <1>9, <1>10 DEF Next

-----------------------------------------------------------------------------
(***************************************************************************)
(* The theorems.                                                           *)
(***************************************************************************)

\* The inductive invariant: at every statement of a command, what its revision has done so far,
\* and what the transaction can still take back.
THEOREM Invariance == Spec => []IInv
BY InitIInv, NextIInv, PTL DEF Spec

\* The types of the schemas, the command and the image.
THEOREM Types == Spec => []TypeOK
<1>1. IInv => TypeOK
  BY DEF IInv
<1> QED
  BY <1>1, Invariance, PTL

\* Whatever stops a command, at any statement, the schema it leaves is that of the version on
\* record, but for what a command leaves early or lost that was cut off after the COMMIT of 0006.
THEOREM LeavesARevisionHolds == Spec => []LeavesARevision
<1>1. IInv => LeavesARevision
  BY DEF IInv, Settled, Shows, LeavesARevision
<1> QED
  BY <1>1, Invariance, PTL

\* At the head revision the schema is that of models.py, after any sequence of upgrades,
\* downgrades, failures and retries, but for what came with a revision whose downgrade was cut
\* off after the COMMIT.
THEOREM HeadIsModelsHolds == Spec => []HeadIsModels
<1>1. ASSUME IInv, command = "none", db.version = HeadRevision
      PROVE  /\ db.objects \subseteq Models
             /\ Models \ db.objects \subseteq Lost
             /\ db.width = ModelsWidth \/ 6 \in cut
  <2>1. Shows(db, At(7)) /\ db.width \in Widths(7)
    BY <1>1 DEF IInv, Settled, HeadRevision
  <2>2. At(7) = Models /\ Index \subseteq At(7) /\ "admin_user" \notin At(7)
    <3>1. "admin_user" \notin Index
      BY DEF Index, ChatIndexes, MessageIndexes, ReadStatusIndexes, UserIndexes
    <3> QED
      BY <3>1, Schemas
  <2>3. db.width = 1048 \/ 6 \in cut
    BY <2>1 DEF Widths
  <2> QED
    BY <2>1, <2>2, <2>3 DEF Shows, ModelsWidth
<1>2. IInv => HeadIsModels
  BY <1>1 DEF HeadIsModels
<1> QED
  BY <1>2, Invariance, PTL

\* The database refuses no statement of an upgrade, whatever was cut off before it, but for the
\* statements on tables that a downgrade of 0001 dropped, and the drop of a table that is gone.
THEOREM RetriesSucceedHolds == Spec => []RetriesSucceed
<1>1. ASSUME IInv, command = "upgrade", Due, ~Applies(work, NextStatement), 1 \notin cut
      PROVE  db.version = 6 /\ "admin_user" \notin db.objects
  <2> DEFINE v == work.version
             st == NextStatement
  <2>1. /\ UnderWay /\ v \in 0..6 /\ v + 1 \in 1..7 /\ Script = Upgrades[v + 1] /\ Revision = v + 1
        /\ step \in 0..Len(Script) /\ step \in Nat /\ step + 1 \in DOMAIN Script /\ IsStatement(st)
        /\ CommandOK /\ goal = 7
        /\ (step + 1) - 1 = step
    BY <1>1, Bounds, ScriptUnderWay, StatementDue
       DEF IInv, CommandOK, Due, UnderWay, Script, Revision, HeadRevision
  <2>2. Shows(work, After(Script, At(v), step)) /\ work.width \in WidthReached
    BY <1>1, <2>1, ScriptUnderWay DEF IInv
  <2>3. cut \subseteq 1..v
    <3>1. cut \subseteq 1..db.version /\ db.version <= v /\ db.version \in Nat
      BY <1>1, <2>1, Bounds DEF IInv, CommandOK, Schema, HeadRevision
    <3> QED
      BY <2>1, <3>1
  <2>4. ASSUME v < 6
        PROVE  FALSE
    <3>1. v + 1 \in 1..6 /\ (v + 1) - 1 = v
      BY <2>1, <2>4
    <3>2. Builds(Script, At(v), At(v + 1))
      BY <2>1, <3>1, Scripts
    <3>3. Dropped(Script, step) = {}
      BY <2>1, <3>2, OneDirection
    <3> DEFINE A == At(v) \cup Created(Script, step)
    <3>4. work.objects \ A \subseteq Index /\ A \ ({"admin_user"} \cup Lost) \subseteq work.objects
      BY <2>2, <3>3 DEF Shows, After
    <3>5. /\ ~Drops(st)
          /\ st.do = "create" => st.on \notin At(v) \cup Index \cup Created(Script, step)
          /\ Creates(st) => Uses(st.on) \subseteq A \ {"admin_user"}
      BY <2>1, <3>2 DEF Builds, NextStatement
    <3>6. \A o \in Tables \cup {"chattype"} : o \notin Lost
      BY <1>1, Origins DEF Lost
    <3>7. Creates(st) => Uses(st.on) \subseteq work.objects
      <4> SUFFICES ASSUME Creates(st)
                   PROVE  Uses(st.on) \subseteq work.objects
        OBVIOUS
      <4>1. Uses(st.on) \subseteq A \ {"admin_user"}
        BY <3>5
      <4>2. "messagetype" \in Uses(st.on) => "messagetype" \notin Lost
        <5>1. ASSUME "messagetype" \in Uses(st.on)
              PROVE  st.on = "message_type"
          BY <5>1 DEF Uses, Tables
        <5>2. ASSUME st.on = "message_type"
              PROVE  v = 4
          <6>1. v = 0 \/ v = 1 \/ v = 2 \/ v = 3 \/ v = 4 \/ v = 5
            BY <2>1, <2>4
          <6>2. v # 4 => st.on \notin {"message_type"}
            <7>1. /\ Script = Upgrades[v + 1] /\ st = Script[step + 1] /\ step + 1 \in DOMAIN Script
              BY <2>1 DEF NextStatement
            <7>2. \A r \in {1, 2, 3, 4, 6} : \A i \in DOMAIN Upgrades[r] : Upgrades[r][i].on # "message_type"
              BY DEF Upgrades, Upgrade0001, Upgrade0002, Upgrade0003, Upgrade0004, Upgrade0006,
                     Create, Alter, AddIndex, Commit, Statement
            <7> HIDE DEF st, v
            <7>3. v # 4 => v + 1 \in {1, 2, 3, 4, 6}
              BY <6>1
            <7> QED
              BY <7>1, <7>2, <7>3
          <6> QED
            BY <5>2, <6>2
        <5>3. v = 4 => 5 \notin cut
          BY <2>3
        <5> QED
          BY <5>1, <5>2, <5>3, Origins DEF Lost
      <4>3. Uses(st.on) \subseteq Tables \cup {"chattype", "messagetype"}
        BY DEF Uses, Tables
      <4> HIDE DEF st, A
      <4> QED
        BY <3>4, <3>6, <4>1, <4>2, <4>3
    <3>8. st.do = "create" => st.on \notin work.objects
      BY <3>4, <3>5
    <3>9. st.do = "alter" => "user" \in work.objects /\ image <= st.to
      <4> SUFFICES ASSUME st.do = "alter"
                   PROVE  "user" \in work.objects /\ image <= st.to
        OBVIOUS
      <4>1. \/ v = 2 /\ step = 0 /\ st.to = 1000
            \/ v = 5 /\ step = 8 /\ st.to = 1048
        BY <1>1, <2>1, StatementDue
      <4>2. "user" \in At(v) /\ "user" \in Tables /\ "user" # "admin_user"
        BY <4>1, Schemas DEF Tables
      <4>3. "user" \in work.objects
        BY <3>4, <3>6, <4>2
      <4>4. work.width <= st.to
        <5>1. ~Altered
          BY <1>1, <2>1, <4>1 DEF Altered
        <5>2. work.width \in Widths(v)
          BY <1>1, <2>1, <2>2, <4>1, <5>1 DEF WidthReached
        <5>3. Widths(2) = {128} /\ Widths(5) \subseteq {128, 1000, 1048}
          BY DEF Widths
        <5>4. CASE v = 2
          <6>1. work.width = 128 /\ st.to = 1000
            BY <4>1, <5>2, <5>3, <5>4
          <6> QED
            BY <6>1
        <5>5. CASE v = 5
          <6>1. work.width \in {128, 1000, 1048} /\ st.to = 1048
            BY <4>1, <5>2, <5>3, <5>5
          <6> QED
            BY <6>1
        <5> QED
          BY <4>1, <5>4, <5>5
      <4> QED
        BY <1>1, <4>1, <4>3, <4>4, Bounds DEF IInv
    <3> QED
      BY <1>1, <3>5, <3>7, <3>8, <3>9 DEF Applies, Creates, Drops
  <2>5. v = 6
    BY <2>1, <2>4
  <2>6. Script = <<Drop("admin_user")>>
    BY <2>1, <2>5 DEF Upgrades, Upgrade0007
  <2>7. step = 0 /\ st = Drop("admin_user")
    BY <2>1, <2>6 DEF NextStatement
  <2>8. "admin_user" \notin work.objects
    <3>1. st.do = "drop" /\ st.on = "admin_user"
      BY <2>7 DEF Drop, Statement
    <3>2. work.objects \subseteq Objects
      BY <1>1, Bounds DEF Schema
    <3>3. \A o \in Objects : "admin_user" \notin Uses(o)
      BY DEF Uses, Tables
    <3> QED
      BY <1>1, <3>1, <3>2, <3>3 DEF Applies
  <2>9. db = work
    BY <1>1, <2>1, <2>5, <2>7 DEF IInv, TypeOK, CommandOK
  <2> QED
    BY <2>5, <2>8, <2>9
<1>2. IInv => RetriesSucceed
  BY <1>1 DEF RetriesSucceed
<1> QED
  BY <1>2, Invariance, PTL
=============================================================================
