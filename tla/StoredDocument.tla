---------------------------- MODULE StoredDocument ----------------------------
(* The one stored document: what a reader of schema Schema makes of a document
   of any version, whole or damaged, and what a commit writes.

   Of a document the reader looks at its version, at the range of readers it
   names, at the journal of an earlier migration and the checkpoint beside it,
   and at the payload: an object that decodes, one that does not, or no object
   at all; whole says whether the payload is the one its checksum was made of.
   The records themselves are the generation that wrote them.                *)
EXTENDS Integers

Schema == 10          \* STORAGE_SCHEMA_VERSION
Nothing == [version |-> -1]

(* An empty repository, as loaded from no document. *)
Empty == [result |-> "loaded", gen |-> 0]
Failed(result) == [result |-> result, gen |-> 0]

Decoded(doc) ==
  IF doc.body = "valid" THEN [result |-> "loaded", gen |-> doc.gen]
  ELSE Failed("corrupt")

Checked(doc) ==
  IF ~doc.whole THEN Failed("corrupt") ELSE Decoded(doc)

(* _migrate_v0: a flat document without envelope or checksum. *)
MigrateFlat(doc) == Decoded(doc)

(* _migrate_v1 *)
MigrateFirst(doc) ==
  IF ~doc.covers THEN Failed("unsupported")
  ELSE IF doc.body = "none" THEN Failed("corrupt")
  ELSE Checked(doc)

(* A document of schema 10 without a journal, or with a completed one. *)
ReadCurrent(doc) ==
  IF ~doc.covers THEN Failed("unsupported")
  ELSE IF doc.body = "none" THEN Failed("corrupt")
  ELSE Checked(doc)

(* _migrate_v2 to _migrate_v9, one after the other: each writes its own reader
   range, and the last one recomputes the checksum after it has looked into the
   payload, which raises an error of its own when that is no object.          *)
Migrate(doc) ==
  IF doc.body = "none" THEN Failed("raised") ELSE Decoded(doc)

ReadPlain(doc) ==
  CASE doc.version > Schema -> Failed("unsupported")
    [] doc.version = 0 -> MigrateFlat(doc)
    [] doc.version = 1 -> MigrateFirst(doc)
    [] doc.version \in 2 .. Schema - 1 -> Migrate(doc)
    [] OTHER -> ReadCurrent(doc)

(* An unfinished migration is undone: the checkpoint is read instead. *)
Recovers(doc) == doc.version \in 2 .. Schema /\ doc.journal = "open"

(* decode_document, and async_load of no document. *)
Decode(doc) ==
  IF doc = Nothing THEN Empty
  ELSE IF Recovers(doc) /\ ~(doc.version < Schema /\ doc.body = "none")
       THEN IF doc.checkpoint = Nothing THEN Failed("corrupt") ELSE ReadPlain(doc.checkpoint)
       ELSE ReadPlain(doc)

Older(doc) == doc # Nothing /\ doc.version < Schema

(* encode_document *)
Encode(gen, author, checkpoint) ==
  [version |-> Schema, covers |-> TRUE, body |-> "valid", whole |-> TRUE, gen |-> gen,
   author |-> author, checkpoint |-> checkpoint,
   journal |-> IF checkpoint = Nothing THEN "none" ELSE "complete"]

=============================================================================
