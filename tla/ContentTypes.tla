---------------------------- MODULE ContentTypes ----------------------------
(***************************************************************************)
(* The declared fields of a kind of content, and the entries of that kind. *)
(* A request compares an entry's fields with the declaration and writes    *)
(* them later in the same transaction, under no lock on the declaration.   *)
(* An import writes both and compares nothing.                             *)
(***************************************************************************)
EXTENDS Naturals, FiniteSets

CONSTANTS Key, Entry, Author, Undeclared,
          Edits                \* bound on what people do

TypesAssumption == Edits \in Nat /\ Key # {} /\ IsFiniteSet(Key)

VARIABLES
    type,        \* the row of content_types, if there is one
    content,     \* entries of the kind
    archived,    \* the fields of an entry's revisions
    author,      \* a request between its check and its commit
    editsLeft

vars == <<type, content, archived, author, editsLeft>>

FieldKind == {"text", "number", "choice"}
Value     == {"absent", "null", "blank", "text", "option", "number"}
Fields    == [Key -> Value]
Field     == [kind : FieldKind, required : BOOLEAN]
Type      == UNION {[K -> Field] : K \in SUBSET Key}

Nothing == [k \in Key |-> "absent"]
Idle    == [entry |-> "none", fields |-> Nothing, fresh |-> FALSE]

TypeOK ==
    /\ type \in Type \cup {Undeclared}
    /\ content \in [Entry -> [live : BOOLEAN, fields : Fields, fresh : BOOLEAN]]
    /\ archived \in [Entry -> SUBSET Fields]
    /\ author \in [Author -> [entry : Entry \cup {"none"}, fields : Fields, fresh : BOOLEAN]]
    /\ editsLeft \in 0 .. Edits

Init ==
    /\ type = [k \in {} |-> {}]
    /\ content = [e \in Entry |-> [live |-> FALSE, fields |-> Nothing, fresh |-> FALSE]]
    /\ archived = [e \in Entry |-> {}]
    /\ author = [a \in Author |-> Idle]
    /\ editsLeft = Edits

Edit == editsLeft > 0 /\ editsLeft' = editsLeft - 1

-----------------------------------------------------------------------------
(* validate_content_fields.                                                *)

Empty == {"absent", "null", "blank"}

(* FieldKind::accepts; an option is a text too.                            *)
AcceptedBy(kind) ==
    CASE kind = "text" -> {"text", "option"}
      [] kind = "number" -> {"number"}
      [] kind = "choice" -> {"option"}

FieldFits(field, value) ==
    IF value \in Empty THEN ~field.required ELSE value \in AcceptedBy(field.kind)

(* Undeclared kinds take any object; a declared one no other keys, though  *)
(* they be null.                                                           *)
Accepts(t, fields) ==
    t # Undeclared =>
        /\ \A k \in DOMAIN t : FieldFits(t[k], fields[k])
        /\ \A k \in Key \ DOMAIN t : fields[k] = "absent"

-----------------------------------------------------------------------------
(* upsert and delete of a content type.  Entries stay as they are.         *)
Declare(t) ==
    /\ Edit
    /\ type' = t
    /\ content' = [e \in Entry |-> [content[e] EXCEPT !.fresh = FALSE]]
    /\ author' = [a \in Author |-> [author[a] EXCEPT !.fresh = FALSE]]
    /\ UNCHANGED archived

DeclareType(t) == t \in Type /\ Declare(t)
DeleteType     == type # Undeclared /\ Declare(Undeclared)

\* Mutant: the fields are compared only if the request names them.
ChecksGiven(given, fields) == given => Accepts(type, fields)

(* create and update compare the fields the entry is to have.              *)
Checks(given, fields) == Accepts(type, fields)

RowFree(e) == \A a \in Author : author[a].entry # e

Check(a, e, given, fields) ==
    /\ Edit
    /\ author[a].entry = "none" /\ RowFree(e)
    /\ Checks(given, fields)
    /\ author' = [author EXCEPT ![a] = [entry |-> e, fields |-> fields, fresh |-> TRUE]]
    /\ UNCHANGED <<type, content, archived>>

Create(a, e, fields) == ~content[e].live /\ Check(a, e, TRUE, fields)

(* update with new fields, or without: an edit of another column, or the   *)
(* publication of the entry.                                               *)
UpdateFields(a, e, fields) == content[e].live /\ Check(a, e, TRUE, fields)
UpdateOther(a, e)          == content[e].live /\ Check(a, e, FALSE, content[e].fields)

(* restore_revision, whose fields are compared with the type of today.     *)
RestoreRevision(a, e, fields) ==
    /\ content[e].live /\ fields \in archived[e]
    /\ Check(a, e, TRUE, fields)

(* The row and its revision are written, and the transaction commits.      *)
Write(a) ==
    LET e == author[a].entry IN
    /\ e # "none"
    /\ content' = [content EXCEPT ![e] = [live |-> TRUE, fields |-> author[a].fields,
                                          fresh |-> author[a].fresh]]
    /\ archived' = [archived EXCEPT ![e] = @ \cup {author[a].fields}]
    /\ author' = [author EXCEPT ![a] = Idle]
    /\ UNCHANGED <<type, editsLeft>>

(* A path is taken, or the connection is lost.                             *)
GiveUp(a) ==
    /\ author[a].entry # "none"
    /\ author' = [author EXCEPT ![a] = Idle]
    /\ UNCHANGED <<type, content, archived, editsLeft>>

-----------------------------------------------------------------------------
(* An import of Portable writes the declaration, if its bundle has one for *)
(* the kind, then entries and their revisions, a current and an older one  *)
(* here, and compares neither with the other.  Nothing of it is seen       *)
(* before it commits, for which it needs the rows of its entries.  The     *)
(* import looks at no declaration, so one that could not have been made    *)
(* here may arrive; such rows, which no request can read, are left out.    *)
Bundle == UNION {[E -> [fields : Fields, older : Fields]] : E \in SUBSET Entry}

Import(t, bundle) ==
    /\ Edit
    /\ \A e \in DOMAIN bundle : RowFree(e)
    /\ type' = t
    /\ content' = [e \in Entry |->
          IF e \in DOMAIN bundle
          THEN [live |-> TRUE, fields |-> bundle[e].fields, fresh |-> FALSE]
          ELSE [content[e] EXCEPT !.fresh = @ /\ t = type]]
    /\ archived' = [e \in Entry |->
          IF e \in DOMAIN bundle THEN archived[e] \cup {bundle[e].fields, bundle[e].older}
          ELSE archived[e]]
    /\ author' = [a \in Author |-> [author[a] EXCEPT !.fresh = @ /\ t = type]]

Next ==
    \/ \E t \in Type : DeclareType(t)
    \/ \E t \in Type \cup {type}, bundle \in Bundle : Import(t, bundle)
    \/ DeleteType
    \/ \E a \in Author, e \in Entry :
        \/ \E fields \in Fields :
            Create(a, e, fields) \/ UpdateFields(a, e, fields) \/ RestoreRevision(a, e, fields)
        \/ UpdateOther(a, e)
    \/ \E a \in Author : Write(a) \/ GiveUp(a)

Spec == Init /\ [][Next]_vars

-----------------------------------------------------------------------------
(* An entry misfits the declaration only if the entry was imported, or a   *)
(* declaration committed, after its fields were last compared: whatever    *)
(* else wrote it since, an edit of another column or an old revision       *)
(* included, has compared them again.                                      *)
FieldsFit ==
    \A e \in Entry : content[e].live /\ content[e].fresh => Accepts(type, content[e].fields)

(* An edit that leaves the fields alone is not refused for them.           *)
OtherEditsGoOn == \A e \in Entry : content[e].live => Accepts(type, content[e].fields)
=============================================================================
