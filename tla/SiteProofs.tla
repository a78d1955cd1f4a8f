----------------------------- MODULE SiteProofs -----------------------------
(***************************************************************************)
(* Proofs about the parts of a site, for all values of their constants.    *)
(* Each part has its own invariant; a behaviour of the site is one of one  *)
(* part, so the invariant holds of it while its part is the one that       *)
(* moves.                                                                  *)
(***************************************************************************)
EXTENDS Site, Sequences, SequenceTheorems, FiniteSetTheorems, WellFoundedInduction, TLAPS

(* The part that moves stays the same.                                     *)
LEMMA PartStays == ASSUME [SiteNext]_site PROVE part' = part
BY DEF SiteNext, Others, site

-----------------------------------------------------------------------------
(* Rows that a query orders, as the parts that read lists rank them.       *)

(* R orders S strictly, and rank counts what comes before each element.    *)
OrdersStrictly(R, S) ==
    /\ \A x \in S : <<x, x>> \notin R
    /\ \A x, y, z \in S : <<x, y>> \in R /\ <<y, z>> \in R => <<x, z>> \in R
    /\ \A x, y \in S : x # y => <<x, y>> \in R \/ <<y, x>> \in R

Ranks(rank, R, S) == rank = [x \in S |-> Cardinality({y \in S : <<y, x>> \in R})]

(* The ranks of a finite set are different, and every number up to the     *)
(* last is one of them.                                                    *)
LEMMA Ranking ==
    ASSUME NEW S, NEW R, NEW rank, IsFiniteSet(S), OrdersStrictly(R, S), Ranks(rank, R, S)
    PROVE  /\ Cardinality(S) \in Nat
           /\ \A x \in S : rank[x] \in Nat /\ rank[x] < Cardinality(S)
           /\ \A x, y \in S : <<x, y>> \in R <=> rank[x] < rank[y]
           /\ \A x, y \in S : rank[x] = rank[y] => x = y
           /\ \A k \in 1 .. Cardinality(S) : \E x \in S : rank[x] = k - 1
<1> DEFINE all == Cardinality(S)
           before(x) == {y \in S : <<y, x>> \in R}
           seat == [x \in S |-> rank[x] + 1]
<1>1. all \in Nat
  BY FS_CardinalityType
<1>2. ASSUME NEW x \in S
      PROVE  /\ IsFiniteSet(before(x)) /\ rank[x] = Cardinality(before(x))
             /\ rank[x] \in Nat /\ rank[x] < all
  <2>1. before(x) \subseteq S \ {x} /\ rank[x] = Cardinality(before(x))
    BY DEF OrdersStrictly, Ranks
  <2> HIDE DEF before
  <2>2. IsFiniteSet(S \ {x}) /\ Cardinality(S \ {x}) = all - 1
    BY FS_RemoveElement
  <2>3. IsFiniteSet(before(x)) /\ Cardinality(before(x)) <= all - 1
    BY <2>1, <2>2, FS_Subset
  <2>4. Cardinality(before(x)) \in Nat
    BY <2>3, FS_CardinalityType
  <2> HIDE DEF all
  <2> QED BY <1>1, <2>1, <2>3, <2>4
<1>3. \A x \in S : rank[x] \in Nat /\ rank[x] < all
  BY <1>2
<1>4. ASSUME NEW x \in S, NEW y \in S, <<x, y>> \in R PROVE rank[x] < rank[y]
  <2>1. before(x) \cup {x} \subseteq before(y) /\ x \notin before(x)
    BY <1>4 DEF OrdersStrictly
  <2>2. /\ IsFiniteSet(before(x)) /\ rank[x] = Cardinality(before(x))
        /\ IsFiniteSet(before(y)) /\ rank[y] = Cardinality(before(y))
    BY <1>2
  <2> HIDE DEF before
  <2>3. Cardinality(before(x) \cup {x}) = rank[x] + 1
    BY <2>1, <2>2, FS_AddElement
  <2>4. Cardinality(before(x) \cup {x}) <= Cardinality(before(y))
    BY <2>1, <2>2, FS_Subset
  <2> QED BY <1>3, <2>2, <2>3, <2>4
<1>5. \A x, y \in S : <<x, y>> \in R <=> rank[x] < rank[y]
  <2> SUFFICES ASSUME NEW x \in S, NEW y \in S, rank[x] < rank[y] PROVE <<x, y>> \in R
    BY <1>4
  <2>1. rank[x] \in Nat /\ rank[y] \in Nat
    BY <1>3, Zenon
  <2>2. ~(rank[y] < rank[x]) /\ x # y
    BY <2>1
  <2> QED BY <1>4, <2>2 DEF OrdersStrictly
<1>6. \A x, y \in S : rank[x] = rank[y] => x = y
  <2> SUFFICES ASSUME NEW x \in S, NEW y \in S, x # y PROVE rank[x] # rank[y]
    OBVIOUS
  <2>1. rank[x] < rank[y] \/ rank[y] < rank[x]
    BY <1>4 DEF OrdersStrictly
  <2> QED BY <1>3, <2>1
<1> HIDE DEF all
<1>7. ASSUME NEW k \in 1 .. all PROVE \E x \in S : rank[x] = k - 1
  <2>1. seat \in [S -> 1 .. all]
    BY <1>1, <1>3
  <2>2. \A x, y \in S : seat[x] = seat[y] => x = y
    <3> SUFFICES ASSUME NEW x \in S, NEW y \in S, seat[x] = seat[y] PROVE rank[x] = rank[y]
      BY <1>6
    <3>1. rank[x] \in Nat /\ rank[y] \in Nat
      BY <1>3, Zenon
    <3> QED BY <3>1
  <2> HIDE DEF seat
  <2>3. seat \in Injection(S, 1 .. all)
    BY <2>1, <2>2 DEF Injection, IsInjective
  <2>4. IsFiniteSet(1 .. all) /\ Cardinality(1 .. all) = all
    BY <1>1, FS_Interval
  <2>5. seat \in Surjection(S, 1 .. all)
    BY <2>3, <2>4, FS_Injection DEF all
  <2>6. PICK x \in S : seat[x] = k
    BY <2>5 DEF Surjection
  <2>7. rank[x] \in Nat /\ seat[x] = rank[x] + 1
    BY <1>3 DEF seat
  <2> QED BY <1>1, <2>6, <2>7
<1> QED BY <1>1, <1>3, <1>5, <1>6, <1>7 DEF all

-----------------------------------------------------------------------------
(* Beside the entries, the requests between their check and their commit:  *)
(* what they are to write was compared with the declaration there is,      *)
(* unless another one was committed since.                                 *)
FieldsInv ==
    /\ Kinds!TypeOK /\ Kinds!FieldsFit
    /\ \A a \in Client : author[a].fresh => Kinds!Accepts(type, author[a].fields)

LEMMA FieldsInvInit == ASSUME Kinds!TypesAssumption, Kinds!Init PROVE FieldsInv
<1> USE DEF Kinds!Init, Kinds!Idle, Kinds!Nothing
<1>1. type \in Kinds!Type
  <2>1. type \in [{} -> Kinds!Field]
    OBVIOUS
  <2> QED BY <2>1 DEF Kinds!Type
<1>2. Kinds!TypeOK
  BY <1>1 DEF Kinds!TypesAssumption, Kinds!TypeOK, Kinds!Fields, Kinds!Value
<1>3. Kinds!FieldsFit /\ \A a \in Client : ~author[a].fresh
  BY DEF Kinds!FieldsFit
<1> QED BY <1>2, <1>3 DEF FieldsInv

(* A declaration takes from every entry, and from every request under way, *)
(* that it was compared.                                                   *)
LEMMA DeclareStep ==
    ASSUME Kinds!TypesAssumption, FieldsInv, NEW t \in Kinds!Type \cup {Null}, Kinds!Declare(t) PROVE FieldsInv'
<1> USE DEF Kinds!TypesAssumption, FieldsInv, Kinds!TypeOK, Kinds!Declare, Kinds!Edit
<1>1. Kinds!TypeOK'
  <2>1. type' \in Kinds!Type \cup {Null} /\ archived' = archived /\ editsLeft' \in 0 .. TypeEdits
    OBVIOUS
  <2>2. article' \in [Article -> [live : BOOLEAN, fields : Kinds!Fields, fresh : BOOLEAN]]
    OBVIOUS
  <2>3. author' \in [Client -> [entry : Article \cup {"none"}, fields : Kinds!Fields, fresh : BOOLEAN]]
    OBVIOUS
  <2> QED BY <2>1, <2>2, <2>3
<1>2. /\ \A e \in Article : ~article'[e].fresh
      /\ \A a \in Client : ~author'[a].fresh
  OBVIOUS
<1> QED BY <1>1, <1>2 DEF Kinds!FieldsFit

(* What is imported was not compared, and an imported declaration is like  *)
(* any other.                                                              *)
LEMMA ImportStep ==
    ASSUME Kinds!TypesAssumption, FieldsInv, NEW t \in Kinds!Type \cup {type}, NEW b \in Kinds!Bundle, Kinds!Import(t, b)
    PROVE  FieldsInv'
<1>0. /\ article \in [Article -> [live : BOOLEAN, fields : Kinds!Fields, fresh : BOOLEAN]]
      /\ author \in [Client -> [entry : Article \cup {"none"}, fields : Kinds!Fields, fresh : BOOLEAN]]
      /\ archived \in [Article -> SUBSET Kinds!Fields]
  BY DEF FieldsInv, Kinds!TypeOK
<1>1. \A e \in DOMAIN b : b[e].fields \in Kinds!Fields /\ b[e].older \in Kinds!Fields
  BY DEF Kinds!Bundle
<1>2. type' \in Kinds!Type \cup {Null} /\ editsLeft' \in 0 .. TypeEdits
  BY DEF Kinds!Import, Kinds!Edit, FieldsInv, Kinds!TypeOK, Kinds!TypesAssumption
<1>3. article' \in [Article -> [live : BOOLEAN, fields : Kinds!Fields, fresh : BOOLEAN]]
  <2> SUFFICES ASSUME NEW e \in Article
               PROVE  article'[e] \in [live : BOOLEAN, fields : Kinds!Fields, fresh : BOOLEAN]
    BY DEF Kinds!Import
  <2>1. CASE e \in DOMAIN b
    BY <1>1, <2>1 DEF Kinds!Import
  <2>2. CASE e \notin DOMAIN b
    BY <1>0, <2>2 DEF Kinds!Import
  <2> QED BY <2>1, <2>2
<1>4. archived' \in [Article -> SUBSET Kinds!Fields]
  BY <1>0, <1>1 DEF Kinds!Import
<1>5. author' \in [Client -> [entry : Article \cup {"none"}, fields : Kinds!Fields, fresh : BOOLEAN]]
  BY <1>0 DEF Kinds!Import
<1>6. \A e \in Article : article'[e].fresh =>
          type' = type /\ article[e].fresh /\ article'[e].fields = article[e].fields
                       /\ article'[e].live = article[e].live
  <2> TAKE e \in Article
  <2>1. CASE e \in DOMAIN b
    BY <2>1 DEF Kinds!Import
  <2>2. CASE e \notin DOMAIN b
    BY <1>0, <2>2 DEF Kinds!Import
  <2> QED BY <2>1, <2>2
<1>7. \A a \in Client : author'[a].fresh =>
          type' = type /\ author[a].fresh /\ author'[a].fields = author[a].fields
  BY <1>0 DEF Kinds!Import
<1>8. Kinds!FieldsFit'
  BY <1>6 DEF FieldsInv, Kinds!FieldsFit
<1>9. \A a \in Client : author'[a].fresh => Kinds!Accepts(type', author'[a].fields)
  BY <1>7 DEF FieldsInv
<1> QED BY <1>2, <1>3, <1>4, <1>5, <1>8, <1>9 DEF FieldsInv, Kinds!TypeOK, Kinds!Accepts

(* A request has compared what it is to write.                             *)
LEMMA CheckStep ==
    ASSUME Kinds!TypesAssumption, FieldsInv, NEW a \in Client, NEW e \in Article, NEW given \in BOOLEAN,
           NEW fields \in Kinds!Fields, Kinds!Check(a, e, given, fields)
    PROVE  FieldsInv'
<1> DEFINE r == [entry |-> e, fields |-> fields, fresh |-> TRUE]
<1>0. r.fields = fields /\ r \in [entry : Article \cup {"none"}, fields : Kinds!Fields, fresh : BOOLEAN]
  OBVIOUS
<1> HIDE DEF r
<1>1. /\ author' = [author EXCEPT ![a] = r] /\ UNCHANGED <<type, article, archived>>
      /\ editsLeft' \in 0 .. TypeEdits /\ Kinds!Accepts(type, fields)
  BY DEF Kinds!Check, Kinds!Checks, Kinds!Edit, r, FieldsInv, Kinds!TypeOK, Kinds!TypesAssumption
<1>2. Kinds!TypeOK'
  BY <1>0, <1>1 DEF FieldsInv, Kinds!TypeOK
<1>3. \A b \in Client : author'[b].fresh => Kinds!Accepts(type, author'[b].fields)
  BY <1>0, <1>1 DEF FieldsInv, Kinds!TypeOK
<1> QED BY <1>1, <1>2, <1>3 DEF FieldsInv, Kinds!FieldsFit, Kinds!Accepts

LEMMA IdleIsTyped ==
    Kinds!Idle \in [entry : Article \cup {"none"}, fields : Kinds!Fields, fresh : BOOLEAN] /\ ~Kinds!Idle.fresh
BY DEF Kinds!Idle, Kinds!Nothing, Kinds!Fields, Kinds!Value

LEMMA FieldsInvStep == ASSUME Kinds!TypesAssumption, FieldsInv, [Kinds!Next]_(Kinds!vars) PROVE FieldsInv'
<1>0. /\ article \in [Article -> [live : BOOLEAN, fields : Kinds!Fields, fresh : BOOLEAN]]
      /\ author \in [Client -> [entry : Article \cup {"none"}, fields : Kinds!Fields, fresh : BOOLEAN]]
      /\ archived \in [Article -> SUBSET Kinds!Fields]
  BY DEF FieldsInv, Kinds!TypeOK
<1>1. CASE (\E t \in Kinds!Type : Kinds!DeclareType(t)) \/ Kinds!DeleteType
  BY <1>1, DeclareStep DEF Kinds!DeclareType, Kinds!DeleteType
<1>2. ASSUME NEW a \in Client, NEW e \in Article, NEW fields \in Kinds!Fields,
             Kinds!Create(a, e, fields) \/ Kinds!UpdateFields(a, e, fields) \/ Kinds!RestoreRevision(a, e, fields)
      PROVE  FieldsInv'
  BY <1>2, CheckStep DEF Kinds!Create, Kinds!UpdateFields, Kinds!RestoreRevision
<1>3. ASSUME NEW a \in Client, NEW e \in Article, Kinds!UpdateOther(a, e) PROVE FieldsInv'
  BY <1>0, <1>3, CheckStep DEF Kinds!UpdateOther
<1>4. ASSUME NEW a \in Client, Kinds!Write(a) PROVE FieldsInv'
  <2> DEFINE e == author[a].entry
             r == [live |-> TRUE, fields |-> author[a].fields, fresh |-> author[a].fresh]
  <2>1. /\ e \in Article
        /\ r \in [live : BOOLEAN, fields : Kinds!Fields, fresh : BOOLEAN]
        /\ r.fields = author[a].fields /\ r.fresh = author[a].fresh
    BY <1>0, <1>4 DEF Kinds!Write
  <2>2. /\ article' = [article EXCEPT ![e] = r]
        /\ archived' = [archived EXCEPT ![e] = @ \cup {author[a].fields}]
        /\ author' = [author EXCEPT ![a] = Kinds!Idle] /\ UNCHANGED <<type, editsLeft>>
    BY <1>4 DEF Kinds!Write
  <2>3. author[a].fields \in Kinds!Fields
    BY <1>0
  <2> HIDE DEF r, e
  <2>4. Kinds!TypeOK'
    BY <1>0, <2>1, <2>2, <2>3, IdleIsTyped DEF FieldsInv, Kinds!TypeOK
  <2>5. Kinds!FieldsFit'
    BY <1>0, <2>1, <2>2 DEF FieldsInv, Kinds!FieldsFit, Kinds!Accepts
  <2>6. \A b \in Client : author'[b].fresh => author'[b] = author[b]
    BY <1>0, <2>2, IdleIsTyped
  <2> QED BY <2>2, <2>4, <2>5, <2>6 DEF FieldsInv, Kinds!Accepts
<1>5. ASSUME NEW a \in Client, Kinds!GiveUp(a) PROVE FieldsInv'
  <2>1. /\ author' = [author EXCEPT ![a] = Kinds!Idle]
        /\ UNCHANGED <<type, article, archived, editsLeft>>
    BY <1>5 DEF Kinds!GiveUp
  <2>2. Kinds!TypeOK'
    BY <1>0, <2>1, IdleIsTyped DEF FieldsInv, Kinds!TypeOK
  <2>3. \A b \in Client : author'[b].fresh => author'[b] = author[b]
    BY <1>0, <2>1, IdleIsTyped
  <2> QED BY <2>1, <2>2, <2>3 DEF FieldsInv, Kinds!FieldsFit, Kinds!Accepts
<1>6. ASSUME NEW t \in Kinds!Type \cup {type}, NEW b \in Kinds!Bundle, Kinds!Import(t, b) PROVE FieldsInv'
  BY <1>6, ImportStep
<1>7. CASE UNCHANGED Kinds!vars
  BY <1>7 DEF Kinds!vars, FieldsInv, Kinds!TypeOK, Kinds!FieldsFit, Kinds!Accepts
<1> QED BY <1>1, <1>2, <1>3, <1>4, <1>5, <1>6, <1>7 DEF Kinds!Next

LEMMA TypesMove ==
    ASSUME [SiteNext]_site, Is("types") PROVE Is("types")' /\ [Kinds!Next]_(Kinds!vars)
<1>1. part = "types" /\ part' = part
  BY PartStays DEF Is
<1>2. CASE SiteNext
  <2>1. Kinds!Next \/ UNCHANGED types
    BY <1>1, <1>2 DEF SiteNext, Is, Others
  <2> QED BY <1>1, <2>1 DEF Is, types, Kinds!vars
<1>3. CASE UNCHANGED site
  BY <1>1, <1>3 DEF Is, site, types, Kinds!vars
<1> QED BY <1>2, <1>3

(* Whatever is declared or imported between a request's check and its      *)
(* commit, an entry that was compared since the last declaration and the   *)
(* last import of it fits what is declared.                                *)
THEOREM FieldsHold == SiteSpec => []FieldsFit
<1> DEFINE I == Is("types") => FieldsInv
<1>0. Kinds!TypesAssumption
  BY SiteAssumption
<1>1. SiteInit => I
  BY <1>0, FieldsInvInit DEF SiteInit, Is
<1>2. I /\ [SiteNext]_site => I'
  <2> SUFFICES ASSUME I, [SiteNext]_site, Is("types") PROVE FieldsInv'
    BY PartStays DEF Is
  <2> QED BY <1>0, TypesMove, FieldsInvStep
<1>3. I => FieldsFit
  BY DEF FieldsFit, FieldsInv
<1> HIDE DEF I
<1> QED BY <1>1, <1>2, <1>3, PTL DEF SiteSpec

-----------------------------------------------------------------------------
Allowed(r) == IF r.on THEN Switchboard!MayEnable(r.id, enabled) ELSE Switchboard!MayDisable(r.id, enabled)

(* One change at a time has the rows, and what it checked of them holds    *)
(* until it commits.                                                       *)
OneHasTheRows ==
    \A c \in Client : change[c].pc \in {"locked", "applied"} =>
        /\ Allowed(change[c])
        /\ \A d \in Client : change[d].pc \in {"locked", "applied"} => d = c

(* What is read of the rows was committed.                                 *)
ReadingsWereCommitted ==
    /\ enabled \in past
    /\ \A r \in Asker : asker[r].pc \in {"read", "knows"} => asker[r].set \in past

ActivationInv ==
    /\ Switchboard!TypeOK /\ Switchboard!RowsAreClosed /\ Switchboard!SetsWereCommitted /\ Switchboard!StaleIsDropped
    /\ OneHasTheRows /\ ReadingsWereCommitted

Change  == [pc : {"idle", "locked", "applied", "committed"}, at : Process,
            id : Plugin, on : BOOLEAN]
Reading == [pc : {"idle", "asking", "read", "knows"}, at : Process, set : SUBSET Plugin]

Cached  == (SUBSET Plugin) \cup {Null}

LEMMA IdleOnes ==
    ASSUME Switchboard!PluginsAssumption PROVE Switchboard!NoChange \in Change /\ Switchboard!NoReading \in Reading
<1>1. (CHOOSE p \in Process : TRUE) \in Process
  BY DEF Switchboard!PluginsAssumption
<1> QED BY <1>1 DEF Switchboard!PluginsAssumption, Switchboard!NoChange, Switchboard!NoReading, Change, Reading

LEMMA CachedSets == Null \in Cached /\ \A set : set \subseteq Plugin => set \in Cached
BY DEF Cached

LEMMA ActivationInvInit == ASSUME Switchboard!PluginsAssumption, Switchboard!Init PROVE ActivationInv
<1> USE DEF Switchboard!Init, Switchboard!PluginsAssumption
<1>1. Switchboard!TypeOK
  <2>1. change \in [Client -> Change] /\ asker \in [Asker -> Reading]
    BY IdleOnes
  <2>2. cache \in [Process -> Cached] /\ snapshot \in [Process -> Cached]
    BY CachedSets
  <2> QED BY <2>1, <2>2 DEF Switchboard!TypeOK, Change, Reading, Cached
<1>2. Switchboard!RowsAreClosed /\ Switchboard!SetsWereCommitted /\ Switchboard!StaleIsDropped
  BY DEF Switchboard!RowsAreClosed, Switchboard!Valid, Switchboard!SetsWereCommitted, Switchboard!StaleIsDropped
<1>3. OneHasTheRows /\ ReadingsWereCommitted
  BY DEF Switchboard!NoChange, Switchboard!NoReading, OneHasTheRows, ReadingsWereCommitted
<1> QED BY <1>1, <1>2, <1>3 DEF ActivationInv

(* Every step keeps the types.                                             *)
LEMMA PluginsTypeStep == ASSUME Switchboard!PluginsAssumption, Switchboard!TypeOK, [Switchboard!Next]_(Switchboard!vars) PROVE Switchboard!TypeOK'
<1>0. /\ Switchboard!NoChange \in Change /\ Switchboard!NoReading \in Reading
      /\ change \in [Client -> Change] /\ asker \in [Asker -> Reading]
      /\ cache \in [Process -> Cached] /\ snapshot \in [Process -> Cached]
      /\ enabled \subseteq Plugin /\ past \subseteq SUBSET Plugin
      /\ notices \subseteq Process /\ listening \subseteq Process /\ excused \subseteq Process
      /\ switches \in 0 .. Switches /\ readings \in 0 .. Readings
      /\ Switches \in Nat /\ Readings \in Nat /\ Null \in Cached
  <2>1. Switchboard!NoChange \in Change /\ Switchboard!NoReading \in Reading
    BY IdleOnes
  <2>2. Switches \in Nat /\ Readings \in Nat
    BY DEF Switchboard!PluginsAssumption
  <2> QED BY <2>1, <2>2, CachedSets DEF Switchboard!TypeOK, Change, Reading, Cached
<1>t. ASSUME change' \in [Client -> Change], asker' \in [Asker -> Reading],
             cache' \in [Process -> Cached], snapshot' \in [Process -> Cached],
             enabled' \subseteq Plugin, past' \subseteq SUBSET Plugin,
             notices' \subseteq Process, listening' \subseteq Process, excused' \subseteq Process,
             switches' \in 0 .. Switches, readings' \in 0 .. Readings
      PROVE  Switchboard!TypeOK'
  BY <1>t DEF Switchboard!TypeOK, Change, Reading, Cached
<1>1. ASSUME NEW c \in Client PROVE
         /\ change[c] \in Change
         /\ [change[c] EXCEPT !.pc = "applied"] \in Change
         /\ [change[c] EXCEPT !.pc = "committed"] \in Change
         /\ change[c].id \in Plugin
  BY <1>0 DEF Change
<1>2. ASSUME NEW r \in Asker PROVE
         /\ asker[r] \in Reading
         /\ asker[r].set \subseteq Plugin /\ asker[r].at \in Process
         /\ asker[r].set \in Cached
         /\ [asker[r] EXCEPT !.pc = "read", !.set = enabled] \in Reading
         /\ [asker[r] EXCEPT !.pc = "knows"] \in Reading
  BY <1>0, CachedSets DEF Reading
<1>3. ASSUME NEW c \in Client, NEW p \in Process, NEW id \in Plugin, NEW on \in BOOLEAN,
             Switchboard!LockRows(c, p, id, on)
      PROVE  Switchboard!TypeOK'
  <2>1. [pc |-> "locked", at |-> p, id |-> id, on |-> on] \in Change
    BY DEF Change
  <2> QED BY <1>0, <1>3, <1>t, <2>1 DEF Switchboard!LockRows
<1>4. ASSUME NEW c \in Client, Switchboard!Apply(c) PROVE Switchboard!TypeOK'
  BY <1>0, <1>1, <1>4, <1>t DEF Switchboard!Apply, Switchboard!Invalidated, Switchboard!Known
<1>5. ASSUME NEW c \in Client, Switchboard!Commit(c) PROVE Switchboard!TypeOK'
  <2> DEFINE r == change[c]
             after == IF r.on THEN enabled \cup {r.id} ELSE enabled \ {r.id}
  <2>1. after \subseteq Plugin
    <3>1. enabled \cup {r.id} \subseteq Plugin /\ enabled \ {r.id} \subseteq Plugin
      BY <1>0, <1>1
    <3> QED BY <3>1
  <2>2. /\ enabled' = after /\ past' = past \cup {after}
        /\ change' = [change EXCEPT ![c].pc = "committed"]
        /\ notices' = notices \cup listening
        /\ excused' = excused \cup {p \in Process \ (listening \cup {r.at}) : cache[p] # Null}
        /\ UNCHANGED <<cache, snapshot, asker, listening, switches, readings>>
    BY <1>5 DEF Switchboard!Commit, Switchboard!Notified
  <2>3. change' \in [Client -> Change] /\ past' \subseteq SUBSET Plugin /\ enabled' \subseteq Plugin
    BY <1>0, <1>1, <2>1, <2>2
  <2>4. excused' \subseteq Process /\ notices' \subseteq Process
    BY <1>0, <2>2
  <2> QED BY <1>0, <1>t, <2>2, <2>3, <2>4
<1>6. ASSUME NEW c \in Client, Switchboard!Fail(c) PROVE Switchboard!TypeOK'
  BY <1>0, <1>6, <1>t DEF Switchboard!Fail
<1>7. ASSUME NEW c \in Client, Switchboard!Answer(c) PROVE Switchboard!TypeOK'
  BY <1>0, <1>7, <1>t DEF Switchboard!Answer, Switchboard!Invalidated, Switchboard!Known
<1>8. ASSUME NEW r \in Asker, NEW p \in Process, NEW fresh \in BOOLEAN, Switchboard!Ask(r, p, fresh)
      PROVE  Switchboard!TypeOK'
  <2> DEFINE had == IF fresh THEN Null ELSE cache[p]
             new == IF had = Null THEN [pc |-> "asking", at |-> p, set |-> {}]
                                       ELSE [pc |-> "knows", at |-> p, set |-> had]
  <2>1. new \in Reading
    <3>1. had \in Cached
      BY <1>0
    <3>2. had # Null => had \subseteq Plugin
      BY <3>1 DEF Cached
    <3> HIDE DEF had
    <3> QED BY <3>2 DEF Reading
  <2>2. asker' = [asker EXCEPT ![r] = new]
    BY <1>8 DEF Switchboard!Ask
  <2> HIDE DEF new
  <2>3. cache' \in [Process -> Cached] /\ excused' \subseteq Process
    BY <1>0, <1>8 DEF Switchboard!Ask, Switchboard!Invalidated, Switchboard!Known
  <2>4. readings' \in 0 .. Readings
    BY <1>0, <1>8 DEF Switchboard!Ask
  <2> QED BY <1>0, <1>8, <1>t, <2>1, <2>2, <2>3, <2>4 DEF Switchboard!Ask
<1>9. ASSUME NEW r \in Asker, Switchboard!List(r) PROVE Switchboard!TypeOK'
  BY <1>0, <1>2, <1>9, <1>t DEF Switchboard!List
<1>10. ASSUME NEW r \in Asker, Switchboard!Fill(r) PROVE Switchboard!TypeOK'
  BY <1>0, <1>2, <1>10, <1>t DEF Switchboard!Fill
<1>11. ASSUME NEW r \in Asker, Switchboard!SetActivePlugins(r) PROVE Switchboard!TypeOK'
  BY <1>0, <1>2, <1>11, <1>t DEF Switchboard!SetActivePlugins
<1>12. ASSUME NEW p \in Process, Switchboard!Hear(p) \/ Switchboard!Disconnect(p) \/ Switchboard!Listen(p) PROVE Switchboard!TypeOK'
  BY <1>0, <1>12, <1>t DEF Switchboard!Hear, Switchboard!Disconnect, Switchboard!Listen, Switchboard!Invalidated, Switchboard!Known
<1>13. CASE UNCHANGED Switchboard!vars
  BY <1>13 DEF Switchboard!vars, Switchboard!TypeOK
<1> QED BY <1>3, <1>4, <1>5, <1>6, <1>7, <1>8, <1>9, <1>10, <1>11, <1>12, <1>13 DEF Switchboard!Next

(* The rows stay closed under what plugins depend on: a change checked     *)
(* them as they are when it commits.                                       *)
LEMMA AllowedKeepsClosed ==
    ASSUME Switchboard!PluginsAssumption, Switchboard!Valid(enabled), NEW r \in Change, Allowed(r)
    PROVE  Switchboard!Valid(IF r.on THEN enabled \cup {r.id} ELSE enabled \ {r.id})
<1>1. CASE r.on
  BY <1>1 DEF Switchboard!Valid, Allowed, Switchboard!MayEnable
<1>2. CASE ~r.on
  <2>1. r.id # Core /\ \A q \in enabled : r.id \notin Depends[q]
    BY <1>2 DEF Allowed, Switchboard!MayDisable
  <2> QED BY <1>2, <2>1 DEF Switchboard!Valid
<1> QED BY <1>1, <1>2

(* What a step must do to keep the invariant when it commits nothing.      *)
LEMMA QuietOnRows ==
    ASSUME ActivationInv, Switchboard!TypeOK', UNCHANGED <<enabled, past>>,
           \A p \in Process : {cache'[p], snapshot'[p]} \subseteq past \cup {Null},
           \A r \in Asker : asker'[r].pc \in {"read", "knows"} => asker'[r].set \in past,
           \A c \in Client : change'[c].pc \in {"locked", "applied"} =>
               /\ change[c].pc \in {"locked", "applied"}
               /\ change'[c].id = change[c].id /\ change'[c].on = change[c].on,
           \A p \in Process : cache'[p] \notin {Null, enabled} =>
               Switchboard!Pending(p)' \/ p \in excused'
    PROVE  ActivationInv'
<1>1. Switchboard!RowsAreClosed' /\ Switchboard!SetsWereCommitted' /\ Switchboard!StaleIsDropped' /\ ReadingsWereCommitted'
  BY DEF ActivationInv, Switchboard!RowsAreClosed, Switchboard!Valid, Switchboard!SetsWereCommitted, Switchboard!StaleIsDropped,
         ReadingsWereCommitted
<1>2. OneHasTheRows'
  BY DEF ActivationInv, OneHasTheRows, Allowed, Switchboard!MayEnable, Switchboard!MayDisable
<1> QED BY <1>1, <1>2 DEF ActivationInv

LEMMA ActivationInvStep ==
    ASSUME Switchboard!PluginsAssumption, ActivationInv, [Switchboard!Next]_(Switchboard!vars) PROVE ActivationInv'
<1>0. /\ change \in [Client -> Change] /\ asker \in [Asker -> Reading]
      /\ cache \in [Process -> Cached] /\ snapshot \in [Process -> Cached]
      /\ Switchboard!TypeOK'
  BY PluginsTypeStep DEF ActivationInv, Switchboard!TypeOK, Change, Reading, Cached
<1>a. /\ \A p \in Process : {cache[p], snapshot[p]} \subseteq past \cup {Null}
      /\ \A r \in Asker : asker[r].pc \in {"read", "knows"} => asker[r].set \in past
      /\ \A p \in Process : cache[p] \notin {Null, enabled} => Switchboard!Pending(p) \/ p \in excused
      /\ enabled \in past
  BY DEF ActivationInv, Switchboard!SetsWereCommitted, ReadingsWereCommitted, Switchboard!StaleIsDropped
<1>b. ASSUME NEW c \in Client PROVE change[c].at \in Process /\ change[c] \in Change
  BY <1>0 DEF Change
<1>c. ASSUME NEW r \in Asker PROVE asker[r].at \in Process /\ asker[r] \in Reading
  BY <1>0 DEF Reading
<1>d. Switchboard!NoChange.pc = "idle" /\ Switchboard!NoReading.pc = "idle"
  BY DEF Switchboard!NoChange, Switchboard!NoReading
<1>1. ASSUME NEW c \in Client, NEW p \in Process, NEW id \in Plugin, NEW on \in BOOLEAN,
             Switchboard!LockRows(c, p, id, on)
      PROVE  ActivationInv'
  <2> DEFINE r == [pc |-> "locked", at |-> p, id |-> id, on |-> on]
  <2>1. /\ change' = [change EXCEPT ![c] = r]
        /\ UNCHANGED <<enabled, past, cache, snapshot, asker, notices, excused>>
        /\ \A d \in Client \ {c} : change[d].pc \notin {"locked", "applied"}
        /\ change[c].pc = "idle"
    BY <1>1 DEF Switchboard!LockRows, Switchboard!RowsAreFree, Switchboard!Busy
  <2>2. Allowed(r) /\ r.pc = "locked"
    BY <1>1 DEF Switchboard!LockRows, Allowed
  <2> HIDE DEF r
  <2>3. \A d \in Client : change'[d] = IF d = c THEN r ELSE change[d]
    BY <1>0, <2>1
  <2>4. OneHasTheRows'
    BY <2>1, <2>2, <2>3 DEF OneHasTheRows, Allowed, Switchboard!MayEnable, Switchboard!MayDisable
  <2>5. Switchboard!StaleIsDropped'
    BY <1>a, <2>1, <2>2, <2>3 DEF Switchboard!StaleIsDropped, Switchboard!Pending
  <2> QED BY <1>0, <2>1, <2>4, <2>5
          DEF ActivationInv, Switchboard!RowsAreClosed, Switchboard!SetsWereCommitted, ReadingsWereCommitted, Switchboard!Valid
<1>2. ASSUME NEW c \in Client, Switchboard!Apply(c) \/ Switchboard!Answer(c) PROVE ActivationInv'
  <2> DEFINE q == change[c].at
  <2>1. /\ UNCHANGED <<enabled, past, snapshot, asker, notices>>
        /\ cache' = [cache EXCEPT ![q] = Null] /\ excused' = excused \ {q}
        /\ q \in Process
    BY <1>2, <1>b DEF Switchboard!Apply, Switchboard!Answer, Switchboard!Invalidated, Switchboard!Known
  <2>2. \A d \in Client \ {c} : change'[d] = change[d]
    BY <1>0, <1>2 DEF Switchboard!Apply, Switchboard!Answer
  <2>3. /\ change'[c].pc \in {"locked", "applied"} =>
               /\ change[c].pc \in {"locked", "applied"}
               /\ change'[c].id = change[c].id /\ change'[c].on = change[c].on
    BY <1>0, <1>2, <1>b, <1>d DEF Switchboard!Apply, Switchboard!Answer, Change
  <2> HIDE DEF q
  <2>4. \A p \in Process : cache'[p] = IF p = q THEN Null ELSE cache[p]
    BY <1>0, <2>1
  <2>5. \A p \in Process : p # q /\ Switchboard!Pending(p) => Switchboard!Pending(p)'
    BY <2>1, <2>2 DEF Switchboard!Pending, q
  <2>6. \A p \in Process : cache'[p] \notin {Null, enabled} => Switchboard!Pending(p)' \/ p \in excused'
    BY <1>a, <2>1, <2>4, <2>5
  <2>7. \A p \in Process : {cache'[p], snapshot'[p]} \subseteq past \cup {Null}
    BY <1>a, <2>1, <2>4
  <2> QED BY <1>0, <1>a, <2>1, <2>2, <2>3, <2>6, <2>7, QuietOnRows
<1>3. ASSUME NEW c \in Client, Switchboard!Commit(c) PROVE ActivationInv'
  <2> DEFINE r == change[c]
             after == IF r.on THEN enabled \cup {r.id} ELSE enabled \ {r.id}
  <2>1. /\ enabled' = after /\ past' = past \cup {after}
        /\ change' = [change EXCEPT ![c].pc = "committed"]
        /\ notices' = notices \cup listening
        /\ excused' = excused \cup {p \in Process \ (listening \cup {r.at}) : cache[p] # Null}
        /\ UNCHANGED <<cache, snapshot, asker>>
        /\ r.pc = "applied"
    BY <1>3 DEF Switchboard!Commit, Switchboard!Notified
  <2>2. r \in Change /\ Allowed(r) /\ \A d \in Client \ {c} : change[d].pc \notin {"locked", "applied"}
    BY <1>b, <2>1 DEF ActivationInv, OneHasTheRows
  <2>3. Switchboard!Valid(after)
    BY <2>2, AllowedKeepsClosed DEF ActivationInv, Switchboard!RowsAreClosed
  <2>4. /\ \A d \in Client \ {c} : change'[d] = change[d]
        /\ change'[c].pc = "committed" /\ change'[c].at = r.at
    BY <1>0, <1>b, <2>1 DEF Change
  <2> HIDE DEF r, after
  <2>5. Switchboard!RowsAreClosed' /\ Switchboard!SetsWereCommitted' /\ ReadingsWereCommitted'
    BY <1>a, <2>1, <2>3 DEF Switchboard!RowsAreClosed, Switchboard!Valid, Switchboard!SetsWereCommitted, ReadingsWereCommitted
  <2>6. OneHasTheRows'
    BY <2>2, <2>4 DEF OneHasTheRows
  <2>7. Switchboard!StaleIsDropped'
    <3> SUFFICES ASSUME NEW p \in Process, cache[p] # Null, p \notin excused'
                 PROVE  Switchboard!Pending(p)'
      BY <2>1 DEF Switchboard!StaleIsDropped
    <3>1. p \in listening \/ p = r.at
      BY <2>1
    <3> QED BY <2>1, <2>4, <3>1 DEF Switchboard!Pending
  <2> QED BY <1>0, <2>5, <2>6, <2>7 DEF ActivationInv
<1>4. ASSUME NEW c \in Client, Switchboard!Fail(c) PROVE ActivationInv'
  <2>1. /\ change' = [change EXCEPT ![c] = Switchboard!NoChange]
        /\ change[c].pc # "committed"
        /\ UNCHANGED <<enabled, past, cache, snapshot, asker, notices, excused>>
    BY <1>4 DEF Switchboard!Fail
  <2>2. \A d \in Client : change'[d] = IF d = c THEN Switchboard!NoChange ELSE change[d]
    BY <1>0, <2>1
  <2>3. \A p \in Process : Switchboard!Pending(p) => Switchboard!Pending(p)'
    BY <2>1, <2>2 DEF Switchboard!Pending
  <2> QED BY <1>0, <1>a, <1>d, <2>1, <2>2, <2>3, QuietOnRows
<1>5. ASSUME NEW r \in Asker, NEW p \in Process, NEW fresh \in BOOLEAN, Switchboard!Ask(r, p, fresh)
      PROVE  ActivationInv'
  <2> DEFINE had == IF fresh THEN Null ELSE cache[p]
             new == IF had = Null THEN [pc |-> "asking", at |-> p, set |-> {}]
                                       ELSE [pc |-> "knows", at |-> p, set |-> had]
  <2>1. new.pc \in {"read", "knows"} => new.set \in past
    BY <1>a
  <2>2. /\ UNCHANGED <<enabled, past, change, snapshot, notices>>
        /\ asker' = [asker EXCEPT ![r] = new]
        /\ cache' = IF fresh THEN [cache EXCEPT ![p] = Null] ELSE cache
        /\ excused' = IF fresh THEN excused \ {p} ELSE excused
    BY <1>5 DEF Switchboard!Ask, Switchboard!Invalidated, Switchboard!Known
  <2> HIDE DEF new
  <2>3. \A q \in Process : /\ cache'[q] = cache[q] \/ cache'[q] = Null
                           /\ q \in excused => q \in excused' \/ cache'[q] = Null
    BY <1>0, <2>2
  <2>4. \A q \in Process : Switchboard!Pending(q)' = Switchboard!Pending(q)
    BY <2>2 DEF Switchboard!Pending
  <2>5. \A q \in Asker : asker'[q].pc \in {"read", "knows"} => asker'[q].set \in past
    BY <1>0, <1>a, <2>1, <2>2
  <2>6. \A q \in Process : {cache'[q], snapshot'[q]} \subseteq past \cup {Null}
    BY <1>a, <2>2, <2>3
  <2>7. \A q \in Process : cache'[q] \notin {Null, enabled} => Switchboard!Pending(q)' \/ q \in excused'
    <3> SUFFICES ASSUME NEW q \in Process, cache'[q] \notin {Null, enabled}
                 PROVE  Switchboard!Pending(q)' \/ q \in excused'
      OBVIOUS
    <3>1. cache'[q] = cache[q]
      BY <2>3
    <3>2. Switchboard!Pending(q) \/ q \in excused
      BY <1>a, <3>1
    <3> QED BY <2>3, <2>4, <3>2
  <2>8. UNCHANGED <<enabled, past, change>>
    BY <2>2
  <2> QED BY <1>0, <2>5, <2>6, <2>7, <2>8, QuietOnRows
<1>6. ASSUME NEW r \in Asker, Switchboard!List(r) PROVE ActivationInv'
  <2>1. /\ asker' = [asker EXCEPT ![r].pc = "read", ![r].set = enabled]
        /\ UNCHANGED <<enabled, past, change, cache, snapshot, notices, excused>>
    BY <1>6 DEF Switchboard!List
  <2>2. \A q \in Asker : asker'[q].pc \in {"read", "knows"} => asker'[q].set \in past
    BY <1>0, <1>a, <1>c, <2>1 DEF Reading
  <2>3. \A q \in Process : Switchboard!Pending(q)' = Switchboard!Pending(q)
    BY <2>1 DEF Switchboard!Pending
  <2> QED BY <1>0, <1>a, <2>1, <2>2, <2>3, QuietOnRows
<1>7. ASSUME NEW r \in Asker, Switchboard!Fill(r) PROVE ActivationInv'
  <2> DEFINE p == asker[r].at
             read == asker[r].set
  <2>1. /\ UNCHANGED <<enabled, past, change, snapshot, notices>>
        /\ p \in Process /\ read \in past
        /\ \/ /\ asker' = [asker EXCEPT ![r].pc = "knows"]
              /\ cache' = [cache EXCEPT ![p] = read]
              /\ excused' = IF read = enabled THEN excused ELSE excused \cup {p}
           \/ asker' = [asker EXCEPT ![r] = Switchboard!NoReading] /\ UNCHANGED <<cache, excused>>
    BY <1>7, <1>a, <1>c DEF Switchboard!Fill
  <2>2. \A q \in Asker : asker'[q].pc \in {"read", "knows"} => asker'[q].set \in past
    <3>1. CASE asker' = [asker EXCEPT ![r].pc = "knows"]
      <4>1. asker'[r].set = read /\ \A q \in Asker : q # r => asker'[q] = asker[q]
        BY <1>0, <1>c, <3>1 DEF Reading
      <4> HIDE DEF read
      <4> QED BY <1>a, <2>1, <4>1
    <3>2. CASE asker' = [asker EXCEPT ![r] = Switchboard!NoReading]
      BY <1>0, <1>a, <1>d, <3>2
    <3> QED BY <2>1, <3>1, <3>2
  <2> HIDE DEF p, read
  <2>3. \A q \in Process : Switchboard!Pending(q)' = Switchboard!Pending(q)
    BY <2>1 DEF Switchboard!Pending
  <2>4. \A q \in Process : {cache'[q], snapshot'[q]} \subseteq past \cup {Null}
    BY <1>0, <1>a, <2>1
  <2>5. \A q \in Process : cache'[q] \notin {Null, enabled} => Switchboard!Pending(q)' \/ q \in excused'
    BY <1>0, <1>a, <2>1, <2>3
  <2> QED BY <1>0, <2>1, <2>2, <2>4, <2>5, QuietOnRows
<1>8. ASSUME NEW r \in Asker, Switchboard!SetActivePlugins(r) PROVE ActivationInv'
  <2>1. /\ snapshot' = [snapshot EXCEPT ![asker[r].at] = asker[r].set]
        /\ asker' = [asker EXCEPT ![r] = Switchboard!NoReading]
        /\ UNCHANGED <<enabled, past, change, cache, notices, excused>>
        /\ asker[r].set \in past
    BY <1>8, <1>a DEF Switchboard!SetActivePlugins
  <2>2. \A q \in Asker : asker'[q].pc \in {"read", "knows"} => asker'[q].set \in past
    BY <1>0, <1>a, <1>d, <2>1
  <2>3. \A q \in Process : Switchboard!Pending(q)' = Switchboard!Pending(q)
    BY <2>1 DEF Switchboard!Pending
  <2>4. \A q \in Process : {cache'[q], snapshot'[q]} \subseteq past \cup {Null}
    BY <1>0, <1>a, <2>1
  <2> QED BY <1>0, <1>a, <2>1, <2>2, <2>3, <2>4, QuietOnRows
<1>9. ASSUME NEW p \in Process, Switchboard!Hear(p) \/ Switchboard!Disconnect(p) PROVE ActivationInv'
  <2>1. /\ cache' = [cache EXCEPT ![p] = Null] /\ excused' = excused \ {p}
        /\ notices' = notices \ {p}
        /\ UNCHANGED <<enabled, past, change, snapshot, asker>>
    BY <1>9 DEF Switchboard!Hear, Switchboard!Disconnect, Switchboard!Invalidated, Switchboard!Known
  <2>2. \A q \in Process : cache'[q] = IF q = p THEN Null ELSE cache[q]
    BY <1>0, <2>1
  <2>3. \A q \in Process : q # p /\ Switchboard!Pending(q) => Switchboard!Pending(q)'
    BY <2>1 DEF Switchboard!Pending
  <2>4. \A q \in Process : {cache'[q], snapshot'[q]} \subseteq past \cup {Null}
    BY <1>a, <2>1, <2>2
  <2>5. \A q \in Process : cache'[q] \notin {Null, enabled} => Switchboard!Pending(q)' \/ q \in excused'
    BY <1>a, <2>1, <2>2, <2>3
  <2> QED BY <1>0, <1>a, <2>1, <2>4, <2>5, QuietOnRows
<1>10. ASSUME UNCHANGED <<enabled, past, change, cache, snapshot, asker, notices, excused>>
       PROVE  ActivationInv'
  <2>1. \A q \in Process : Switchboard!Pending(q)' = Switchboard!Pending(q)
    BY <1>10 DEF Switchboard!Pending
  <2> QED BY <1>0, <1>10, <1>a, <2>1, QuietOnRows
<1> QED BY <1>1, <1>2, <1>3, <1>4, <1>5, <1>6, <1>7, <1>8, <1>9, <1>10 DEF Switchboard!Next, Switchboard!vars, Switchboard!Listen

LEMMA PluginsMove ==
    ASSUME [SiteNext]_site, Is("plugins") PROVE Is("plugins")' /\ [Switchboard!Next]_(Switchboard!vars)
<1>1. part = "plugins" /\ part' = part
  BY PartStays DEF Is
<1>2. CASE SiteNext
  <2>1. Switchboard!Next \/ UNCHANGED plugins
    BY <1>1, <1>2 DEF SiteNext, Is, Others
  <2> QED BY <1>1, <2>1 DEF Is, plugins, Switchboard!vars
<1>3. CASE UNCHANGED site
  BY <1>1, <1>3 DEF Is, site, plugins, Switchboard!vars
<1> QED BY <1>2, <1>3

(* Changes of plugins that overlap keep their dependencies, processes      *)
(* decide by sets that were committed, and a stale one is about to be      *)
(* dropped or was excused.                                                 *)
THEOREM ActivationHolds == SiteSpec => []ActivationIsCoherent
<1> DEFINE I == Is("plugins") => ActivationInv
<1>0. Switchboard!PluginsAssumption
  BY SiteAssumption
<1>1. SiteInit => I
  BY <1>0, ActivationInvInit DEF SiteInit, Is
<1>2. I /\ [SiteNext]_site => I'
  <2> SUFFICES ASSUME I, [SiteNext]_site, Is("plugins") PROVE ActivationInv'
    BY PartStays DEF Is
  <2> QED BY <1>0, PluginsMove, ActivationInvStep
<1>3. I => ActivationIsCoherent
  BY DEF ActivationIsCoherent, Switchboard!ActivationIsCoherent, ActivationInv
<1> HIDE DEF I
<1> QED BY <1>1, <1>2, <1>3, PTL DEF SiteSpec

-----------------------------------------------------------------------------
IsEntry(r) ==
    /\ r \in [phase : {r.phase}, revision : {r.revision}, slug : {r.slug}, publication : {r.publication}]
    /\ r.publication \in Writing!Publication

(* A schedule has had its job from when it was written; before its time    *)
(* the job has not been done.                                              *)
ScheduleInv ==
    /\ entry = [e \in Entry |-> entry[e]] /\ \A e \in Entry : IsEntry(entry[e])
    /\ publishing \in [Entry -> [Writing!Time -> Writing!JobStatus]]
    /\ \A c \in waiting : c.entry \in Entry /\ c.publication \in Writing!Publication \cup {Writing!Plain(Same)}
    /\ now \in 0 .. Moments
    /\ \A e \in Entry, t \in Writing!Time : t > now => publishing[e][t] # "completed"
    /\ \A e \in Entry, t \in Writing!Time :
          entry[e].phase \in {"live", "trashed"} /\ Writing!ScheduledFor(e, t) => publishing[e][t] # "none"

LEMMA Publications ==
    /\ \A p \in Writing!Publication : p.status = "scheduled" => p.at \in Writing!Time /\ p = Writing!At(p.at)
    /\ \A p \in Writing!Publication, t \in Writing!Time : p = Writing!At(t) => p.status = "scheduled" /\ p.at = t
    /\ Writing!Plain("draft") \in Writing!Publication /\ Writing!Plain("published") \in Writing!Publication
    /\ \A t \in Writing!Time : Writing!At(t) # Writing!Plain("draft") /\ Writing!At(t) # Writing!Plain("published")
BY DEF Writing!Publication, Writing!Plain, Writing!At

LEMMA ScheduleInvInit == ASSUME Writing!ContentAssumption, Writing!Init PROVE ScheduleInv
<1>1. /\ \A e \in Entry : IsEntry(entry[e]) /\ entry[e].phase = "none"
      /\ entry = [e \in Entry |-> entry[e]]
  BY Publications DEF Writing!Init, IsEntry
<1>2. publishing \in [Entry -> [Writing!Time -> Writing!JobStatus]] /\ \A e \in Entry, t \in Writing!Time : publishing[e][t] = "none"
  BY DEF Writing!Init, Writing!JobStatus
<1>3. waiting = {} /\ now = 0 /\ 0 \in 0 .. Moments
  BY DEF Writing!Init, Writing!ContentAssumption
<1> QED BY <1>1, <1>2, <1>3 DEF ScheduleInv

LEMMA ScheduleInvHolds == ASSUME ScheduleInv PROVE Writing!ScheduleHasJob
BY DEF ScheduleInv, Writing!ScheduleHasJob, Writing!JobStatus

Saved(e, s, p) == [entry[e] EXCEPT !.slug = s, !.publication = p, !.revision = entry[e].revision + 1]

LEMMA SavedRow ==
    ASSUME NEW e \in Entry, NEW s, NEW p, Writing!Save(e, s, p), entry = [f \in Entry |-> entry[f]]
    PROVE  entry' = [entry EXCEPT ![e] = Saved(e, s, p)]
BY DEF Writing!Save, Saved

(* A row is written as it is published, and its schedule gets its job.     *)
LEMMA WriteRow ==
    ASSUME ScheduleInv, NEW e \in Entry, NEW mine, IsEntry(mine), entry' = [entry EXCEPT ![e] = mine],
           publishing' = Writing!Enqueued(e, mine.publication),
           waiting' \subseteq waiting, now' = now
    PROVE  ScheduleInv'
<1> DEFINE p == mine.publication
<1>0. p \in Writing!Publication
  BY DEF IsEntry
<1>1. /\ publishing' \in [Entry -> [Writing!Time -> Writing!JobStatus]]
      /\ \A f \in Entry, t \in Writing!Time : publishing'[f][t] \in {publishing[f][t], "pending"}
      /\ \A t \in Writing!Time : p = Writing!At(t) => publishing'[e][t] # "none"
  <2>1. CASE p.status = "scheduled" /\ publishing[e][p.at] = "none"
    <3>1. p.at \in Writing!Time /\ \A t \in Writing!Time : p = Writing!At(t) => p.at = t
      BY <1>0, <2>1, Publications
    <3>2. publishing' = [publishing EXCEPT ![e][p.at] = "pending"]
      BY <2>1 DEF Writing!Enqueued
    <3> HIDE DEF p
    <3> QED BY <3>1, <3>2 DEF ScheduleInv, Writing!JobStatus
  <2>2. CASE ~(p.status = "scheduled" /\ publishing[e][p.at] = "none")
    <3>1. publishing' = publishing
      BY <2>2 DEF Writing!Enqueued
    <3>2. \A t \in Writing!Time : p = Writing!At(t) => p.status = "scheduled" /\ p.at = t
      BY <1>0, Publications
    <3> HIDE DEF p
    <3> QED BY <2>2, <3>1, <3>2 DEF ScheduleInv
  <2> QED BY <2>1, <2>2
<1>2. entry' = [f \in Entry |-> IF f = e THEN mine ELSE entry[f]]
  BY DEF ScheduleInv
<1>3. /\ entry' = [f \in Entry |-> entry'[f]] /\ \A f \in Entry : IsEntry(entry'[f])
  BY <1>2 DEF ScheduleInv
<1>4. \A f \in Entry, t \in Writing!Time : t > now' => publishing'[f][t] # "completed"
  BY <1>1 DEF ScheduleInv
<1>5. ASSUME NEW f \in Entry, NEW t \in Writing!Time,
             entry'[f].phase \in {"live", "trashed"}, entry'[f].publication = Writing!At(t)
      PROVE  publishing'[f][t] # "none"
  <2>1. CASE f = e
    BY <1>1, <1>2, <1>5, <2>1
  <2>2. CASE f # e
    BY <1>1, <1>2, <1>5, <2>2 DEF ScheduleInv, Writing!ScheduledFor
  <2> QED BY <2>1, <2>2
<1> QED BY <1>1, <1>3, <1>4, <1>5 DEF ScheduleInv, Writing!ScheduledFor

(* A row keeps its publication, or leaves.                                 *)
LEMMA KeepRow ==
    ASSUME ScheduleInv, NEW e \in Entry, NEW mine, IsEntry(mine), entry' = [entry EXCEPT ![e] = mine],
           mine.publication = entry[e].publication,
           mine.phase \in {"live", "trashed"} => entry[e].phase \in {"live", "trashed"},
           UNCHANGED <<publishing, waiting, now>>
    PROVE  ScheduleInv'
<1>1. entry' = [f \in Entry |-> IF f = e THEN mine ELSE entry[f]]
  BY DEF ScheduleInv
<1>2. /\ entry' = [f \in Entry |-> entry'[f]] /\ \A f \in Entry : IsEntry(entry'[f])
  BY <1>1 DEF ScheduleInv
<1> QED BY <1>1, <1>2 DEF ScheduleInv, Writing!ScheduledFor

LEMMA CommitStep ==
    ASSUME ScheduleInv, NEW c \in waiting, Writing!Commit(c) PROVE ScheduleInv'
<1> DEFINE e == c.entry
           p == Writing!NewPublication(c)
           mine == Saved(e, Writing!NewSlug(c), p)
<1>1. e \in Entry /\ IsEntry(entry[e])
  BY DEF ScheduleInv
<1>2. p \in Writing!Publication
  <2>1. c.publication \in Writing!Publication \cup {Writing!Plain(Same)} /\ Writing!Plain(Same).status = Same
    BY DEF ScheduleInv, Writing!Plain
  <2> QED BY <1>1, <2>1 DEF Writing!NewPublication, IsEntry
<1>3. Writing!Save(e, Writing!NewSlug(c), p) /\ publishing' = Writing!Enqueued(e, p) /\ waiting' \subseteq waiting /\ now' = now
  BY DEF Writing!Commit
<1> HIDE DEF p
<1>4. IsEntry(mine) /\ mine.publication = p
  BY <1>1, <1>2 DEF IsEntry, Saved
<1>5. entry' = [entry EXCEPT ![e] = mine]
  BY <1>1, <1>3, SavedRow DEF ScheduleInv
<1> HIDE DEF mine, e
<1> QED BY <1>1, <1>3, <1>4, <1>5, WriteRow

LEMMA JobStep ==
    ASSUME ScheduleInv, NEW e \in Entry, NEW t \in Writing!Time, Writing!PublishScheduled(e, t) \/ Writing!Replay(e, t)
    PROVE  ScheduleInv'
<1>0. e \in Entry /\ IsEntry(entry[e]) /\ entry = [f \in Entry |-> entry[f]]
  BY DEF ScheduleInv
<1>1. CASE Writing!Replay(e, t)
  <2>1. /\ publishing' = [publishing EXCEPT ![e][t] = "pending"] /\ UNCHANGED <<entry, waiting, now>>
    BY <1>1 DEF Writing!Replay
  <2>2. /\ publishing' \in [Entry -> [Writing!Time -> Writing!JobStatus]]
        /\ \A f \in Entry, u \in Writing!Time : publishing'[f][u] \in {publishing[f][u], "pending"}
    BY <2>1 DEF ScheduleInv, Writing!JobStatus
  <2> QED BY <2>1, <2>2 DEF ScheduleInv, Writing!ScheduledFor
<1>2. CASE Writing!PublishScheduled(e, t)
  <2> DEFINE mine == Saved(e, entry[e].slug, Writing!Plain("published"))
  <2>1. /\ publishing' = [publishing EXCEPT ![e][t] = "completed"] /\ UNCHANGED <<waiting, now>>
        /\ t <= now
        /\ entry' = entry \/ entry' = [entry EXCEPT ![e] = mine]
    BY <1>0, <1>2, SavedRow DEF Writing!PublishScheduled
  <2>2. IsEntry(mine) /\ mine.publication = Writing!Plain("published")
    BY <1>0, Publications DEF IsEntry, Saved
  <2> HIDE DEF mine
  <2>3. /\ publishing' \in [Entry -> [Writing!Time -> Writing!JobStatus]]
        /\ publishing'[e][t] = "completed"
        /\ \A f \in Entry, u \in Writing!Time : f # e \/ u # t => publishing'[f][u] = publishing[f][u]
    BY <2>1 DEF ScheduleInv, Writing!JobStatus
  <2>4. /\ entry' = [f \in Entry |-> entry'[f]]
        /\ \A f \in Entry : /\ IsEntry(entry'[f])
                            /\ \/ entry'[f] = entry[f]
                               \/ entry'[f].publication = Writing!Plain("published")
    BY <1>0, <2>1, <2>2 DEF ScheduleInv
  <2>5. \A f \in Entry, u \in Writing!Time : u > now' => publishing'[f][u] # "completed"
    BY <2>1, <2>3 DEF ScheduleInv, Writing!Time
  <2>6. \A f \in Entry, u \in Writing!Time :
           entry'[f].phase \in {"live", "trashed"} /\ entry'[f].publication = Writing!At(u) => publishing'[f][u] # "none"
    BY <2>3, <2>4, Publications DEF ScheduleInv, Writing!ScheduledFor
  <2> QED BY <2>1, <2>3, <2>4, <2>5, <2>6 DEF ScheduleInv, Writing!ScheduledFor
<1> QED BY <1>1, <1>2

LEMMA BinStep ==
    ASSUME ScheduleInv, NEW e \in Entry, Writing!Trash(e) \/ Writing!Restore(e) \/ Writing!Purge(e) PROVE ScheduleInv'
<1>1. PICK phase \in {"live", "trashed", "gone"} : entry' = [entry EXCEPT ![e].phase = phase]
  BY Zenon DEF Writing!Trash, Writing!Restore, Writing!Purge
<1>2. entry[e].phase \in {"live", "trashed"} /\ UNCHANGED <<publishing, waiting, now>>
  BY Zenon DEF Writing!Trash, Writing!Restore, Writing!Purge, Writing!Live
<1> DEFINE mine == [entry[e] EXCEPT !.phase = phase]
<1>3. IsEntry(mine) /\ mine.publication = entry[e].publication
  BY DEF ScheduleInv, IsEntry
<1>4. entry' = [entry EXCEPT ![e] = mine]
  BY <1>1
<1> HIDE DEF mine
<1> QED BY <1>2, <1>3, <1>4, KeepRow

LEMMA ScheduleInvStep == ASSUME Writing!ContentAssumption, ScheduleInv, [Writing!Next]_(Writing!vars) PROVE ScheduleInv'
<1>1. ASSUME NEW e \in Entry, NEW s \in Slug, NEW p \in Writing!Publication, Writing!Create(e, s, p) PROVE ScheduleInv'
  <2> DEFINE mine == [phase |-> "live", revision |-> 1, slug |-> s, publication |-> p]
  <2>1. IsEntry(mine) /\ mine.publication = p
    BY DEF IsEntry
  <2>2. entry' = [entry EXCEPT ![e] = mine] /\ publishing' = Writing!Enqueued(e, p) /\ UNCHANGED <<waiting, now>>
    BY <1>1 DEF Writing!Create
  <2> HIDE DEF mine
  <2> QED BY <2>1, <2>2, WriteRow
<1>2. ASSUME NEW c, c.entry \in Entry, c.publication \in Writing!Publication \cup {Writing!Plain(Same)}, Writing!Arrive(c)
      PROVE  ScheduleInv'
  BY <1>2 DEF Writing!Arrive, ScheduleInv, Writing!ScheduledFor
<1>3. ASSUME NEW c \in Writing!Change, Writing!Arrive(c) PROVE ScheduleInv'
  BY <1>2, <1>3 DEF Writing!Change
<1>4. ASSUME NEW e \in Entry, NEW n, Writing!ArriveRestore(e, n) PROVE ScheduleInv'
  <2> DEFINE c == [entry |-> e, slug |-> revision[e][n].slug, publication |-> Writing!Plain("draft")]
  <2>1. c.entry \in Entry /\ c.publication \in Writing!Publication /\ Writing!Arrive(c)
    BY <1>4, Publications DEF Writing!ArriveRestore
  <2> HIDE DEF c
  <2> QED BY <1>2, <2>1
<1>5. ASSUME NEW c \in waiting, Writing!Refuse(c) PROVE ScheduleInv'
  BY <1>5 DEF Writing!Refuse, ScheduleInv, Writing!ScheduledFor
<1>6. ASSUME NEW refused \in SUBSET Entry, Writing!DeclareType(refused) PROVE ScheduleInv'
  BY <1>6 DEF Writing!DeclareType, ScheduleInv, Writing!ScheduledFor
<1>7. CASE Writing!Tick
  <2>1. now' = now + 1 /\ now < Moments /\ UNCHANGED <<entry, publishing, waiting>>
    BY <1>7 DEF Writing!Tick
  <2>2. now' \in 0 .. Moments /\ \A t \in Writing!Time : t > now' => t > now
    BY <2>1 DEF ScheduleInv, Writing!ContentAssumption, Writing!Time
  <2> QED BY <2>1, <2>2 DEF ScheduleInv, Writing!ScheduledFor
<1>8. CASE UNCHANGED Writing!vars
  BY <1>8 DEF Writing!vars, ScheduleInv, Writing!ScheduledFor
<1> QED BY <1>1, <1>3, <1>4, <1>5, <1>6, <1>7, <1>8, CommitStep, JobStep, BinStep DEF Writing!Next

LEMMA ContentMoves ==
    ASSUME [SiteNext]_site, Is("content") PROVE Is("content")' /\ [Writing!Next]_(Writing!vars)
<1>1. part = "content" /\ part' = part
  BY PartStays DEF Is
<1>2. CASE SiteNext
  <2>1. Writing!Next \/ UNCHANGED content
    BY <1>1, <1>2 DEF SiteNext, Is, Others
  <2> QED BY <1>1, <2>1 DEF Is, content, Writing!vars
<1>3. CASE UNCHANGED site
  BY <1>1, <1>3 DEF Is, site, content, Writing!vars
<1> QED BY <1>2, <1>3

(* Whatever is written, restored, trashed and published meanwhile, a time  *)
(* to come that an entry is scheduled for has a job.                       *)
THEOREM SchedulesHaveJobs == SiteSpec => []ScheduleHasJob
<1> DEFINE I == Is("content") => ScheduleInv
<1>0. Writing!ContentAssumption
  BY SiteAssumption
<1>1. SiteInit => I
  BY <1>0, ScheduleInvInit DEF SiteInit, Is
<1>2. I /\ [SiteNext]_site => I'
  <2> SUFFICES ASSUME I, [SiteNext]_site, Is("content") PROVE ScheduleInv'
    BY PartStays DEF Is
  <2> QED BY <1>0, ContentMoves, ScheduleInvStep
<1>3. I => ScheduleHasJob
  BY <1>0, ScheduleInvHolds DEF ScheduleHasJob
<1> HIDE DEF I
<1> QED BY <1>1, <1>2, <1>3, PTL DEF SiteSpec

-----------------------------------------------------------------------------
LEMMA Ledger == ASSUME NEW S PROVE Writing!Cardinality(S) = Cardinality(S)
BY DEF Writing!Cardinality, Cardinality

EntryRow == [phase : {"none", "live", "trashed", "gone"}, revision : Nat,
             slug : Slug, publication : Writing!Publication]

IsLeft(e, s) == \E i \in DOMAIN former : former[i] = <<e, s>>

PathRows ==
    /\ entry \in [Entry -> EntryRow]
    /\ revision \in [Entry -> Seq(Writing!Snapshot)]
    /\ former \in Seq(Entry \X Slug)
    /\ waiting \subseteq Writing!Change

(* What an entry has had is where it is or has been left behind by it; it  *)
(* is had by the entry that left it, which is there; and no two entries    *)
(* are in one place.                                                       *)
PathsKept ==
    /\ \A e \in Entry : entry[e].phase \in {"live", "trashed"} =>
          /\ entry[e].slug \in Writing!Had(e)
          /\ \A s \in Writing!Had(e) : s = entry[e].slug \/ IsLeft(e, s)
    /\ \A e \in Entry : entry[e].phase = "none" => revision[e] = <<>>
    /\ \A e \in Entry, s \in Slug : IsLeft(e, s) => s \in Writing!Had(e)
    /\ \A e, f \in Entry : e # f /\ Writing!Live(e) /\ Writing!Live(f) => entry[e].slug # entry[f].slug

PathsInv == PathRows /\ PathsKept

LEMMA PathsInvInit == ASSUME Writing!ContentAssumption, Writing!Init PROVE PathsInv
<1>1. Writing!AnySlug \in Slug
  BY DEF Writing!AnySlug, Writing!ContentAssumption
<1>2. PathRows
  BY <1>1 DEF Writing!Init, PathRows, EntryRow, Writing!Publication, Writing!Plain
<1>3. \A e \in Entry : entry[e].phase = "none" /\ revision[e] = <<>>
  BY DEF Writing!Init
<1>4. former = <<>> /\ DOMAIN former = {}
  BY DEF Writing!Init
<1> QED BY <1>2, <1>3, <1>4 DEF PathsInv, PathsKept, IsLeft, Writing!Live

(* Among numbers that do not exceed a bound there is a largest.            *)
LEMMA Largest ==
    ASSUME NEW n \in Nat, NEW S \in SUBSET (1 .. n), S # {}
    PROVE  \E m \in S : \A k \in S : k <= m
<1> DEFINE T == {n - k : k \in S}
<1>1. T \in SUBSET Nat /\ T # {}
  <2>1. \A k \in S : n - k \in Nat
    OBVIOUS
  <2> QED BY <2>1
<1>2. PICK m \in T : \A k \in T : ~(<<k, m>> \in OpToRel(<, Nat))
  BY <1>1, NatLessThanWellFounded, WFMin
<1>3. \A k \in T : ~(k < m)
  BY <1>1, <1>2 DEF OpToRel
<1>4. PICK x \in S : m = n - x
  OBVIOUS
<1>5. \A k \in S : k <= x
  <2> SUFFICES ASSUME NEW k \in S PROVE k <= x
    OBVIOUS
  <2>1. n - k \in T
    OBVIOUS
  <2>2. n \in Int /\ k \in Int /\ x \in Int
    OBVIOUS
  <2>3. ~(n - k < n - x)
    BY <1>3, <1>4, <2>1
  <2> QED BY <2>2, <2>3
<1> QED BY <1>5

LEMMA PathsInvHolds == ASSUME PathsInv PROVE Writing!PathsLead
<1> SUFFICES ASSUME NEW e \in Entry, Writing!Public(e), NEW s \in Writing!Had(e)
             PROVE  \E f \in Entry : /\ Writing!Leads(s, f) /\ s \in Writing!Had(f)
                                     /\ \A g \in Entry : Writing!Leads(s, g) => g = f
  BY DEF Writing!PathsLead
<1>1. CASE \E f \in Entry : Writing!Public(f) /\ entry[f].slug = s
  <2>1. PICK f \in Entry : Writing!Public(f) /\ entry[f].slug = s
    BY <1>1
  <2>2. Writing!Leads(s, f) /\ s \in Writing!Had(f)
    BY <2>1 DEF Writing!Leads, PathsInv, PathsKept, Writing!Public, Writing!Live
  <2>3. ASSUME NEW g \in Entry, Writing!Leads(s, g) PROVE g = f
    <3>1. Writing!Public(g) /\ entry[g].slug = s
      BY <2>1, <2>3 DEF Writing!Leads
    <3> QED BY <2>1, <3>1 DEF PathsInv, PathsKept, Writing!Public, Writing!Live
  <2> QED BY <2>2, <2>3
<1>2. CASE \A f \in Entry : Writing!Public(f) => entry[f].slug # s
  <2> DEFINE S == {i \in DOMAIN former : former[i][2] = s /\ Writing!Public(former[i][1])}
  <2>1. former \in Seq(Entry \X Slug) /\ DOMAIN former = 1 .. Len(former) /\ Len(former) \in Nat
    BY DEF PathsInv, PathRows
  <2>2. \A i \in DOMAIN former : former[i][1] \in Entry /\ former[i] = <<former[i][1], former[i][2]>>
    BY <2>1
  <2>3. IsLeft(e, s)
    BY <1>2 DEF PathsInv, PathsKept, Writing!Public, Writing!Live
  <2>4. S # {} /\ S \in SUBSET (1 .. Len(former))
    BY <2>1, <2>3 DEF IsLeft
  <2>5. PICK m \in S : \A k \in S : k <= m
    BY <2>1, <2>4, Largest
  <2> DEFINE f == former[m][1]
  <2>6. /\ m \in DOMAIN former /\ m \in 1 .. Len(former) /\ f \in Entry /\ former[m] = <<f, s>> /\ Writing!Public(f)
        /\ s \in Writing!Had(f)
    <3>1. m \in DOMAIN former /\ f \in Entry /\ s \in Slug /\ former[m] = <<f, s>> /\ Writing!Public(f)
      BY <2>1, <2>2, <2>5
    <3> QED BY <2>1, <3>1 DEF PathsInv, PathsKept, IsLeft
  <2>7. \A j \in m + 1 .. Len(former) : former[j][2] = s => ~Writing!Public(former[j][1])
    BY <2>1, <2>5, <2>6
  <2>8. Writing!Leads(s, f)
    BY <1>2, <2>6, <2>7 DEF Writing!Leads
  <2>9. ASSUME NEW g \in Entry, Writing!Leads(s, g) PROVE g = f
    <3>1. PICK i \in DOMAIN former :
             /\ former[i] = <<g, s>> /\ Writing!Public(g)
             /\ \A j \in i + 1 .. Len(former) : former[j][2] = s => ~Writing!Public(former[j][1])
      BY <1>2, <2>9 DEF Writing!Leads
    <3>2. i \in S /\ i \in 1 .. Len(former)
      BY <2>1, <3>1
    <3>3. i <= m /\ m \in Int /\ i \in Int
      BY <2>1, <2>5, <2>6, <3>2
    <3>4. ~(m \in i + 1 .. Len(former))
      BY <2>6, <3>1
    <3>5. i = m
      BY <2>6, <3>3, <3>4
    <3> QED BY <2>6, <3>1, <3>5
  <2> QED BY <2>6, <2>8, <2>9
<1> QED BY <1>1, <1>2

LEMMA HadAreSlugs ==
    ASSUME PathRows, NEW e \in Entry
    PROVE  Writing!Had(e) \subseteq Slug /\ \A n \in DOMAIN revision[e] : revision[e][n].slug \in Slug
<1>1. revision[e] \in Seq(Writing!Snapshot)
  BY DEF PathRows
<1>2. \A n \in DOMAIN revision[e] : revision[e][n] \in Writing!Snapshot
  BY <1>1
<1> QED BY <1>2 DEF Writing!Had, Writing!Snapshot

(* What moves no entry and no path.                                        *)
LEMMA NothingMoves ==
    ASSUME PathsInv, UNCHANGED <<entry, revision, former>>, waiting' \subseteq Writing!Change
    PROVE  PathsInv'
<1>1. \A e \in Entry, s \in Slug : (IsLeft(e, s)' <=> IsLeft(e, s)) /\ Writing!Had(e)' = Writing!Had(e) /\ (Writing!Live(e)' <=> Writing!Live(e))
  BY DEF IsLeft, Writing!Had, Writing!Live
<1>2. PathRows'
  BY DEF PathsInv, PathRows
<1>3. PathsKept'
  <2>1. ASSUME NEW e \in Entry PROVE Writing!Had(e) \subseteq Slug
    BY HadAreSlugs DEF PathsInv
  <2>2. ASSUME NEW e \in Entry, entry[e].phase \in {"live", "trashed"}
        PROVE  /\ entry[e].slug \in Writing!Had(e)'
               /\ \A s \in Writing!Had(e)' : s = entry[e].slug \/ IsLeft(e, s)'
    BY <1>1, <2>1, <2>2 DEF PathsInv, PathsKept
  <2>3. \A e \in Entry, s \in Slug : IsLeft(e, s)' => s \in Writing!Had(e)'
    BY <1>1 DEF PathsInv, PathsKept
  <2>4. /\ \A e \in Entry : entry'[e].phase = "none" => revision'[e] = <<>>
        /\ \A e, f \in Entry : e # f /\ Writing!Live(e)' /\ Writing!Live(f)' => entry'[e].slug # entry'[f].slug
    BY DEF PathsInv, PathsKept, Writing!Live
  <2> QED BY <2>2, <2>3, <2>4 DEF PathsKept
<1> QED BY <1>2, <1>3 DEF PathsInv

(* A row that is saved: the path it comes to is had, the path it leaves is *)
(* left behind.                                                            *)
LEMMA SaveKeeps ==
    ASSUME PathsInv, NEW e \in Entry, Writing!Live(e), NEW s \in Slug, Writing!Free(e, s), NEW p \in Writing!Publication,
           Writing!Save(e, s, p), waiting' \subseteq waiting
    PROVE  PathsInv'
<1>0. PathRows /\ PathsKept
  BY DEF PathsInv
<1>1. entry' = [entry EXCEPT ![e] = entry'[e]] /\ entry'[e] \in EntryRow
      /\ entry'[e].phase = "live" /\ entry'[e].slug = s
  <2>1. entry[e] \in EntryRow /\ entry[e].phase = "live"
    BY <1>0 DEF PathRows, Writing!Live
  <2>2. entry'[e] = [entry[e] EXCEPT !.slug = s, !.publication = p, !.revision = entry[e].revision + 1]
    BY <1>0 DEF Writing!Save, PathRows
  <2>3. entry' = [entry EXCEPT ![e] = entry'[e]]
    BY <1>0, <2>2 DEF Writing!Save, PathRows
  <2>4. entry[e].revision + 1 \in Nat
    BY <2>1 DEF EntryRow
  <2>5. entry'[e] \in EntryRow /\ entry'[e].phase = "live" /\ entry'[e].slug = s
    BY <2>1, <2>2, <2>4 DEF EntryRow
  <2> QED BY <2>3, <2>5
<1>2. revision'[e] = Append(revision[e], Writing!Archived(e, s, p)) /\ revision' = [revision EXCEPT ![e] = revision'[e]]
  BY <1>0 DEF Writing!Save, PathRows
<1>3. revision[e] \in Seq(Writing!Snapshot) /\ Writing!Archived(e, s, p) \in Writing!Snapshot /\ Writing!Archived(e, s, p).slug = s
  BY <1>0 DEF PathRows, Writing!Archived, Writing!Snapshot
<1>4. revision'[e] \in Seq(Writing!Snapshot) /\ Writing!Had(e)' = Writing!Had(e) \cup {s}
  <2> DEFINE a == Writing!Archived(e, s, p)
             r == revision[e]
  <2> HIDE DEF a
  <2>1. /\ Append(r, a) \in Seq(Writing!Snapshot) /\ Len(Append(r, a)) = Len(r) + 1 /\ Len(r) \in Nat
        /\ \A i \in 1 .. Len(r) : Append(r, a)[i] = r[i]
        /\ Append(r, a)[Len(r) + 1] = a
    BY <1>3 DEF a
  <2>2. DOMAIN r = 1 .. Len(r) /\ DOMAIN Append(r, a) = 1 .. Len(r) + 1
    BY <1>3, <2>1
  <2>3. {Append(r, a)[n].slug : n \in DOMAIN Append(r, a)} = {r[n].slug : n \in DOMAIN r} \cup {a.slug}
    BY <2>1, <2>2
  <2> QED BY <1>2, <1>3, <2>1, <2>3 DEF Writing!Had, a
<1>5. \A f \in Entry \ {e} : entry'[f] = entry[f] /\ revision'[f] = revision[f] /\ Writing!Had(f)' = Writing!Had(f)
  BY <1>0, <1>1, <1>2 DEF PathRows, Writing!Had
<1>6. former' = Writing!LeftBehind(e, s) /\ entry[e].slug \in Slug /\ entry[e].slug \in Writing!Had(e)
  BY <1>0 DEF Writing!Save, PathRows, PathsKept, EntryRow, Writing!Live
<1>7. /\ former' \in Seq(Entry \X Slug)
      /\ \A i \in DOMAIN former : i \in DOMAIN former' /\ former'[i] = former[i]
      /\ \A i \in DOMAIN former' : i \in DOMAIN former \/ former'[i] = <<e, entry[e].slug>>
      /\ entry[e].slug = s \/ \E i \in DOMAIN former' : former'[i] = <<e, entry[e].slug>>
  <2> DEFINE h == <<e, entry[e].slug>>
  <2>1. CASE s = entry[e].slug \/ \E i \in DOMAIN former : former[i] = h
    BY <1>0, <1>6, <2>1 DEF Writing!LeftBehind, PathRows
  <2>2. CASE ~(s = entry[e].slug \/ \E i \in DOMAIN former : former[i] = h)
    <3>1. former' = Append(former, h) /\ h \in Entry \X Slug /\ former \in Seq(Entry \X Slug)
      BY <1>0, <1>6, <2>2 DEF Writing!LeftBehind, PathRows
    <3> HIDE DEF h
    <3>2. /\ Len(former) \in Nat /\ DOMAIN former = 1 .. Len(former)
          /\ Append(former, h) \in Seq(Entry \X Slug) /\ DOMAIN Append(former, h) = 1 .. Len(former) + 1
          /\ \A i \in 1 .. Len(former) : Append(former, h)[i] = former[i]
          /\ Append(former, h)[Len(former) + 1] = h
      BY <3>1
    <3>3. former' \in Seq(Entry \X Slug) /\ DOMAIN former' = 1 .. Len(former) + 1
      BY <3>1, <3>2
    <3>4. /\ \A i \in DOMAIN former : i \in DOMAIN former' /\ former'[i] = former[i]
          /\ \A i \in DOMAIN former' : i \in DOMAIN former \/ former'[i] = h
      BY <3>1, <3>2, <3>3
    <3>5. Len(former) + 1 \in DOMAIN former' /\ former'[Len(former) + 1] = h
      BY <3>1, <3>2, <3>3
    <3> QED BY <3>3, <3>4, <3>5 DEF h
  <2> QED BY <2>1, <2>2
<1>8. PathRows'
  BY <1>0, <1>1, <1>2, <1>4, <1>7 DEF PathRows
<1>9. PathsKept'
  <2>1. ASSUME NEW f \in Entry, entry'[f].phase \in {"live", "trashed"}
        PROVE  /\ entry'[f].slug \in Writing!Had(f)'
               /\ \A t \in Writing!Had(f)' : t = entry'[f].slug \/ IsLeft(f, t)'
    <3>1. CASE f = e
      <4>1. \A t \in Writing!Had(e) : t = entry[e].slug \/ IsLeft(e, t)
        BY <1>0 DEF PathsKept, Writing!Live
      <4> QED BY <1>1, <1>4, <1>7, <3>1, <4>1 DEF IsLeft
    <3>2. CASE f # e
      BY <1>0, <1>5, <1>7, <2>1, <3>2 DEF PathsKept, IsLeft
    <3> QED BY <3>1, <3>2
  <2>2. \A f \in Entry : entry'[f].phase = "none" => revision'[f] = <<>>
    BY <1>0, <1>1, <1>5 DEF PathsKept
  <2>3. ASSUME NEW f \in Entry, NEW t \in Slug, IsLeft(f, t)' PROVE t \in Writing!Had(f)'
    <3>1. PICK i \in DOMAIN former' : former'[i] = <<f, t>>
      BY <2>3 DEF IsLeft
    <3>2. IsLeft(f, t) \/ (f = e /\ t = entry[e].slug)
      BY <1>7, <3>1 DEF IsLeft
    <3>3. t \in Writing!Had(f)
      BY <1>0, <1>6, <3>2 DEF PathsKept
    <3> QED BY <1>4, <1>5, <3>3
  <2>4. \A f, g \in Entry : f # g /\ Writing!Live(f)' /\ Writing!Live(g)' => entry'[f].slug # entry'[g].slug
    BY <1>0, <1>1, <1>5 DEF PathsKept, Writing!Live, Writing!Free
  <2> QED BY <2>1, <2>2, <2>3, <2>4 DEF PathsKept
<1> QED BY <1>8, <1>9 DEF PathsInv

LEMMA CreateKeeps ==
    ASSUME PathsInv, NEW e \in Entry, NEW s \in Slug, NEW p \in Writing!Publication, Writing!Create(e, s, p)
    PROVE  PathsInv'
<1>0. PathRows /\ PathsKept /\ entry[e].phase = "none" /\ Writing!Had(e) = {}
  BY DEF PathsInv, PathsKept, Writing!Create, Writing!Had
<1>1. entry' = [entry EXCEPT ![e] = entry'[e]] /\ entry'[e] \in EntryRow
      /\ entry'[e].phase = "live" /\ entry'[e].slug = s
  BY <1>0 DEF Writing!Create, PathRows, EntryRow
<1>2. /\ revision'[e] = <<[slug |-> s, publication |-> p]>> /\ revision' = [revision EXCEPT ![e] = revision'[e]]
      /\ revision'[e] \in Seq(Writing!Snapshot) /\ Writing!Had(e)' = {s}
  BY <1>0 DEF Writing!Create, PathRows, Writing!Snapshot, Writing!Had
<1>3. \A f \in Entry \ {e} : entry'[f] = entry[f] /\ revision'[f] = revision[f] /\ Writing!Had(f)' = Writing!Had(f)
  BY <1>0, <1>1, <1>2 DEF PathRows, Writing!Had
<1>4. UNCHANGED <<former, waiting>>
  BY DEF Writing!Create
<1>5. PathRows'
  BY <1>0, <1>1, <1>2, <1>4 DEF PathRows
<1>6. PathsKept'
  <2>1. ASSUME NEW f \in Entry, entry'[f].phase \in {"live", "trashed"}
        PROVE  /\ entry'[f].slug \in Writing!Had(f)'
               /\ \A t \in Writing!Had(f)' : t = entry'[f].slug \/ IsLeft(f, t)'
    BY <1>0, <1>1, <1>2, <1>3, <1>4, <2>1 DEF PathsKept, IsLeft
  <2>2. \A f \in Entry : entry'[f].phase = "none" => revision'[f] = <<>>
    BY <1>0, <1>1, <1>3 DEF PathsKept
  <2>3. ASSUME NEW f \in Entry, NEW t \in Slug, IsLeft(f, t)' PROVE t \in Writing!Had(f)'
    <3>1. t \in Writing!Had(f)
      BY <1>0, <1>4, <2>3 DEF PathsKept, IsLeft
    <3> QED BY <1>0, <1>3, <3>1
  <2>4. \A f, g \in Entry : f # g /\ Writing!Live(f)' /\ Writing!Live(g)' => entry'[f].slug # entry'[g].slug
    <3>1. Writing!Free(e, s)
      BY DEF Writing!Create
    <3> QED BY <1>0, <1>1, <1>3, <3>1 DEF PathsKept, Writing!Live, Writing!Free
  <2> QED BY <2>1, <2>2, <2>3, <2>4 DEF PathsKept
<1> QED BY <1>5, <1>6 DEF PathsInv

(* A change of phase alone.                                                *)
LEMMA PhaseKeeps ==
    ASSUME PathsInv, NEW e \in Entry, NEW phase \in {"live", "trashed"},
           entry[e].phase \in {"live", "trashed"}, phase = "live" => Writing!Free(e, entry[e].slug),
           entry' = [entry EXCEPT ![e].phase = phase], UNCHANGED <<revision, former, waiting>>
    PROVE  PathsInv'
<1>0. PathRows /\ PathsKept
  BY DEF PathsInv
<1>1. entry[e] \in EntryRow
  BY <1>0 DEF PathRows
<1>2. entry' \in [Entry -> EntryRow] /\ entry'[e].phase = phase /\ entry'[e].slug = entry[e].slug
  BY <1>0, <1>1 DEF PathRows, EntryRow
<1>3. \A f \in Entry \ {e} : entry'[f] = entry[f]
  BY <1>0 DEF PathRows
<1>4. \A f \in Entry, t \in Slug : (IsLeft(f, t)' <=> IsLeft(f, t)) /\ Writing!Had(f)' = Writing!Had(f)
  BY DEF IsLeft, Writing!Had
<1>5. PathRows'
  BY <1>0, <1>2 DEF PathRows
<1>6. PathsKept'
  <2>1. ASSUME NEW f \in Entry, entry'[f].phase \in {"live", "trashed"}
        PROVE  /\ entry'[f].slug \in Writing!Had(f)'
               /\ \A t \in Writing!Had(f)' : t = entry'[f].slug \/ IsLeft(f, t)'
    <3>1. entry[f].phase \in {"live", "trashed"} /\ entry'[f].slug = entry[f].slug /\ Writing!Had(f) \subseteq Slug
      BY <1>0, <1>2, <1>3, <2>1, HadAreSlugs
    <3> QED BY <1>0, <1>4, <3>1 DEF PathsKept
  <2>2. \A f \in Entry : entry'[f].phase = "none" => revision'[f] = <<>>
    BY <1>0, <1>2, <1>3 DEF PathsKept
  <2>3. \A f \in Entry, t \in Slug : IsLeft(f, t)' => t \in Writing!Had(f)'
    BY <1>0, <1>4 DEF PathsKept
  <2>4. \A f, g \in Entry : f # g /\ Writing!Live(f)' /\ Writing!Live(g)' => entry'[f].slug # entry'[g].slug
    BY <1>0, <1>2, <1>3 DEF PathsKept, Writing!Live, Writing!Free
  <2> QED BY <2>1, <2>2, <2>3, <2>4 DEF PathsKept
<1> QED BY <1>5, <1>6 DEF PathsInv

(* What is left of the paths when an entry is purged is what others left.  *)
LEMMA PurgedPaths ==
    ASSUME PathRows, NEW e \in Entry
    PROVE  /\ Writing!FormerOfOthers(e) \in Seq(Entry \X Slug)
           /\ \A h \in Entry \X Slug :
                 (\E k \in DOMAIN Writing!FormerOfOthers(e) : Writing!FormerOfOthers(e)[k] = h)
                    <=> h[1] # e /\ \E i \in DOMAIN former : former[i] = h
<1> DEFINE S == Writing!OfOthers(e)
           n == Cardinality(S)
           R == {p \in S \X S : p[1] < p[2]}
           rank == [i \in S |-> Cardinality({j \in S : <<j, i>> \in R})]
           q == Writing!FormerOfOthers(e)
           chosen(k) == CHOOSE i \in S : Writing!Rank(e, i) = k - 1
<1>1. /\ former \in Seq(Entry \X Slug) /\ DOMAIN former = 1 .. Len(former) /\ Len(former) \in Nat
      /\ S \subseteq 1 .. Len(former) /\ S \subseteq Int
  BY DEF PathRows, Writing!OfOthers
<1>2. IsFiniteSet(S)
  <2>1. IsFiniteSet(1 .. Len(former))
    BY <1>1, FS_Interval
  <2> QED BY <1>1, <2>1, FS_Subset
<1>3. \A i \in S : rank[i] = Writing!Rank(e, i)
  <2> SUFFICES ASSUME NEW i \in S PROVE rank[i] = Writing!Rank(e, i)
    OBVIOUS
  <2>1. {j \in S : <<j, i>> \in R} = {j \in S : j < i}
    OBVIOUS
  <2>2. rank[i] = Cardinality({j \in S : j < i})
    BY <2>1
  <2> QED BY <2>2, Ledger DEF Writing!Rank
<1>4. OrdersStrictly(R, S) /\ Ranks(rank, R, S)
  BY <1>1 DEF OrdersStrictly, Ranks
<1> HIDE DEF S, R, rank
<1>5. /\ n \in Nat
      /\ \A i \in S : rank[i] \in Nat /\ rank[i] < n
      /\ \A i, j \in S : rank[i] = rank[j] => i = j
      /\ \A k \in 1 .. n : \E i \in S : rank[i] = k - 1
  BY <1>2, <1>4, Ranking
<1> HIDE DEF n
<1>6. \A k \in 1 .. n : chosen(k) \in S /\ Writing!Rank(e, chosen(k)) = k - 1
  BY <1>3, <1>5
<1>7. q = [k \in 1 .. n |-> former[chosen(k)]]
  BY Ledger DEF Writing!FormerOfOthers, n, S
<1> HIDE DEF q, chosen
<1>8. \A i \in S : i \in DOMAIN former /\ former[i] \in Entry \X Slug /\ former[i][1] # e
  BY <1>1 DEF S, Writing!OfOthers
<1>9. q \in Seq(Entry \X Slug) /\ DOMAIN q = 1 .. n
  BY <1>5, <1>6, <1>7, <1>8
<1>10. ASSUME NEW i \in S PROVE \E k \in DOMAIN q : q[k] = former[i]
  <2>1. rank[i] \in Nat /\ rank[i] + 1 \in 1 .. n
    BY <1>5
  <2>2. chosen(rank[i] + 1) \in S /\ rank[chosen(rank[i] + 1)] = rank[i]
    BY <1>3, <1>6, <2>1
  <2>3. chosen(rank[i] + 1) = i
    BY <1>5, <2>2
  <2> QED BY <1>7, <1>9, <2>1, <2>3
<1>11. ASSUME NEW h \in Entry \X Slug
       PROVE  (\E k \in DOMAIN q : q[k] = h) <=> h[1] # e /\ \E i \in DOMAIN former : former[i] = h
  <2>1. ASSUME NEW k \in DOMAIN q, q[k] = h PROVE h[1] # e /\ \E i \in DOMAIN former : former[i] = h
    BY <1>6, <1>7, <1>8, <1>9, <2>1
  <2>2. ASSUME h[1] # e, NEW i \in DOMAIN former, former[i] = h PROVE \E k \in DOMAIN q : q[k] = h
    <3>1. i \in S
      BY <2>2 DEF S, Writing!OfOthers
    <3> QED BY <1>10, <2>2, <3>1
  <2> QED BY <2>1, <2>2
<1> QED BY <1>9, <1>11 DEF q

LEMMA PurgeKeeps == ASSUME PathsInv, NEW e \in Entry, Writing!Purge(e) PROVE PathsInv'
<1>0. PathRows /\ PathsKept /\ entry[e] \in EntryRow
  BY DEF PathsInv, PathRows
<1>1. entry' \in [Entry -> EntryRow] /\ entry'[e].phase = "gone"
  BY <1>0 DEF Writing!Purge, PathRows, EntryRow
<1>2. revision' = [revision EXCEPT ![e] = <<>>] /\ former' = Writing!FormerOfOthers(e) /\ waiting' = waiting
  BY DEF Writing!Purge
<1>3. <<>> \in Seq(Writing!Snapshot)
  OBVIOUS
<1>4. PathRows'
  BY <1>0, <1>1, <1>2, <1>3, PurgedPaths DEF PathRows
<1>5. \A f \in Entry \ {e} : entry'[f] = entry[f] /\ revision'[f] = revision[f] /\ Writing!Had(f)' = Writing!Had(f)
  BY <1>0, <1>2 DEF PathRows, Writing!Purge, Writing!Had
<1>6. \A f \in Entry, t \in Slug : IsLeft(f, t)' <=> f # e /\ IsLeft(f, t)
  <2> SUFFICES ASSUME NEW f \in Entry, NEW t \in Slug PROVE IsLeft(f, t)' <=> f # e /\ IsLeft(f, t)
    OBVIOUS
  <2> DEFINE h == <<f, t>>
  <2>1. h \in Entry \X Slug /\ h[1] = f
    OBVIOUS
  <2> HIDE DEF h
  <2>2. (\E k \in DOMAIN former' : former'[k] = h) <=> h[1] # e /\ \E i \in DOMAIN former : former[i] = h
    BY <1>0, <1>2, <2>1, PurgedPaths
  <2> QED BY <2>1, <2>2 DEF IsLeft, h
<1>7. PathsKept'
  <2>1. ASSUME NEW f \in Entry, entry'[f].phase \in {"live", "trashed"}
        PROVE  /\ entry'[f].slug \in Writing!Had(f)'
               /\ \A t \in Writing!Had(f)' : t = entry'[f].slug \/ IsLeft(f, t)'
    <3>1. f # e /\ entry[f].phase \in {"live", "trashed"} /\ entry'[f] = entry[f] /\ Writing!Had(f)' = Writing!Had(f)
      BY <1>1, <1>5, <2>1
    <3>2. Writing!Had(f) \subseteq Slug
      BY <1>0, HadAreSlugs
    <3> QED BY <1>0, <1>6, <3>1, <3>2 DEF PathsKept
  <2>2. \A f \in Entry : entry'[f].phase = "none" => revision'[f] = <<>>
    BY <1>0, <1>1, <1>5 DEF PathsKept
  <2>3. \A f \in Entry, t \in Slug : IsLeft(f, t)' => t \in Writing!Had(f)'
    BY <1>0, <1>5, <1>6 DEF PathsKept
  <2>4. \A f, g \in Entry : f # g /\ Writing!Live(f)' /\ Writing!Live(g)' => entry'[f].slug # entry'[g].slug
    BY <1>0, <1>1, <1>5 DEF PathsKept, Writing!Live
  <2> QED BY <2>1, <2>2, <2>3, <2>4 DEF PathsKept
<1> QED BY <1>4, <1>7 DEF PathsInv

LEMMA ArriveKeeps ==
    ASSUME PathsInv, NEW c \in Writing!Change, Writing!Arrive(c) PROVE PathsInv'
<1>1. UNCHANGED <<entry, revision, former>> /\ waiting' \subseteq Writing!Change
  BY DEF PathsInv, PathRows, Writing!Arrive
<1> QED BY <1>1, NothingMoves

LEMMA CommitKeeps == ASSUME Writing!ContentAssumption, PathsInv, NEW c \in waiting, Writing!Commit(c) PROVE PathsInv'
<1>1. c \in Writing!Change /\ PathRows
  BY DEF PathsInv, PathRows
<1>2. c.entry \in Entry /\ entry[c.entry] \in EntryRow
  BY <1>1 DEF PathRows, Writing!Change
<1>3. Writing!NewSlug(c) \in Slug /\ Writing!NewPublication(c) \in Writing!Publication
  BY <1>1, <1>2 DEF Writing!Change, EntryRow, Writing!NewSlug, Writing!NewPublication, Writing!Plain
<1>4. Writing!Live(c.entry) /\ Writing!Free(c.entry, Writing!NewSlug(c)) /\ waiting' \subseteq waiting
      /\ Writing!Save(c.entry, Writing!NewSlug(c), Writing!NewPublication(c))
  BY DEF Writing!Commit
<1> QED BY <1>2, <1>3, <1>4, SaveKeeps

LEMMA PublishKeeps ==
    ASSUME PathsInv, NEW e \in Entry, NEW t \in Writing!Time, Writing!PublishScheduled(e, t) PROVE PathsInv'
<1>1. CASE Writing!Current(e, t)
  <2>1. Writing!Live(e) /\ Writing!Save(e, entry[e].slug, Writing!Plain("published")) /\ waiting' = waiting
    BY <1>1 DEF Writing!Current, Writing!PublishScheduled
  <2>2. entry[e].slug \in Slug /\ Writing!Plain("published") \in Writing!Publication /\ Writing!Free(e, entry[e].slug)
    BY <2>1 DEF PathsInv, PathRows, PathsKept, EntryRow, Writing!Publication, Writing!Free, Writing!Live
  <2> QED BY <2>1, <2>2, SaveKeeps
<1>2. CASE ~Writing!Current(e, t)
  <2>1. UNCHANGED <<entry, revision, former>> /\ waiting' \subseteq Writing!Change
    BY <1>2 DEF Writing!PublishScheduled, PathsInv, PathRows
  <2> QED BY <2>1, NothingMoves
<1> QED BY <1>1, <1>2

LEMMA PathsInvStep == ASSUME Writing!ContentAssumption, PathsInv, [Writing!Next]_(Writing!vars) PROVE PathsInv'
<1> DEFINE Same4 == UNCHANGED <<entry, revision, former>> /\ waiting' \subseteq waiting
<1>0. Same4 => PathsInv'
  BY NothingMoves DEF PathsInv, PathRows
<1>1. ASSUME NEW e \in Entry, NEW s \in Slug, NEW p \in Writing!Publication, Writing!Create(e, s, p) PROVE PathsInv'
  BY <1>1, CreateKeeps
<1>2. ASSUME NEW c \in Writing!Change, Writing!Arrive(c) PROVE PathsInv'
  BY <1>2, ArriveKeeps
<1>3. ASSUME NEW e \in Entry, NEW n \in DOMAIN revision[e], Writing!ArriveRestore(e, n) PROVE PathsInv'
  <2>1. revision[e][n].slug \in Slug
    BY HadAreSlugs DEF PathsInv
  <2>2. [entry |-> e, slug |-> revision[e][n].slug, publication |-> Writing!Plain("draft")] \in Writing!Change
    BY <2>1 DEF Writing!Change, Writing!Publication
  <2> QED BY <1>3, <2>2, ArriveKeeps DEF Writing!ArriveRestore
<1>4. ASSUME NEW c \in waiting, Writing!Commit(c) \/ Writing!Refuse(c) PROVE PathsInv'
  <2>1. CASE Writing!Commit(c)
    BY <2>1, CommitKeeps
  <2>2. CASE Writing!Refuse(c)
    BY <1>0, <2>2 DEF Writing!Refuse
  <2> QED BY <1>4, <2>1, <2>2
<1>5. ASSUME NEW refused \in SUBSET Entry, Writing!DeclareType(refused) PROVE PathsInv'
  BY <1>0, <1>5 DEF Writing!DeclareType
<1>6. ASSUME NEW e \in Entry, NEW t \in Writing!Time, Writing!PublishScheduled(e, t) \/ Writing!Replay(e, t) PROVE PathsInv'
  <2>1. CASE Writing!PublishScheduled(e, t)
    BY <2>1, PublishKeeps
  <2>2. CASE Writing!Replay(e, t)
    BY <1>0, <2>2 DEF Writing!Replay
  <2> QED BY <1>6, <2>1, <2>2
<1>7. ASSUME NEW e \in Entry, Writing!Trash(e) \/ Writing!Restore(e) \/ Writing!Purge(e) PROVE PathsInv'
  <2>1. CASE Writing!Trash(e)
    BY <2>1, PhaseKeeps DEF Writing!Trash, Writing!Live
  <2>2. CASE Writing!Restore(e)
    BY <2>2, PhaseKeeps DEF Writing!Restore
  <2>3. CASE Writing!Purge(e)
    BY <2>3, PurgeKeeps
  <2> QED BY <1>7, <2>1, <2>2, <2>3
<1>8. CASE Writing!Tick
  BY <1>0, <1>8 DEF Writing!Tick
<1>9. CASE UNCHANGED Writing!vars
  BY <1>0, <1>9 DEF Writing!vars
<1> QED BY <1>1, <1>2, <1>3, <1>4, <1>5, <1>6, <1>7, <1>8, <1>9 DEF Writing!Next

(* Every path a public entry ever had leads to one public entry that has   *)
(* had it, whatever was renamed, restored, trashed or purged since.        *)
THEOREM PathsLeadToEntries == SiteSpec => []PathsLead
<1> DEFINE I == Is("content") => PathsInv
<1>0. Writing!ContentAssumption
  BY SiteAssumption
<1>1. SiteInit => I
  BY <1>0, PathsInvInit DEF SiteInit, Is
<1>2. I /\ [SiteNext]_site => I'
  <2> SUFFICES ASSUME I, [SiteNext]_site, Is("content") PROVE PathsInv'
    BY PartStays DEF Is
  <2> QED BY <1>0, ContentMoves, PathsInvStep
<1>3. I => PathsLead
  BY PathsInvHolds DEF PathsLead
<1> HIDE DEF I
<1> QED BY <1>1, <1>2, <1>3, PTL DEF SiteSpec

-----------------------------------------------------------------------------
LEMMA Numbers ==
    ASSUME NEW S
    PROVE  Lists!Cardinality(S) = Cardinality(S) /\ (Lists!IsFiniteSet(S) <=> IsFiniteSet(S))
BY DEF Lists!Cardinality, Cardinality, Lists!IsFiniteSet, IsFiniteSet

KeyRow == [phase : {"none", "begun", "shown", "hidden"}, at : Nat, long : BOOLEAN]

Read(r) == \E i \in DOMAIN walk.seen : walk.seen[i] = r

PageRows ==
    /\ row \in [ListedRow -> KeyRow] /\ time \in Nat
    /\ walk \in [state : {"none", "reading", "ended", "not_found", "refused"}, after : {walk.after},
                 seen : Seq(ListedRow), stayed : SUBSET ListedRow, moved : SUBSET ListedRow]
    /\ walk.state = "reading" => walk.after \in Nat \X Nat
    /\ walk.state = "none" => walk.seen = <<>> /\ walk.after = Lists!NoKey

(* A row with another key is not before it, and keys are in order.         *)
NotBehind(r) == Lists!Key(r) = walk.after \/ Lists!Before(listing, Lists!Key(r), walk.after)

(* What was read is up to the cursor, unless it was moved; what stayed is  *)
(* read or behind the cursor, and at the end it is read.                   *)
WalkKept ==
    /\ \A r \in ListedRow : Read(r) => row[r].phase \in {"shown", "hidden"}
    /\ walk.stayed \subseteq Lists!Shown /\ walk.stayed \cap walk.moved = {}
    /\ walk.state = "reading" =>
          /\ \A r \in ListedRow \ walk.moved : Read(r) => NotBehind(r)
          /\ \A r \in walk.stayed : Read(r) \/ Lists!Before(listing, walk.after, Lists!Key(r))
    /\ walk.state = "ended" => \A r \in walk.stayed : Read(r)
    /\ Lists!NoneTwice /\ Lists!InOrder

WalkInv == PageRows /\ WalkKept

LEMMA KeysAreOrdered ==
    /\ \A l, a : ~Lists!Before(l, a, a) \/ a \notin Nat \X Nat
    /\ \A l, a, b, c : a \in Nat \X Nat /\ b \in Nat \X Nat /\ c \in Nat \X Nat
                          /\ Lists!Before(l, a, b) /\ Lists!Before(l, b, c) => Lists!Before(l, a, c)
    /\ \A l, a, b : a \in Nat \X Nat /\ b \in Nat \X Nat /\ a # b
                       => Lists!Before(l, a, b) \/ Lists!Before(l, b, a)
<1> SUFFICES ASSUME NEW l
             PROVE  /\ \A a \in Nat \X Nat : ~Lists!Before(l, a, a)
                    /\ \A a, b, c \in Nat \X Nat : Lists!Before(l, a, b) /\ Lists!Before(l, b, c) => Lists!Before(l, a, c)
                    /\ \A a, b \in Nat \X Nat : a # b => Lists!Before(l, a, b) \/ Lists!Before(l, b, a)
  OBVIOUS
<1>0. \A a \in Nat \X Nat : a[1] \in Nat /\ a[2] \in Nat /\ a = <<a[1], a[2]>>
  OBVIOUS
<1>1. CASE l.mixed
  <2>1. \A a, b : Lists!Before(l, a, b) <=> a[1] > b[1] \/ (a[1] = b[1] /\ a[2] < b[2])
    BY <1>1 DEF Lists!Before
  <2> QED BY <1>0, <2>1
<1>2. CASE ~l.mixed /\ l.down
  <2>1. \A a, b : Lists!Before(l, a, b) <=> Lists!Less(b, a)
    BY <1>2 DEF Lists!Before
  <2> QED BY <1>0, <2>1 DEF Lists!Less
<1>3. CASE ~l.mixed /\ ~l.down
  <2>1. \A a, b : Lists!Before(l, a, b) <=> Lists!Less(a, b)
    BY <1>3 DEF Lists!Before
  <2> QED BY <1>0, <2>1 DEF Lists!Less
<1> QED BY <1>1, <1>2, <1>3

LEMMA CursorIsKey == \A a \in Nat \X Nat : a # Lists!NoKey
<1> SUFFICES ASSUME NEW a \in Nat \X Nat, a = Lists!NoKey PROVE FALSE
  OBVIOUS
<1>1. DOMAIN a = 1 .. 2 /\ DOMAIN Lists!NoKey = 1 .. 0
  BY DEF Lists!NoKey
<1> QED BY <1>1

LEMMA KeysDiffer ==
    ASSUME Lists!PagingAssumption, PageRows
    PROVE  /\ \A r \in ListedRow : Lists!Key(r) \in Nat \X Nat
           /\ \A r, q \in ListedRow : r # q => Lists!Key(r) # Lists!Key(q)
BY DEF Lists!PagingAssumption, PageRows, KeyRow, Lists!Key

LEMMA WalkInvInit == ASSUME Lists!PagingAssumption, Lists!Init PROVE WalkInv
<1>1. row \in [ListedRow -> KeyRow]
  <2>1. {Lists!Nothing} \cup {[phase |-> "shown", at |-> t, long |-> FALSE] : t \in {0, 1}} \subseteq KeyRow
    <3>1. Lists!Nothing \in KeyRow /\ \A t \in {0, 1} : [phase |-> "shown", at |-> t, long |-> FALSE] \in KeyRow
      BY DEF KeyRow, Lists!Nothing
    <3> QED BY <3>1
  <2> QED BY <2>1 DEF Lists!Init
<1>2. /\ walk \in [state : {"none"}, after : {Lists!NoKey}, seen : {<<>>}, stayed : {{}}, moved : {{}}]
      /\ DOMAIN walk.seen = {}
  BY DEF Lists!Init
<1>3. PageRows
  BY <1>1, <1>2 DEF Lists!Init, PageRows
<1>4. WalkKept
  BY <1>2 DEF WalkKept, Read, Lists!NoneTwice, Lists!InOrder
<1> QED BY <1>3, <1>4 DEF WalkInv

(* A page holds rows behind the cursor in order, all of them if there are  *)
(* no more, and otherwise those up to the key of its last row.             *)
LEMMA PageIsNext ==
    ASSUME Lists!PagingAssumption, PageRows, NEW after
    PROVE  LET f == Lists!Fetched(after)
               q == Lists!Items(f)
           IN  /\ f \in Seq(ListedRow) /\ q \in Seq(ListedRow)
               /\ \A k \in DOMAIN q : q[k] \in Lists!Behind(after)
               /\ \A k, m \in DOMAIN q : k < m => Lists!Before(listing, Lists!Key(q[k]), Lists!Key(q[m]))
               /\ ~Lists!More(f) => \A r \in Lists!Behind(after) : \E k \in DOMAIN q : q[k] = r
               /\ Lists!More(f) =>
                     /\ DOMAIN q # {} /\ Lists!NextCursor(f) \in Nat \X Nat
                     /\ \A k \in DOMAIN q : Lists!Key(q[k]) = Lists!NextCursor(f) \/ Lists!Before(listing, Lists!Key(q[k]), Lists!NextCursor(f))
                     /\ \A r \in Lists!Behind(after) :
                           (\E k \in DOMAIN q : q[k] = r) \/ Lists!Before(listing, Lists!NextCursor(f), Lists!Key(r))
<1> DEFINE S == Lists!Behind(after)
           all == Cardinality(S)
           n == IF all > Limit THEN Limit + 1 ELSE all
           R == {p \in S \X S : Lists!Before(listing, Lists!Key(p[1]), Lists!Key(p[2]))}
           rank == [r \in S |-> Cardinality({x \in S : <<x, r>> \in R})]
           f == Lists!Fetched(after)
           q == Lists!Items(f)
           chosen(k) == CHOOSE r \in S : Lists!Rank(after, r) = k - 1
<1>1. /\ S \subseteq ListedRow /\ IsFiniteSet(S) /\ Limit \in Nat \ {0}
      /\ \A r \in S : Lists!Key(r) \in Nat \X Nat
      /\ \A r, x \in S : r # x => Lists!Key(r) # Lists!Key(x)
  <2>1. S \subseteq ListedRow /\ IsFiniteSet(ListedRow) /\ Limit \in Nat \ {0}
    BY Numbers DEF Lists!PagingAssumption, Lists!Behind, Lists!Shown
  <2>2. IsFiniteSet(S)
    BY <2>1, FS_Subset
  <2> QED BY <2>1, <2>2, KeysDiffer
<1>2. \A r \in S : rank[r] = Lists!Rank(after, r)
  <2> SUFFICES ASSUME NEW r \in S PROVE rank[r] = Lists!Rank(after, r)
    OBVIOUS
  <2>1. {x \in S : <<x, r>> \in R} = {x \in S : Lists!Before(listing, Lists!Key(x), Lists!Key(r))}
    OBVIOUS
  <2>2. rank[r] = Cardinality({x \in S : Lists!Before(listing, Lists!Key(x), Lists!Key(r))})
    BY <2>1
  <2> QED BY <2>2, Numbers DEF Lists!Rank
<1>3. OrdersStrictly(R, S) /\ Ranks(rank, R, S)
  BY <1>1, KeysAreOrdered DEF OrdersStrictly, Ranks
<1>4. \A r, x \in S : <<r, x>> \in R <=> Lists!Before(listing, Lists!Key(r), Lists!Key(x))
  OBVIOUS
<1> HIDE DEF S, R, rank
<1>5. /\ all \in Nat
      /\ \A r \in S : rank[r] \in Nat /\ rank[r] < all
      /\ \A r, x \in S : <<r, x>> \in R <=> rank[r] < rank[x]
      /\ \A r, x \in S : rank[r] = rank[x] => r = x
      /\ \A k \in 1 .. all : \E r \in S : rank[r] = k - 1
  BY <1>1, <1>3, Ranking
<1>6. f = [k \in 1 .. n |-> chosen(k)]
  BY Numbers DEF Lists!Fetched, S
<1> HIDE DEF all
<1>7. n \in Nat /\ (n > Limit <=> all > Limit) /\ (n <= Limit => n = all) /\ n <= all
  BY <1>1, <1>5
<1> HIDE DEF n
<1>8. \A k \in 1 .. n : chosen(k) \in S /\ rank[chosen(k)] = k - 1
  BY <1>2, <1>5, <1>7
<1> HIDE DEF f, chosen
<1>9. f \in Seq(ListedRow) /\ Len(f) = n /\ \A k \in 1 .. n : f[k] \in S /\ rank[f[k]] = k - 1
  <2>1. f \in [1 .. n -> ListedRow]
    BY <1>1, <1>6, <1>8
  <2> QED BY <1>6, <1>7, <1>8, <2>1
<1> DEFINE m == IF n > Limit THEN Limit ELSE n
<1>10. m \in Nat /\ m <= n /\ (n > Limit => m = Limit /\ Limit \in 1 .. m) /\ (n <= Limit => m = all)
  BY <1>1, <1>7
<1>11. q = SubSeq(f, 1, m)
  BY <1>9 DEF Lists!Items
<1> HIDE DEF m, q
<1>12. q \in Seq(ListedRow) /\ DOMAIN q = 1 .. m /\ \A k \in 1 .. m : q[k] = f[k]
  <2>1. /\ SubSeq(f, 1, m) \in Seq(ListedRow)
        /\ Len(SubSeq(f, 1, m)) = m
        /\ \A k \in 1 .. m : SubSeq(f, 1, m)[k] = f[k]
    BY <1>9, <1>10
  <2> QED BY <1>10, <1>11, <2>1
<1>13. \A k \in DOMAIN q : q[k] \in S /\ rank[q[k]] = k - 1 /\ k \in Int
  BY <1>9, <1>10, <1>12
<1>14. ASSUME NEW k \in DOMAIN q, NEW x \in DOMAIN q, k < x PROVE Lists!Before(listing, Lists!Key(q[k]), Lists!Key(q[x]))
  <2>1. rank[q[k]] < rank[q[x]]
    BY <1>13, <1>14
  <2> QED BY <1>4, <1>5, <1>13, <2>1
<1>15. ASSUME NEW r \in S, rank[r] < m PROVE \E k \in DOMAIN q : q[k] = r
  <2>1. rank[r] + 1 \in DOMAIN q /\ rank[r] \in Nat
    BY <1>5, <1>10, <1>12, <1>15
  <2>2. rank[q[rank[r] + 1]] = rank[r]
    BY <1>13, <2>1
  <2> QED BY <1>5, <1>13, <2>1, <2>2
<1>16. ASSUME ~Lists!More(f), NEW r \in S PROVE \E k \in DOMAIN q : q[k] = r
  <2>1. m = all
    BY <1>1, <1>7, <1>9, <1>10, <1>16 DEF Lists!More
  <2> QED BY <1>5, <1>15, <2>1
<1>17. ASSUME Lists!More(f)
       PROVE  /\ DOMAIN q # {} /\ Lists!NextCursor(f) \in Nat \X Nat
              /\ \A k \in DOMAIN q : Lists!Key(q[k]) = Lists!NextCursor(f) \/ Lists!Before(listing, Lists!Key(q[k]), Lists!NextCursor(f))
              /\ \A r \in S : (\E k \in DOMAIN q : q[k] = r) \/ Lists!Before(listing, Lists!NextCursor(f), Lists!Key(r))
  <2>1. m = Limit /\ Limit \in DOMAIN q /\ f[Limit] = q[Limit] /\ q[Limit] \in S /\ rank[q[Limit]] = m - 1
    BY <1>7, <1>9, <1>10, <1>12, <1>13, <1>17 DEF Lists!More
  <2>2. Lists!NextCursor(f) = Lists!Key(q[Limit]) /\ Lists!NextCursor(f) \in Nat \X Nat
    BY <1>1, <2>1 DEF Lists!NextCursor
  <2>3. ASSUME NEW k \in DOMAIN q PROVE Lists!Key(q[k]) = Lists!NextCursor(f) \/ Lists!Before(listing, Lists!Key(q[k]), Lists!NextCursor(f))
    <3>1. k = Limit \/ k < Limit
      BY <1>1, <1>10, <1>12, <2>1
    <3> QED BY <1>14, <2>1, <2>2, <3>1
  <2>4. ASSUME NEW r \in S PROVE (\E k \in DOMAIN q : q[k] = r) \/ Lists!Before(listing, Lists!NextCursor(f), Lists!Key(r))
    <3>1. CASE rank[r] < m
      BY <1>15, <3>1
    <3>2. CASE ~(rank[r] < m)
      <4>1. rank[q[Limit]] < rank[r]
        BY <1>5, <1>10, <2>1, <3>2
      <4> QED BY <1>4, <1>5, <2>1, <2>2, <4>1
    <3> QED BY <3>1, <3>2
  <2> QED BY <2>1, <2>2, <2>3, <2>4
<1> QED BY <1>9, <1>12, <1>13, <1>14, <1>16, <1>17 DEF f, q, S

(* Rows come and go between pages, those of S from what stayed: a row      *)
(* keeps its key unless it is moved, and so leaves what stayed.            *)
Drifts(S) ==
    /\ listing' = listing /\ row' \in [ListedRow -> KeyRow] /\ time' \in Nat
    /\ walk' = [walk EXCEPT !.stayed = @ \ S, !.moved = walk'.moved]
    /\ walk.moved \subseteq walk'.moved /\ walk'.moved \subseteq ListedRow
    /\ walk'.moved \subseteq walk.moved \cup S
    /\ \A r \in ListedRow \ S : row[r].phase = "shown" => row'[r].phase = "shown"
    /\ \A r \in ListedRow : row[r].phase \in {"shown", "hidden"} => row'[r].phase \in {"shown", "hidden"}
    /\ \A r \in ListedRow \ walk'.moved : row[r].phase \in {"shown", "hidden"} => row'[r].at = row[r].at

LEMMA RowsMove ==
    ASSUME Lists!PagingAssumption, WalkInv, NEW S \in SUBSET ListedRow, Drifts(S) PROVE WalkInv'
<1>0. PageRows /\ WalkKept
  BY DEF WalkInv
<1>1. /\ walk' \in [state : {walk.state}, after : {walk.after}, seen : {walk.seen},
                    stayed : {walk.stayed \ S}, moved : {walk'.moved}]
      /\ walk.seen \in Seq(ListedRow) /\ walk.stayed \in SUBSET ListedRow
      /\ walk \in [state : {"none", "reading", "ended", "not_found", "refused"}, after : {walk.after},
                   seen : Seq(ListedRow), stayed : SUBSET ListedRow, moved : SUBSET ListedRow]
  BY <1>0 DEF PageRows, Drifts
<1>2. PageRows'
  BY <1>0, <1>1 DEF PageRows, Drifts
<1>3. \A r : Read(r)' <=> Read(r)
  BY <1>1 DEF Read
<1>4. \A r \in ListedRow \ walk'.moved : row[r].phase \in {"shown", "hidden"} => Lists!Key(r)' = Lists!Key(r)
  BY DEF Lists!Key, Drifts
<1>5. \A r \in walk.stayed : row[r].phase = "shown" /\ r \in ListedRow
  BY <1>0 DEF WalkKept, Lists!Shown
<1>6. \A r \in walk'.stayed : r \in walk.stayed /\ r \in ListedRow \ walk'.moved /\ r \notin S
  BY <1>0, <1>1, <1>5 DEF WalkKept, Drifts
<1>7. WalkKept'
  <2>1. \A r \in ListedRow : Read(r)' => row'[r].phase \in {"shown", "hidden"}
    BY <1>0, <1>3 DEF WalkKept, Drifts
  <2>2. walk'.stayed \subseteq Lists!Shown' /\ walk'.stayed \cap walk'.moved = {}
    BY <1>5, <1>6 DEF Lists!Shown, Drifts
  <2>3. ASSUME walk'.state = "reading"
        PROVE  /\ \A r \in ListedRow \ walk'.moved : Read(r)' => NotBehind(r)'
               /\ \A r \in walk'.stayed : Read(r)' \/ Lists!Before(listing', walk'.after, Lists!Key(r)')
    <3>1. walk.state = "reading" /\ walk'.after = walk.after
      BY <1>1, <2>3
    <3>2. ASSUME NEW r \in ListedRow \ walk'.moved, Read(r)' PROVE NotBehind(r)'
      <4>1. Read(r) /\ r \in ListedRow \ walk.moved /\ NotBehind(r) /\ Lists!Key(r)' = Lists!Key(r)
        BY <1>0, <1>3, <1>4, <3>1, <3>2 DEF WalkKept, Drifts
      <4> QED BY <3>1, <4>1 DEF NotBehind, Drifts
    <3>3. ASSUME NEW r \in walk'.stayed PROVE Read(r)' \/ Lists!Before(listing', walk'.after, Lists!Key(r)')
      BY <1>0, <1>3, <1>4, <1>5, <1>6, <3>1 DEF WalkKept, Drifts
    <3> QED BY <3>2, <3>3
  <2>4. walk'.state = "ended" => \A r \in walk'.stayed : Read(r)'
    BY <1>0, <1>1, <1>3, <1>6 DEF WalkKept
  <2>5. Lists!NoneTwice'
    BY <1>0, <1>1 DEF WalkKept, Lists!NoneTwice, Drifts
  <2>6. Lists!InOrder'
    <3> SUFFICES ASSUME NEW i \in DOMAIN walk.seen, NEW j \in DOMAIN walk.seen,
                        i < j, {walk.seen[i], walk.seen[j]} \cap walk'.moved = {}
                 PROVE  Lists!Before(listing', Lists!Key(walk.seen[i])', Lists!Key(walk.seen[j])')
      BY <1>1 DEF Lists!InOrder
    <3>1. /\ walk.seen[i] \in ListedRow \ walk'.moved /\ walk.seen[j] \in ListedRow \ walk'.moved
          /\ Read(walk.seen[i]) /\ Read(walk.seen[j])
      BY <1>1 DEF Read, Drifts
    <3>2. Lists!Before(listing, Lists!Key(walk.seen[i]), Lists!Key(walk.seen[j]))
      BY <1>0, <3>1 DEF WalkKept, Lists!InOrder, Drifts
    <3>3. ASSUME NEW r \in ListedRow \ walk'.moved, Read(r) PROVE Lists!Key(r)' = Lists!Key(r)
      BY <1>0, <1>4, <3>3 DEF WalkKept, Drifts
    <3>4. Lists!Key(walk.seen[i])' = Lists!Key(walk.seen[i]) /\ Lists!Key(walk.seen[j])' = Lists!Key(walk.seen[j])
      BY <1>1, <3>1, <3>3 DEF Lists!Key
    <3> QED BY <3>2, <3>4 DEF Drifts
  <2> QED BY <2>1, <2>2, <2>3, <2>4, <2>5, <2>6 DEF WalkKept, NotBehind
<1> QED BY <1>2, <1>7 DEF WalkInv

(* A page is read.                                                         *)
LEMMA PageReads == ASSUME Lists!PagingAssumption, WalkInv, Lists!Page PROVE WalkInv'
<1> DEFINE after == walk.after
           f == Lists!Fetched(after)
           q == Lists!Items(f)
           seen == walk.seen
           stayed == IF walk.state = "none" THEN Lists!Shown ELSE walk.stayed
           moved == IF walk.state = "none" THEN {} ELSE walk.moved
<1>0. PageRows /\ WalkKept /\ seen \in Seq(ListedRow) /\ walk.stayed \subseteq ListedRow /\ walk.moved \subseteq ListedRow
  BY DEF WalkInv, PageRows
<1>1. UNCHANGED <<listing, row, time>> /\ walk.state \in {"none", "reading"}
  BY DEF Lists!Page
<1>2. \A r : Lists!Key(r)' = Lists!Key(r)
  BY <1>1 DEF Lists!Key
<1>3. ASSUME NEW state \in {"not_found", "refused"}, walk' = [walk EXCEPT !.state = state] PROVE WalkInv'
  <2>1. walk' \in [state : {"not_found", "refused"}, after : {after}, seen : {seen},
                    stayed : {walk.stayed}, moved : {walk.moved}]
    BY <1>0, <1>3 DEF PageRows
  <2>2. PageRows'
    BY <1>0, <1>1, <2>1 DEF PageRows
  <2>3. WalkKept'
    <3>1. \A r : Read(r)' <=> Read(r)
      BY <2>1 DEF Read
    <3>2. Lists!NoneTwice' /\ Lists!InOrder'
      BY <1>0, <1>1, <2>1 DEF WalkKept, Lists!NoneTwice, Lists!InOrder, Lists!Key
    <3> QED BY <1>0, <1>1, <2>1, <3>1, <3>2 DEF WalkKept, Lists!Shown
  <2> QED BY <2>2, <2>3 DEF WalkInv
<1>4. CASE walk' = [state  |-> IF Lists!More(f) THEN "reading" ELSE "ended",
                    after  |-> IF Lists!More(f) THEN Lists!NextCursor(f) ELSE Lists!NoKey,
                    seen   |-> seen \o q, stayed |-> stayed, moved |-> moved]
  <2>1. /\ f \in Seq(ListedRow) /\ q \in Seq(ListedRow)
        /\ \A k \in DOMAIN q : q[k] \in Lists!Behind(after)
        /\ \A k, m \in DOMAIN q : k < m => Lists!Before(listing, Lists!Key(q[k]), Lists!Key(q[m]))
        /\ ~Lists!More(f) => \A r \in Lists!Behind(after) : \E k \in DOMAIN q : q[k] = r
        /\ Lists!More(f) =>
              /\ DOMAIN q # {} /\ Lists!NextCursor(f) \in Nat \X Nat
              /\ \A k \in DOMAIN q : Lists!Key(q[k]) = Lists!NextCursor(f) \/ Lists!Before(listing, Lists!Key(q[k]), Lists!NextCursor(f))
              /\ \A r \in Lists!Behind(after) :
                    (\E k \in DOMAIN q : q[k] = r) \/ Lists!Before(listing, Lists!NextCursor(f), Lists!Key(r))
    BY <1>0, PageIsNext
  <2> HIDE DEF f, q
  <2>2. /\ walk'.state = (IF Lists!More(f) THEN "reading" ELSE "ended") /\ walk'.after = (IF Lists!More(f) THEN Lists!NextCursor(f) ELSE Lists!NoKey)
        /\ walk'.seen = seen \o q /\ walk'.stayed = stayed /\ walk'.moved = moved
    BY <1>4
  <2>3. /\ seen \o q \in Seq(ListedRow) /\ Len(seen) \in Nat /\ Len(q) \in Nat
        /\ DOMAIN seen = 1 .. Len(seen) /\ DOMAIN q = 1 .. Len(q)
        /\ DOMAIN (seen \o q) = 1 .. Len(seen) + Len(q)
        /\ \A i \in 1 .. Len(seen) : (seen \o q)[i] = seen[i]
        /\ \A i \in 1 .. Len(q) : (seen \o q)[Len(seen) + i] = q[i]
    BY <1>0, <2>1
  <2>4. stayed \subseteq Lists!Shown /\ Lists!Shown \subseteq ListedRow /\ moved \subseteq ListedRow /\ stayed \cap moved = {}
    BY <1>0 DEF WalkKept, Lists!Shown
  <2>5. PageRows'
    <3>1. walk' \in [state : {"reading", "ended"}, after : {walk'.after}, seen : Seq(ListedRow),
                     stayed : SUBSET ListedRow, moved : SUBSET ListedRow]
      BY <1>4, <2>3, <2>4
    <3>2. walk'.state = "reading" => walk'.after \in Nat \X Nat
      BY <2>1, <2>2
    <3> QED BY <1>0, <1>1, <3>1, <3>2 DEF PageRows
  <2>6. Lists!Behind(after) \subseteq Lists!Shown
    BY DEF Lists!Behind
  <2>7. \A r : Read(r)' <=> Read(r) \/ \E k \in DOMAIN q : q[k] = r
    <3> SUFFICES ASSUME NEW r PROVE Read(r)' <=> Read(r) \/ \E k \in DOMAIN q : q[k] = r
      OBVIOUS
    <3>1. ASSUME NEW i \in DOMAIN (seen \o q), (seen \o q)[i] = r
          PROVE  Read(r) \/ \E k \in DOMAIN q : q[k] = r
      <4>1. CASE i \in 1 .. Len(seen)
        BY <2>3, <3>1, <4>1 DEF Read
      <4>2. CASE i - Len(seen) \in 1 .. Len(q)
        BY <2>3, <3>1, <4>2
      <4> QED BY <2>3, <4>1, <4>2
    <3>2. ASSUME NEW i \in DOMAIN seen, seen[i] = r PROVE \E k \in DOMAIN (seen \o q) : (seen \o q)[k] = r
      BY <2>3, <3>2
    <3>3. ASSUME NEW i \in DOMAIN q, q[i] = r PROVE \E k \in DOMAIN (seen \o q) : (seen \o q)[k] = r
      <4>1. Len(seen) + i \in DOMAIN (seen \o q) /\ (seen \o q)[Len(seen) + i] = r
        BY <2>3, <3>3
      <4> QED BY <4>1
    <3> QED BY <2>2, <3>1, <3>2, <3>3 DEF Read
  \* A row that was read and not moved is not behind the cursor.
  <2>8. \A r \in ListedRow \ moved : Read(r) => r \notin Lists!Behind(after)
    <3> SUFFICES ASSUME NEW r \in ListedRow \ moved, Read(r), r \in Lists!Behind(after) PROVE FALSE
      OBVIOUS
    <3>1. walk.state = "reading" /\ r \in ListedRow \ walk.moved /\ NotBehind(r)
      BY <1>0, <1>1 DEF PageRows, WalkKept, Read
    <3>2. after \in Nat \X Nat /\ Lists!Key(r) \in Nat \X Nat /\ Lists!Before(listing, after, Lists!Key(r))
      BY <1>0, <3>1, KeysDiffer, CursorIsKey DEF PageRows, Lists!Behind
    <3>3. ~Lists!Before(listing, after, after) /\ (Lists!Before(listing, Lists!Key(r), after) => Lists!Before(listing, after, after))
      BY <3>2, KeysAreOrdered
    <3> QED BY <3>1, <3>2, <3>3 DEF NotBehind
  \* What stayed is read or behind it.
  <2>9. \A r \in stayed : Read(r) \/ r \in Lists!Behind(after)
    <3>1. CASE walk.state = "none"
      BY <1>0, <3>1 DEF PageRows, Lists!Behind
    <3>2. CASE walk.state = "reading"
      BY <1>0, <2>4, <3>2 DEF WalkKept, Lists!Behind
    <3> QED BY <1>1, <3>1, <3>2
  <2>10. WalkKept'
    <3>1. \A r \in ListedRow : Read(r)' => row'[r].phase \in {"shown", "hidden"}
      BY <1>0, <1>1, <2>1, <2>6, <2>7 DEF WalkKept, Lists!Shown
    <3>2. walk'.stayed \subseteq Lists!Shown' /\ walk'.stayed \cap walk'.moved = {}
      BY <1>1, <2>2, <2>4 DEF Lists!Shown
    <3>3. ASSUME walk'.state = "reading"
          PROVE  /\ \A r \in ListedRow \ walk'.moved : Read(r)' => NotBehind(r)'
                 /\ \A r \in walk'.stayed : Read(r)' \/ Lists!Before(listing', walk'.after, Lists!Key(r)')
      <4>1. Lists!More(f) /\ walk'.after = Lists!NextCursor(f) /\ Lists!NextCursor(f) \in Nat \X Nat
        BY <2>1, <2>2, <3>3
      <4>2. ASSUME NEW r \in ListedRow \ moved, Read(r)'
            PROVE  Lists!Key(r) = Lists!NextCursor(f) \/ Lists!Before(listing, Lists!Key(r), Lists!NextCursor(f))
        <5>1. CASE \E k \in DOMAIN q : q[k] = r
          BY <2>1, <4>1, <5>1
        <5>2. CASE Read(r)
          <6>1. walk.state = "reading" /\ r \in ListedRow \ walk.moved /\ NotBehind(r) /\ after \in Nat \X Nat
            BY <1>0, <1>1, <4>2, <5>2 DEF PageRows, WalkKept, Read
          <6>2. \E k \in DOMAIN q : q[k] \in ListedRow /\ Lists!Before(listing, after, Lists!Key(q[k]))
                                      /\ (Lists!Key(q[k]) = Lists!NextCursor(f) \/ Lists!Before(listing, Lists!Key(q[k]), Lists!NextCursor(f)))
            <7>1. \E k : k \in DOMAIN q
              BY <2>1, <4>1
            <7>2. PICK k \in DOMAIN q : TRUE
              BY <7>1
            <7> QED BY <2>1, <2>6, <2>4, <4>1, <6>1, <7>2, CursorIsKey DEF Lists!Behind
          <6>3. PICK k \in DOMAIN q : q[k] \in ListedRow /\ Lists!Before(listing, after, Lists!Key(q[k]))
                                      /\ (Lists!Key(q[k]) = Lists!NextCursor(f) \/ Lists!Before(listing, Lists!Key(q[k]), Lists!NextCursor(f)))
            BY <6>2
          <6>4. Lists!Key(q[k]) \in Nat \X Nat /\ Lists!Key(r) \in Nat \X Nat
            BY <1>0, <6>3, KeysDiffer
          <6>5. Lists!Before(listing, after, Lists!NextCursor(f))
            BY <4>1, <6>1, <6>3, <6>4, KeysAreOrdered
          <6> QED BY <4>1, <6>1, <6>4, <6>5, KeysAreOrdered DEF NotBehind
        <5> QED BY <2>7, <4>2, <5>1, <5>2
      <4>3. ASSUME NEW r \in stayed PROVE Read(r)' \/ Lists!Before(listing, Lists!NextCursor(f), Lists!Key(r))
        BY <2>1, <2>7, <2>9, <4>1
      <4> QED BY <1>1, <1>2, <2>2, <4>1, <4>2, <4>3 DEF NotBehind
    <3>4. walk'.state = "ended" => \A r \in walk'.stayed : Read(r)'
      BY <2>1, <2>2, <2>7, <2>9
    <3>5. \A k, m \in DOMAIN q : q[k] = q[m] => k = m
      <4> SUFFICES ASSUME NEW k \in DOMAIN q, NEW m \in DOMAIN q, k < m, q[k] = q[m] PROVE FALSE
        BY <2>3
      <4>1. Lists!Before(listing, Lists!Key(q[k]), Lists!Key(q[k])) /\ q[k] \in ListedRow
        BY <2>1, <2>4, <2>6
      <4> QED BY <1>0, <4>1, KeysDiffer, KeysAreOrdered
    <3>6. Lists!NoneTwice'
      <4> SUFFICES ASSUME NEW i \in DOMAIN (seen \o q), NEW j \in DOMAIN (seen \o q), i < j,
                          (seen \o q)[i] = (seen \o q)[j], (seen \o q)[i] \notin moved
                   PROVE  FALSE
        <5>1. DOMAIN (seen \o q) \subseteq Int
          BY <2>3
        <5>2. SUFFICES ASSUME NEW i \in DOMAIN (seen \o q), NEW j \in DOMAIN (seen \o q),
                              (seen \o q)[i] = (seen \o q)[j]
                       PROVE  i = j \/ (seen \o q)[i] \in moved
          BY <2>2 DEF Lists!NoneTwice
        <5>3. i < j \/ j < i \/ i = j
          BY <5>1
        <5> QED BY <5>2, <5>3
      <4>1. CASE j \in 1 .. Len(seen)
        <5>1. i \in DOMAIN seen /\ j \in DOMAIN seen /\ seen[i] = seen[j] /\ i # j
          BY <2>3, <4>1
        <5>2. walk.state = "reading" /\ seen[i] \notin walk.moved
          BY <1>0, <1>1, <2>3, <5>1 DEF PageRows
        <5> QED BY <1>0, <5>1, <5>2 DEF WalkKept, Lists!NoneTwice
      <4>2. CASE i \in 1 .. Len(seen) /\ j - Len(seen) \in 1 .. Len(q)
        <5>1. /\ (seen \o q)[i] = seen[i] /\ (seen \o q)[j] = q[j - Len(seen)]
              /\ i \in DOMAIN seen /\ j - Len(seen) \in DOMAIN q /\ seen[i] \in ListedRow
          BY <1>0, <2>3, <4>2
        <5>2. Read(seen[i]) /\ seen[i] \in ListedRow \ moved /\ seen[i] \in Lists!Behind(after)
          BY <2>1, <5>1 DEF Read
        <5> QED BY <2>8, <5>2
      <4>3. CASE i - Len(seen) \in 1 .. Len(q) /\ j - Len(seen) \in 1 .. Len(q)
        BY <2>3, <3>5, <4>3
      <4> QED BY <2>3, <4>1, <4>2, <4>3
    <3>7. Lists!InOrder'
      <4> SUFFICES ASSUME NEW i \in DOMAIN (seen \o q), NEW j \in DOMAIN (seen \o q), i < j,
                          (seen \o q)[i] \notin moved, (seen \o q)[j] \notin moved
                   PROVE  Lists!Before(listing, Lists!Key((seen \o q)[i]), Lists!Key((seen \o q)[j]))
        BY <1>1, <2>2 DEF Lists!InOrder, Lists!Key
      <4>1. CASE j \in 1 .. Len(seen)
        <5>1. /\ i \in DOMAIN seen /\ j \in DOMAIN seen
              /\ (seen \o q)[i] = seen[i] /\ (seen \o q)[j] = seen[j]
          BY <2>3, <4>1
        <5>2. walk.state = "reading" /\ {seen[i], seen[j]} \cap walk.moved = {}
          BY <1>0, <1>1, <2>3, <5>1 DEF PageRows
        <5> QED BY <1>0, <5>1, <5>2 DEF WalkKept, Lists!InOrder
      <4>2. CASE i \in 1 .. Len(seen) /\ j - Len(seen) \in 1 .. Len(q)
        <5>1. /\ (seen \o q)[i] = seen[i] /\ (seen \o q)[j] = q[j - Len(seen)]
              /\ i \in DOMAIN seen /\ j - Len(seen) \in DOMAIN q /\ seen[i] \in ListedRow
          BY <1>0, <2>3, <4>2
        <5> DEFINE r == seen[i]
                   x == q[j - Len(seen)]
        <5>2. walk.state = "reading" /\ r \in ListedRow \ walk.moved /\ NotBehind(r) /\ after \in Nat \X Nat
          BY <1>0, <1>1, <2>3, <5>1 DEF PageRows, WalkKept, Read
        <5>3. x \in ListedRow /\ Lists!Before(listing, after, Lists!Key(x))
          BY <2>1, <2>4, <2>6, <5>1, <5>2, CursorIsKey DEF Lists!Behind
        <5>4. Lists!Key(r) \in Nat \X Nat /\ Lists!Key(x) \in Nat \X Nat
          BY <1>0, <5>1, <5>3, KeysDiffer
        <5> HIDE DEF r, x
        <5>5. Lists!Before(listing, Lists!Key(r), Lists!Key(x))
          BY <5>2, <5>3, <5>4, KeysAreOrdered DEF NotBehind
        <5> QED BY <5>1, <5>5 DEF r, x
      <4>3. CASE i - Len(seen) \in 1 .. Len(q) /\ j - Len(seen) \in 1 .. Len(q)
        <5>1. (seen \o q)[i] = q[i - Len(seen)] /\ (seen \o q)[j] = q[j - Len(seen)] /\ i - Len(seen) < j - Len(seen)
          BY <2>3, <4>3
        <5> QED BY <2>1, <2>3, <4>3, <5>1
      <4> QED BY <2>3, <4>1, <4>2, <4>3
    <3> QED BY <3>1, <3>2, <3>3, <3>4, <3>6, <3>7 DEF WalkKept
  <2> QED BY <2>5, <2>10 DEF WalkInv
<1>5. \/ walk' = [walk EXCEPT !.state = "not_found"] \/ walk' = [walk EXCEPT !.state = "refused"]
      \/ walk' = [state  |-> IF Lists!More(f) THEN "reading" ELSE "ended",
                  after  |-> IF Lists!More(f) THEN Lists!NextCursor(f) ELSE Lists!NoKey,
                  seen   |-> seen \o q, stayed |-> stayed, moved |-> moved]
  BY DEF Lists!Page
<1> QED BY <1>3, <1>4, <1>5

LEMMA Clock == ASSUME Lists!PagingAssumption PROVE 0 .. LastPlace \subseteq Nat
BY DEF Lists!PagingAssumption

LEMMA WalkInvStep == ASSUME Lists!PagingAssumption, WalkInv, [Lists!Next]_(Lists!vars) PROVE WalkInv'
<1>0. /\ row \in [ListedRow -> KeyRow] /\ time \in Nat /\ walk.moved \subseteq ListedRow
      /\ walk \in [state : {walk.state}, after : {walk.after}, seen : {walk.seen},
                   stayed : {walk.stayed}, moved : {walk.moved}]
  BY DEF WalkInv, PageRows
<1>1. ASSUME UNCHANGED <<listing, walk>>, row' \in [ListedRow -> KeyRow], time' \in Nat,
             \A r \in ListedRow : row[r].phase = "shown" => row'[r].phase = "shown",
             \A r \in ListedRow : row[r].phase \in {"shown", "hidden"} =>
                               row'[r].phase \in {"shown", "hidden"} /\ row'[r].at = row[r].at
      PROVE  WalkInv'
  <2>1. walk' = [walk EXCEPT !.stayed = @ \ {}, !.moved = walk'.moved]
    BY <1>0, <1>1
  <2>2. Drifts({})
    BY <1>0, <1>1, <2>1 DEF Drifts
  <2> QED BY <2>2, RowsMove
<1>2. ASSUME NEW r \in ListedRow, Lists!Begin(r) PROVE WalkInv'
  <2>1. PICK at \in Nat, long \in BOOLEAN : row' = [row EXCEPT ![r] = [phase |-> "begun", at |-> at, long |-> long]]
    <3>1. PICK at \in IF listing.key \in {"stamped", "touched"} THEN {time} ELSE 0 .. LastPlace,
               long \in IF listing.text THEN BOOLEAN ELSE {FALSE} :
                  row' = [row EXCEPT ![r] = [phase |-> "begun", at |-> at, long |-> long]]
      BY <1>2 DEF Lists!Begin
    <3>2. at \in Nat /\ long \in BOOLEAN
      <4>1. at \in {time} \/ at \in 0 .. LastPlace
        BY <3>1
      <4>2. long \in BOOLEAN
        BY <3>1
      <4> QED BY <1>0, <4>1, <4>2, Clock
    <3> QED BY <3>1, <3>2
  <2>2. row[r].phase = "none" /\ UNCHANGED <<listing, time, walk>>
    BY <1>2 DEF Lists!Begin, Lists!Nothing
  <2>3. row' \in [ListedRow -> KeyRow] /\ \A x \in ListedRow \ {r} : row'[x] = row[x]
    BY <1>0, <2>1 DEF KeyRow
  <2> QED BY <1>0, <1>1, <2>2, <2>3
<1>3. ASSUME NEW r \in ListedRow, NEW phase \in {"shown", "hidden"}, row' = [row EXCEPT ![r].phase = phase]
      PROVE  /\ row' \in [ListedRow -> KeyRow] /\ \A x \in ListedRow \ {r} : row'[x] = row[x]
             /\ row'[r].phase = phase /\ row'[r].at = row[r].at
  BY <1>0, <1>3 DEF KeyRow
<1>4. ASSUME NEW r \in ListedRow, Lists!Commit(r) \/ Lists!Return(r) PROVE WalkInv'
  <2>1. row' = [row EXCEPT ![r].phase = "shown"] /\ row[r].phase \in {"begun", "hidden"}
        /\ UNCHANGED <<listing, time, walk>>
    BY <1>4 DEF Lists!Commit, Lists!Return
  <2> QED BY <1>0, <1>1, <1>3, <2>1
<1>5. ASSUME NEW r \in ListedRow, Lists!Change(r) PROVE WalkInv'
  <2>1. PICK at \in Nat : row' = [row EXCEPT ![r].at = at]
    <3>1. PICK at \in CASE listing.key = "placed"  -> 0 .. LastPlace
                        [] listing.key = "touched" -> {time}
                        [] OTHER                   -> {} : row' = [row EXCEPT ![r].at = at]
      BY <1>5 DEF Lists!Change
    <3>2. at \in 0 .. LastPlace \/ at = time
      BY <3>1
    <3>3. at \in Nat
      BY <1>0, <3>2, Clock
    <3> QED BY <3>1, <3>3
  <2>2. /\ walk' = [walk EXCEPT !.stayed = @ \ {r}, !.moved = @ \cup {r}]
        /\ UNCHANGED <<listing, time>>
    BY <1>5 DEF Lists!Change
  <2>3. /\ row' \in [ListedRow -> KeyRow] /\ \A x \in ListedRow \ {r} : row'[x] = row[x]
        /\ row'[r].phase = row[r].phase
    BY <1>0, <2>1 DEF KeyRow
  <2>4. walk'.moved = walk.moved \cup {r}
    BY <1>0, <2>2
  <2>5. walk' = [walk EXCEPT !.stayed = @ \ {r}, !.moved = walk'.moved]
    BY <2>2, <2>4
  <2>6. Drifts({r})
    BY <1>0, <2>2, <2>3, <2>4, <2>5 DEF Drifts
  <2> QED BY <2>6, RowsMove
<1>6. ASSUME NEW r \in ListedRow, Lists!Leave(r) PROVE WalkInv'
  <2>1. /\ row' = [row EXCEPT ![r].phase = "hidden"] /\ row[r].phase = "shown"
        /\ walk' = [walk EXCEPT !.stayed = @ \ {r}] /\ UNCHANGED <<listing, time>>
    BY <1>6 DEF Lists!Leave
  <2>2. walk'.moved = walk.moved /\ walk' = [walk EXCEPT !.stayed = @ \ {r}, !.moved = walk'.moved]
    BY <1>0, <2>1
  <2>3. /\ row' \in [ListedRow -> KeyRow] /\ \A x \in ListedRow \ {r} : row'[x] = row[x]
        /\ row'[r].phase = "hidden" /\ row'[r].at = row[r].at
    BY <1>3, <2>1
  <2>4. Drifts({r})
    BY <1>0, <2>1, <2>2, <2>3 DEF Drifts
  <2> QED BY <2>4, RowsMove
<1>7. CASE Lists!Page
  BY <1>7, PageReads
<1>8. CASE Lists!Tick \/ Lists!ParentGoes \/ UNCHANGED Lists!vars
  BY <1>0, <1>1, <1>8 DEF Lists!Tick, Lists!ParentGoes, Lists!vars
<1> QED BY <1>2, <1>4, <1>5, <1>6, <1>7, <1>8 DEF Lists!Next

LEMMA WalkInvHolds == ASSUME WalkInv PROVE Lists!WalksAreComplete
<1>1. walk.seen \in Seq(ListedRow)
  BY DEF WalkInv, PageRows
<1> QED BY <1>1 DEF WalkInv, WalkKept, PageRows, Lists!WalksAreComplete, Lists!Complete, Read

LEMMA PagesMove ==
    ASSUME [SiteNext]_site, Is("pages") PROVE Is("pages")' /\ [Lists!Next]_(Lists!vars)
<1>1. part = "pages" /\ part' = part
  BY PartStays DEF Is
<1>2. CASE SiteNext
  <2>1. Lists!Next \/ UNCHANGED pages
    BY <1>1, <1>2 DEF SiteNext, Is, Others
  <2> QED BY <1>1, <2>1 DEF Is, pages, Lists!vars
<1>3. CASE UNCHANGED site
  BY <1>1, <1>3 DEF Is, site, pages, Lists!vars
<1> QED BY <1>2, <1>3

(* However rows come and go between pages, a list read to its end has      *)
(* each row that stayed exactly once and in order.                         *)
THEOREM WalksAreWhole == SiteSpec => []WalksAreComplete
<1> DEFINE I == Is("pages") => WalkInv
<1>0. Lists!PagingAssumption
  BY SiteAssumption
<1>1. SiteInit => I
  BY <1>0, WalkInvInit DEF SiteInit, Is
<1>2. I /\ [SiteNext]_site => I'
  <2> SUFFICES ASSUME I, [SiteNext]_site, Is("pages") PROVE WalkInv'
    BY PartStays DEF Is
  <2> QED BY <1>0, PagesMove, WalkInvStep
<1>3. I => WalksAreComplete
  BY WalkInvHolds DEF WalksAreComplete
<1> HIDE DEF I
<1> QED BY <1>1, <1>2, <1>3, PTL DEF SiteSpec

-----------------------------------------------------------------------------
LEMMA Counts ==
    ASSUME NEW S
    PROVE  Trashcan!Cardinality(S) = Cardinality(S) /\ (Trashcan!IsFiniteSet(S) <=> IsFiniteSet(S))
BY DEF Trashcan!Cardinality, Cardinality, Trashcan!IsFiniteSet, IsFiniteSet

Trashed(i) == thing[i].phase = "trashed"

(* What the job has yet to look at.                                        *)
Todo == {sweep.todo[k] : k \in DOMAIN sweep.todo}

TrashRows ==
    /\ thing \in [Thing -> [phase : {"live", "trashed", "gone"}, since : Nat]]
    /\ busy \subseteq Busyable /\ day \in Nat
    /\ daily \in [Trashcan!Day -> {"none", "pending", "completed", "failed"}]
    /\ sweep \in [on : BOOLEAN, day : Trashcan!Day, todo : Seq(Thing), full : BOOLEAN,
                  purged : SUBSET Thing]

(* What a transaction has deleted is in the trash until it commits, and    *)
(* nothing of it is busy; what the last batch of a pass leaves out is no   *)
(* older than the site keeps it.                                           *)
BatchHolds ==
    /\ \A i \in sweep.purged : Trashed(i) /\ i \notin busy
    /\ sweep.on /\ ~sweep.full =>
          \A i \in Thing \ Busyable :
             Trashed(i) /\ thing[i].since < sweep.day - Kept => i \in sweep.purged \cup Todo

(* A pass is of a day that has come.                                       *)
PassesCome == (\A d \in Trashcan!Day : daily[d] = "pending" => d <= day) /\ (sweep.on => sweep.day <= day)

TrashInv == TrashRows /\ BatchHolds /\ PassesCome

Spares == Trashcan!SparesTheLive /\ Trashcan!LeavesNoneExpired

LEMMA TrashInvInit == ASSUME Trashcan!RetentionAssumption, Trashcan!Init PROVE TrashInv
<1>1. LastDay \in Nat /\ 0 \in Trashcan!Day
  BY DEF Trashcan!RetentionAssumption, Trashcan!Day
<1>2. sweep \in [on : {FALSE}, day : {0}, todo : {<<>>}, full : {FALSE}, purged : {{}}]
  BY DEF Trashcan!Init, Trashcan!Idle
<1>3. TrashRows
  BY <1>1, <1>2 DEF Trashcan!Init, TrashRows, Trashcan!Out, Trashcan!In
<1>4. BatchHolds /\ PassesCome
  BY <1>2 DEF Trashcan!Init, BatchHolds, PassesCome
<1> QED BY <1>3, <1>4 DEF TrashInv

(* The batch is of different expired things, and it is all of them unless  *)
(* it is full: by its rank each has a place of its own.                    *)
LEMMA BatchIsOldest ==
    ASSUME Trashcan!RetentionAssumption, TrashRows
    PROVE  /\ Trashcan!Oldest \in Seq(Thing) /\ \A k \in 1 .. Len(Trashcan!Oldest) : Trashcan!Oldest[k] \in Trashcan!AllExpired
           /\ Len(Trashcan!Oldest) # Batch => \A i \in Trashcan!AllExpired : \E k \in 1 .. Len(Trashcan!Oldest) : Trashcan!Oldest[k] = i
<1> DEFINE all == Cardinality(Trashcan!AllExpired)
           n   == IF all < Batch THEN all ELSE Batch
           R   == {p \in Trashcan!AllExpired \X Trashcan!AllExpired : Trashcan!Before(p[1], p[2])}
           rank == [i \in Trashcan!AllExpired |-> Cardinality({j \in Trashcan!AllExpired : <<j, i>> \in R})]
<1>1. Trashcan!AllExpired \subseteq Thing /\ IsFiniteSet(Trashcan!AllExpired) /\ all \in Nat /\ Batch \in Nat /\ n \in Nat
  <2>1. IsFiniteSet(Thing) /\ Batch \in Nat
    BY Counts DEF Trashcan!RetentionAssumption
  <2>2. Trashcan!AllExpired \subseteq Thing
    BY DEF Trashcan!AllExpired
  <2>3. IsFiniteSet(Trashcan!AllExpired)
    BY <2>1, <2>2, FS_Subset
  <2> QED BY <2>1, <2>2, <2>3, FS_CardinalityType, Counts
<1>2. \A i \in Trashcan!AllExpired : i \in Nat /\ thing[i].since \in Nat
  BY <1>1 DEF Trashcan!RetentionAssumption, TrashRows
<1>3. \A i \in Trashcan!AllExpired : rank[i] = Trashcan!Rank(i)
  <2> SUFFICES ASSUME NEW i \in Trashcan!AllExpired PROVE rank[i] = Trashcan!Rank(i)
    OBVIOUS
  <2>1. {j \in Trashcan!AllExpired : <<j, i>> \in R} = {j \in Trashcan!AllExpired : Trashcan!Before(j, i)}
    OBVIOUS
  <2>2. rank[i] = Cardinality({j \in Trashcan!AllExpired : Trashcan!Before(j, i)})
    BY <2>1
  <2> QED BY <2>2, Counts DEF Trashcan!Rank
<1>4. OrdersStrictly(R, Trashcan!AllExpired) /\ Ranks(rank, R, Trashcan!AllExpired)
  BY <1>2 DEF OrdersStrictly, Ranks, Trashcan!Before
<1> HIDE DEF R, rank
<1>5. /\ \A i \in Trashcan!AllExpired : rank[i] \in Nat /\ rank[i] < all
      /\ \A i, j \in Trashcan!AllExpired : rank[i] = rank[j] => i = j
      /\ \A k \in 1 .. all : \E i \in Trashcan!AllExpired : rank[i] = k - 1
  BY <1>1, <1>4, Ranking
<1> HIDE DEF all
<1>6. ASSUME NEW k \in 1 .. n
      PROVE  /\ Trashcan!Oldest[k] \in Trashcan!AllExpired /\ Trashcan!Rank(Trashcan!Oldest[k]) = k - 1
  <2>1. k \in 1 .. all
    BY <1>1
  <2>2. Trashcan!Oldest[k] = CHOOSE i \in Trashcan!AllExpired : Trashcan!Rank(i) = k - 1
    BY Counts DEF Trashcan!Oldest, all
  <2> QED BY <1>3, <1>5, <2>1, <2>2
<1>7. Trashcan!Oldest = [k \in 1 .. n |-> Trashcan!Oldest[k]]
  BY Counts DEF Trashcan!Oldest, all
<1>8. Trashcan!Oldest \in Seq(Thing) /\ Len(Trashcan!Oldest) = n
  <2>1. Trashcan!Oldest \in [1 .. n -> Thing]
    BY <1>1, <1>6, <1>7
  <2> HIDE DEF n
  <2>2. n \in Nat
    BY <1>1
  <2> QED BY <2>1, <2>2
<1>9. ASSUME n # Batch, NEW i \in Trashcan!AllExpired PROVE \E k \in 1 .. n : Trashcan!Oldest[k] = i
  <2>1. n = all /\ rank[i] \in Nat /\ rank[i] + 1 \in 1 .. all
    BY <1>1, <1>5, <1>9
  <2>2. rank[i] + 1 \in 1 .. n /\ (rank[i] + 1) - 1 = rank[i]
    BY <2>1
  <2>3. rank[Trashcan!Oldest[rank[i] + 1]] = rank[i] /\ Trashcan!Oldest[rank[i] + 1] \in Trashcan!AllExpired
    BY <1>3, <1>6, <2>2
  <2>4. Trashcan!Oldest[rank[i] + 1] = i
    BY <1>5, <2>3
  <2> QED BY <2>2, <2>4
<1> QED BY <1>6, <1>8, <1>9

(* People's steps: the transaction under way goes on.                      *)
LEMMA PeopleStep ==
    ASSUME Trashcan!RetentionAssumption, TrashInv,
           \/ \E i \in Thing : Trashcan!Trash(i) \/ Trashcan!Restore(i) \/ Trashcan!Purge(i) \/ Trashcan!Occupy(i) \/ Trashcan!Leave(i) \/ Trashcan!Refer(i)
           \/ Trashcan!Tick
    PROVE  TrashInv' /\ Spares
<1>0. TrashRows /\ BatchHolds /\ PassesCome
  BY DEF TrashInv
<1>1. sweep' = sweep /\ daily' = daily /\ day \in Nat /\ day' \in Nat /\ day <= day'
  BY <1>0 DEF Trashcan!Trash, Trashcan!Restore, Trashcan!Purge, Trashcan!Occupy, Trashcan!Leave, Trashcan!Refer, Trashcan!Tick, TrashRows
<1>2. Trashcan!LeavesNoneExpired
  BY <1>1 DEF Trashcan!LeavesNoneExpired
<1>3. PassesCome'
  <2>1. \A d \in Trashcan!Day : d \in Int
    BY DEF Trashcan!Day
  <2>2. sweep.day \in Trashcan!Day
    BY <1>0 DEF TrashRows
  <2> QED BY <1>0, <1>1, <2>1, <2>2 DEF PassesCome
<1>4. ASSUME NEW i \in Thing, NEW phase \in {"live", "trashed", "gone"}, NEW since \in Nat,
             thing' = [thing EXCEPT ![i] = [phase |-> phase, since |-> since]], UNCHANGED busy,
             i \notin sweep.purged,
             phase = "trashed" => since = day,
             phase = "gone" => Trashed(i) /\ i \notin busy
      PROVE  TrashInv' /\ Trashcan!SparesTheLive
  <2>1. TrashRows'
    BY <1>0, <1>1, <1>4 DEF TrashRows
  <2>2. \A j \in Thing : j # i => thing'[j] = thing[j]
    BY <1>0, <1>4 DEF TrashRows
  <2>3. thing'[i].phase = phase /\ thing'[i].since = since
    BY <1>0, <1>4 DEF TrashRows
  <2>4. sweep.on => ~(day < sweep.day - Kept)
    <3>1. sweep.day \in Int /\ Kept \in Nat
      BY <1>0 DEF TrashRows, Trashcan!Day, Trashcan!RetentionAssumption
    <3> QED BY <1>0, <1>1, <3>1 DEF PassesCome
  <2>5. sweep.purged \subseteq Thing
    BY <1>0 DEF TrashRows
  <2>6. BatchHolds'
    BY <1>0, <1>1, <1>4, <2>2, <2>3, <2>4, <2>5 DEF BatchHolds, Trashed, Todo
  <2>7. Trashcan!SparesTheLive
    BY <1>4, <2>2, <2>3 DEF Trashcan!SparesTheLive, Trashcan!Phase, Trashed
  <2> QED BY <1>3, <2>1, <2>6, <2>7 DEF TrashInv
<1>5. ASSUME UNCHANGED thing, busy' \subseteq Busyable, \A i \in busy' : i \in busy \/ i \notin sweep.purged
      PROVE  TrashInv' /\ Trashcan!SparesTheLive
  <2>1. TrashRows'
    BY <1>0, <1>1, <1>5 DEF TrashRows
  <2>2. BatchHolds'
    BY <1>0, <1>1, <1>5 DEF BatchHolds, Trashed, Todo
  <2>3. Trashcan!SparesTheLive
    BY <1>5 DEF Trashcan!SparesTheLive, Trashcan!Phase
  <2> QED BY <1>3, <2>1, <2>2, <2>3 DEF TrashInv
<1>6. ASSUME NEW i \in Thing, Trashcan!Trash(i) PROVE TrashInv' /\ Trashcan!SparesTheLive
  <2>1. /\ thing' = [thing EXCEPT ![i] = [phase |-> "trashed", since |-> day]] /\ UNCHANGED busy
        /\ ~Trashed(i)
    BY <1>6 DEF Trashcan!Trash, Trashcan!In, Trashcan!Phase, Trashed
  <2>2. i \notin sweep.purged
    BY <1>0, <2>1 DEF BatchHolds
  <2> QED BY <1>1, <1>4, <2>1, <2>2
<1>7. ASSUME NEW i \in Thing, Trashcan!Restore(i) PROVE TrashInv' /\ Trashcan!SparesTheLive
  <2>1. /\ thing' = [thing EXCEPT ![i] = [phase |-> "live", since |-> 0]] /\ UNCHANGED busy
        /\ i \notin sweep.purged
    BY <1>7 DEF Trashcan!Restore, Trashcan!Out, Trashcan!Locked
  <2> QED BY <1>4, <2>1
<1>8. ASSUME NEW i \in Thing, Trashcan!Purge(i) PROVE TrashInv' /\ Trashcan!SparesTheLive
  <2>1. /\ thing' = [thing EXCEPT ![i] = [phase |-> "gone", since |-> 0]] /\ UNCHANGED busy
        /\ i \notin sweep.purged /\ Trashed(i) /\ i \notin busy
    BY <1>8 DEF Trashcan!Purge, Trashcan!Out, Trashcan!Locked, Trashed, Trashcan!Phase
  <2> QED BY <1>4, <2>1
<1>9. ASSUME NEW i \in Thing, Trashcan!Occupy(i) \/ Trashcan!Leave(i) \/ Trashcan!Refer(i) PROVE TrashInv' /\ Trashcan!SparesTheLive
  <2>1. /\ UNCHANGED thing /\ busy' \subseteq Busyable
        /\ \A j \in busy' : j \in busy \/ j \notin sweep.purged
    BY <1>0, <1>9 DEF Trashcan!Occupy, Trashcan!Leave, Trashcan!Refer, Trashcan!Locked, TrashRows
  <2> QED BY <1>5, <2>1
<1>10. ASSUME Trashcan!Tick PROVE TrashInv' /\ Trashcan!SparesTheLive
  <2>1. UNCHANGED <<thing, busy>> /\ busy' \subseteq Busyable
    BY <1>0, <1>10 DEF Trashcan!Tick, TrashRows
  <2> QED BY <1>5, <2>1
<1> QED BY <1>2, <1>6, <1>7, <1>8, <1>9, <1>10 DEF Spares

(* The transaction ends, or was not there: nothing is deleted.             *)
LEMMA AbandonStep ==
    ASSUME Trashcan!RetentionAssumption, TrashInv, UNCHANGED <<thing, busy, day>>,
           sweep' = sweep \/ sweep' = Trashcan!Idle,
           daily' \in [Trashcan!Day -> {"none", "pending", "completed", "failed"}],
           \A d \in Trashcan!Day : daily'[d] # daily[d] => daily'[d] # "completed" /\ d <= day
    PROVE  TrashInv' /\ Spares
<1>1. Trashcan!Idle \in [on : {FALSE}, day : Trashcan!Day, todo : Seq(Thing), full : BOOLEAN, purged : {{}}]
  BY DEF Trashcan!Idle, Trashcan!Day, Trashcan!RetentionAssumption
<1>2. TrashRows'
  BY <1>1 DEF TrashInv, TrashRows
<1>3. BatchHolds'
  <2>1. CASE sweep' = sweep
    BY <2>1 DEF TrashInv, BatchHolds, Trashed, Todo
  <2>2. CASE sweep' = Trashcan!Idle
    BY <1>1, <2>2 DEF TrashInv, BatchHolds
  <2> QED BY <2>1, <2>2
<1>4. PassesCome'
  BY <1>1 DEF TrashInv, PassesCome
<1>5. Spares
  BY DEF Spares, Trashcan!SparesTheLive, Trashcan!LeavesNoneExpired, Trashcan!Phase
<1> QED BY <1>2, <1>3, <1>4, <1>5 DEF TrashInv

LEMMA StartStep ==
    ASSUME Trashcan!RetentionAssumption, TrashInv, NEW d \in Trashcan!Day, Trashcan!Start(d) PROVE TrashInv' /\ Spares
<1>0. TrashRows /\ BatchHolds /\ PassesCome
  BY DEF TrashInv
<1>1. /\ sweep' = [on |-> TRUE, day |-> d, todo |-> Trashcan!Oldest, full |-> Len(Trashcan!Oldest) = Batch, purged |-> {}]
      /\ UNCHANGED <<thing, busy, day, daily>> /\ daily[d] = "pending"
  BY DEF Trashcan!Start
<1>2. d <= day
  BY <1>0, <1>1 DEF PassesCome
<1>3. /\ sweep'.on = TRUE /\ sweep'.day = d /\ sweep'.todo = Trashcan!Oldest /\ sweep'.purged = {}
      /\ sweep'.full = (Len(Trashcan!Oldest) = Batch)
  BY <1>1
<1>4. TrashRows'
  BY <1>0, <1>1, BatchIsOldest DEF TrashRows
<1>5. ASSUME ~sweep'.full, NEW i \in Thing, thing[i].phase = "trashed", thing[i].since < d - Kept
      PROVE  i \in Todo'
  <2>1. thing[i].since \in Nat /\ day \in Nat /\ d \in Int /\ Kept \in Nat
    BY <1>0 DEF TrashRows, Trashcan!Day, Trashcan!RetentionAssumption
  <2>2. i \in Trashcan!AllExpired
    BY <1>2, <1>5, <2>1 DEF Trashcan!AllExpired, Trashcan!Expired, Trashcan!Phase
  <2>3. PICK k \in 1 .. Len(Trashcan!Oldest) : Trashcan!Oldest[k] = i
    BY <1>0, <1>3, <1>5, <2>2, BatchIsOldest
  <2>4. DOMAIN Trashcan!Oldest = 1 .. Len(Trashcan!Oldest)
    BY <1>0, BatchIsOldest
  <2> QED BY <1>3, <2>3, <2>4 DEF Todo
<1>6. BatchHolds'
  BY <1>1, <1>3, <1>5 DEF BatchHolds, Trashed
<1>7. PassesCome' /\ Spares
  BY <1>0, <1>1, <1>2, <1>3 DEF PassesCome, Spares, Trashcan!SparesTheLive, Trashcan!LeavesNoneExpired, Trashcan!Phase
<1> QED BY <1>4, <1>6, <1>7 DEF TrashInv

LEMMA PurgeNextStep == ASSUME Trashcan!RetentionAssumption, TrashInv, Trashcan!PurgeNext PROVE TrashInv' /\ Spares
<1>0. TrashRows /\ BatchHolds /\ PassesCome
  BY DEF TrashInv
<1> DEFINE more == Trashcan!StillTrashed(Trashcan!First) /\ Trashcan!First \notin busy
           purged == IF more THEN sweep.purged \cup {Trashcan!First} ELSE sweep.purged
<1>1. /\ UNCHANGED <<thing, busy, day, daily>> /\ sweep.on /\ sweep.todo # <<>>
      /\ ~(Trashcan!StillTrashed(Trashcan!First) /\ Trashcan!First \in referred \ busy)
  BY DEF Trashcan!PurgeNext
<1>2. /\ sweep' \in [on : {sweep.on}, day : {sweep.day}, todo : {Tail(sweep.todo)}, full : {sweep.full},
                     purged : {purged}]
  BY <1>0 DEF Trashcan!PurgeNext, Trashcan!Passed, TrashRows
<1> HIDE DEF purged
<1>3. sweep.todo \in Seq(Thing) /\ Trashcan!First \in Thing /\ Tail(sweep.todo) \in Seq(Thing)
  BY <1>0, <1>1 DEF TrashRows, Trashcan!First
<1>4. purged \subseteq Thing /\ sweep.purged \subseteq purged
  BY <1>0, <1>3 DEF purged, TrashRows
<1>5. TrashRows'
  BY <1>0, <1>1, <1>2, <1>3, <1>4 DEF TrashRows
<1>6. \A i \in purged : Trashed(i) /\ i \notin busy
  BY <1>0 DEF purged, BatchHolds, Trashcan!StillTrashed, Trashcan!Phase, Trashed
<1>7. ASSUME NEW i \in Todo PROVE i = Trashcan!First \/ i \in Todo'
  <2>1. PICK k \in 1 .. Len(sweep.todo) : sweep.todo[k] = i
    BY <1>3 DEF Todo
  <2>2. k = 1 => i = Trashcan!First
    BY <1>1, <1>3, <2>1 DEF Trashcan!First
  <2>3. ASSUME k # 1 PROVE i \in Todo'
    <3>1. k - 1 \in 1 .. Len(Tail(sweep.todo)) /\ Tail(sweep.todo)[k - 1] = i
      BY <1>1, <1>3, <2>1, <2>3
    <3>2. DOMAIN sweep'.todo = 1 .. Len(Tail(sweep.todo)) /\ sweep'.todo = Tail(sweep.todo)
      BY <1>2, <1>3
    <3> QED BY <3>1, <3>2 DEF Todo
  <2> QED BY <2>2, <2>3
<1>8. ASSUME NEW i \in Thing \ Busyable, Trashed(i), i = Trashcan!First PROVE i \in purged
  BY <1>0, <1>8 DEF purged, Trashcan!StillTrashed, Trashcan!Phase, Trashed, TrashRows
<1>9. BatchHolds'
  BY <1>0, <1>1, <1>2, <1>4, <1>6, <1>7, <1>8 DEF BatchHolds, Trashed
<1>10. PassesCome' /\ Spares
  BY <1>0, <1>1, <1>2 DEF PassesCome, Spares, Trashcan!SparesTheLive, Trashcan!LeavesNoneExpired, Trashcan!Phase
<1> QED BY <1>5, <1>9, <1>10 DEF TrashInv

LEMMA CommitBatchStep == ASSUME Trashcan!RetentionAssumption, TrashInv, Trashcan!CommitBatch PROVE TrashInv' /\ Spares
<1>0. TrashRows /\ BatchHolds /\ PassesCome
  BY DEF TrashInv
<1>1. /\ thing' = [i \in Thing |-> IF i \in sweep.purged THEN [phase |-> "gone", since |-> 0] ELSE thing[i]]
      /\ daily' = [daily EXCEPT ![sweep.day] = IF sweep.full THEN "pending" ELSE "completed"]
      /\ sweep' = Trashcan!Idle /\ UNCHANGED <<busy, day>> /\ sweep.on /\ sweep.todo = <<>>
  BY DEF Trashcan!CommitBatch, Trashcan!Locked, Trashcan!Out, Trashcan!Continued
<1>2. Trashcan!Idle \in [on : {FALSE}, day : Trashcan!Day, todo : Seq(Thing), full : BOOLEAN, purged : {{}}]
  BY DEF Trashcan!Idle, Trashcan!Day, Trashcan!RetentionAssumption
<1>3. sweep.day \in Trashcan!Day /\ sweep.day <= day
  BY <1>0, <1>1 DEF TrashRows, PassesCome
<1>4. TrashRows'
  BY <1>0, <1>1, <1>2, <1>3 DEF TrashRows
<1>5. BatchHolds' /\ PassesCome'
  BY <1>0, <1>1, <1>2, <1>3 DEF BatchHolds, PassesCome, TrashRows
<1>6. Trashcan!SparesTheLive
  BY <1>0, <1>1 DEF Trashcan!SparesTheLive, BatchHolds, Trashed, Trashcan!Phase
<1>7. Trashcan!LeavesNoneExpired
  <2> SUFFICES ASSUME NEW d \in Trashcan!Day, NEW i \in Thing \ Busyable, daily[d] # "completed", daily'[d] = "completed",
                      thing[i].phase = "trashed", thing[i].since < d - Kept
               PROVE  thing'[i].phase = "gone"
    BY DEF Trashcan!LeavesNoneExpired, Trashcan!Phase
  <2>1. d = sweep.day /\ ~sweep.full
    BY <1>0, <1>1, <1>3 DEF TrashRows
  <2>2. Todo = {}
    BY <1>1 DEF Todo
  <2>3. i \in sweep.purged
    BY <1>0, <1>1, <2>1, <2>2 DEF BatchHolds, Trashed
  <2> QED BY <1>1, <2>3
<1> QED BY <1>4, <1>5, <1>6, <1>7 DEF TrashInv, Spares

LEMMA TrashInvStep ==
    ASSUME Trashcan!RetentionAssumption, TrashInv, [Trashcan!Next]_(Trashcan!vars) PROVE TrashInv' /\ (Spares \/ UNCHANGED Trashcan!vars)
<1>0. TrashRows
  BY DEF TrashInv
<1>1. CASE Trashcan!Enqueue
  <2>1. day \in Int /\ daily' = [daily EXCEPT ![day] = "pending"] /\ UNCHANGED <<thing, busy, day, sweep>>
    BY <1>0, <1>1 DEF Trashcan!Enqueue, TrashRows
  <2>2. /\ daily' \in [Trashcan!Day -> {"none", "pending", "completed", "failed"}]
        /\ \A d \in Trashcan!Day : daily'[d] # daily[d] => daily'[d] # "completed" /\ d = day
    BY <1>0, <2>1 DEF TrashRows
  <2>3. day <= day
    BY <2>1
  <2> QED BY <2>1, <2>2, <2>3, AbandonStep
<1>2. CASE Trashcan!PurgeFails
  <2>1. /\ sweep.on /\ sweep' = Trashcan!Idle /\ UNCHANGED <<thing, busy, day>>
        /\ daily' \in {daily, [daily EXCEPT ![sweep.day] = "failed"]}
    BY <1>2 DEF Trashcan!PurgeFails
  <2>2. sweep.day \in Trashcan!Day /\ sweep.day <= day
    BY <1>0, <2>1 DEF TrashInv, TrashRows, PassesCome
  <2> QED BY <1>0, <2>1, <2>2, AbandonStep DEF TrashRows
<1>3. CASE Trashcan!Die
  <2>1. sweep' = Trashcan!Idle /\ UNCHANGED <<thing, busy, day, daily>>
    BY <1>3 DEF Trashcan!Die
  <2>2. daily' \in [Trashcan!Day -> {"none", "pending", "completed", "failed"}] /\ \A d \in Trashcan!Day : daily'[d] = daily[d]
    BY <1>0, <2>1 DEF TrashRows
  <2> QED BY <2>1, <2>2, AbandonStep
<1>4. CASE UNCHANGED Trashcan!vars
  <2>1. UNCHANGED <<thing, busy, day, daily, sweep>>
    BY <1>4 DEF Trashcan!vars
  <2>2. daily' \in [Trashcan!Day -> {"none", "pending", "completed", "failed"}] /\ \A d \in Trashcan!Day : daily'[d] = daily[d]
    BY <1>0, <2>1 DEF TrashRows
  <2> QED BY <2>1, <2>2, AbandonStep
<1> QED BY <1>1, <1>2, <1>3, <1>4, PeopleStep, StartStep, PurgeNextStep, CommitBatchStep
        DEF Trashcan!Next, Trashcan!Job, Trashcan!StartAny

LEMMA TrashMoves ==
    ASSUME [SiteNext]_site, Is("trash") PROVE Is("trash")' /\ [Trashcan!Next]_(Trashcan!vars)
<1>1. part = "trash" /\ part' = part
  BY PartStays DEF Is
<1>2. CASE SiteNext
  <2>1. Trashcan!Next \/ UNCHANGED trash
    BY <1>1, <1>2 DEF SiteNext, Is, Others
  <2> QED BY <1>1, <2>1 DEF Is, trash, Trashcan!vars
<1>3. CASE UNCHANGED site
  BY <1>1, <1>3 DEF Is, site, trash, Trashcan!vars
<1> QED BY <1>2, <1>3

(* A retention pass deletes only what is in the trash and expired, and one *)
(* that has ended left nothing it should have taken.                       *)
THEOREM PassesArePurges == SiteSpec => PassesPurge
<1> DEFINE I == Is("trash") => TrashInv
<1>0. Trashcan!RetentionAssumption
  BY SiteAssumption
<1>1. SiteInit => I
  BY <1>0, TrashInvInit DEF SiteInit, Is
<1>2. I /\ [SiteNext]_site =>
         I' /\ [Is("trash") => Trashcan!SparesTheLive /\ Trashcan!LeavesNoneExpired]_trash
  <2> SUFFICES ASSUME I, [SiteNext]_site
               PROVE  I' /\ [Is("trash") => Trashcan!SparesTheLive /\ Trashcan!LeavesNoneExpired]_trash
    OBVIOUS
  <2>1. CASE Is("trash")
    <3>1. Is("trash")' /\ [Trashcan!Next]_(Trashcan!vars)
      BY <2>1, TrashMoves
    <3>2. TrashInv' /\ (Spares \/ UNCHANGED Trashcan!vars)
      BY <1>0, <2>1, <3>1, TrashInvStep
    <3>3. UNCHANGED Trashcan!vars => UNCHANGED trash
      BY DEF Trashcan!vars, trash
    <3> QED BY <3>2, <3>3 DEF Spares
  <2>2. CASE ~Is("trash")
    BY <2>2, PartStays DEF Is
  <2> QED BY <2>1, <2>2
<1> HIDE DEF I
<1> QED BY <1>1, <1>2, PTL DEF SiteSpec, PassesPurge

-----------------------------------------------------------------------------
TermRow == [phase : {"none", "live", "trash"}, parent : Term \cup {Root}]
Task == [kind : {"none", "create", "move", "trash", "replace", "insert"}, t : Term \cup {Root},
         parent : Term \cup {Root}, a : Article \cup {Root}, terms : SUBSET Term,
         cleared : SUBSET (Term \X Client)]

TreeRows ==
    /\ term \in [Term -> TermRow]
    /\ assigned \in [Article -> SUBSET (Term \X Client)]
    /\ task \in [Client -> Task]
    /\ \A e \in Client : /\ task[e].kind \in {"create", "move", "trash"} => task[e].t \in Term
                         /\ task[e].kind \in {"replace", "insert"} => task[e].a \in Article

(* What a request has found, as its record says it.                        *)
Checked(r) ==
    /\ r.kind \in {"create", "move"} => Tags!MayBeUnder(r.t, r.parent)
    /\ r.kind \in {"replace", "insert"} => r.terms \subseteq Tags!Live
    /\ r.kind = "insert" => r.cleared = assigned[r.a]
    /\ r.kind = "trash" => r.terms = Tags!Children(r.t)

(* It still holds unless another has committed; nobody else makes the term *)
(* that a request creates, and one that is being deleted stays.            *)
ChecksHold ==
    /\ \A e \in Client : e \notin changed => Checked(task[e])
    /\ \A e \in Client : task[e].kind = "create" =>
          /\ term[task[e].t].phase = "none"
          /\ \A d \in Client \ {e} : task[d].kind = "create" => task[d].t # task[e].t
    /\ \A e \in Client : task[e].kind = "trash" =>
          /\ term[task[e].t].phase = "live"
          /\ \A d \in Client \ {e} : task[d].kind = "trash" => task[d].t # task[e].t

TreeInv == TreeRows /\ ChecksHold /\ Tags!Refers

LEMMA TreeInvInit == ASSUME Tags!TaxonomyAssumption, Tags!Init PROVE TreeInv
<1>1. /\ term \in [Term -> TermRow] /\ \A t \in Term : term[t].parent = Root
      /\ assigned = [a \in Article |-> {}] /\ task = [e \in Client |-> Tags!NoTask]
  BY DEF Tags!Init, TermRow
<1>2. Tags!NoTask \in Task /\ Tags!NoTask.kind = "none"
  BY DEF Tags!NoTask, Task
<1>3. TreeRows
  BY <1>1, <1>2 DEF TreeRows
<1>4. ChecksHold
  BY <1>1, <1>2 DEF ChecksHold, Checked
<1>5. Tags!Refers
  BY <1>1 DEF Tags!Refers, Tags!Rows
<1> QED BY <1>3, <1>4, <1>5 DEF TreeInv

----------------------------------------------------------------------------
(* What is above a term.                                                   *)

(* It is the least of the sets with the parent that are closed.            *)
LEMMA AboveIsLeast ==
    ASSUME Tags!TaxonomyAssumption, TreeRows, NEW t \in Term
    PROVE  /\ Tags!Above(t) \subseteq Term /\ Tags!Closed(Tags!Above(t)) /\ term[t].parent \in Tags!Above(t) \cup {Root}
           /\ \A S \in SUBSET Term : Tags!Closed(S) /\ term[t].parent \in S \cup {Root} => Tags!Above(t) \subseteq S
<1>1. \A u \in Term : term[u].parent \in Term \cup {Root}
  BY DEF TreeRows, TermRow
<1>2. Tags!Above(t) \subseteq Term
  BY DEF Tags!Above
<1>3. \A S \in SUBSET Term : Tags!Closed(S) /\ term[t].parent \in S \cup {Root} => Tags!Above(t) \subseteq S
  BY DEF Tags!Above
<1>4. term[t].parent \in Tags!Above(t) \cup {Root}
  BY <1>1 DEF Tags!Above
<1>5. Tags!Closed(Tags!Above(t))
  <2> SUFFICES ASSUME NEW u \in Tags!Above(t), term[u].parent # Root PROVE term[u].parent \in Tags!Above(t)
    BY DEF Tags!Closed
  <2>1. u \in Term /\ term[u].parent \in Term
    BY <1>1, <1>2
  <2>2. ASSUME NEW S \in SUBSET Term, Tags!Closed(S), term[t].parent \in S \cup {Root} PROVE term[u].parent \in S
    BY <2>2 DEF Tags!Above, Tags!Closed
  <2> QED BY <2>1, <2>2 DEF Tags!Above
<1> QED BY <1>2, <1>3, <1>4, <1>5

(* A term that is not in some closed set with its parent is in no cycle.   *)
LEMMA OutsideIsAcyclic ==
    ASSUME NEW t \in Term, NEW S \in SUBSET Term, Tags!Closed(S), term[t].parent \in S \cup {Root}, t \notin S
    PROVE  ~Tags!Cyclic(t)
BY DEF Tags!Cyclic, Tags!Above

LEMMA OutsideStaysAcyclic ==
    ASSUME NEW t \in Term, NEW S \in SUBSET Term, Tags!Closed(S)', term'[t].parent \in S \cup {Root}, t \notin S
    PROVE  ~Tags!Cyclic(t)'
BY DEF Tags!Cyclic, Tags!Above

(* Where parents stay or go to the root, no cycle is closed.               *)
LEMMA RootsCloseNoCycle ==
    ASSUME Tags!TaxonomyAssumption, TreeRows, \A t \in Term : term'[t].parent \in {term[t].parent, Root}
    PROVE  Tags!ClosesNoCycle
<1> SUFFICES ASSUME NEW t \in Term, ~Tags!Cyclic(t) PROVE ~Tags!Cyclic(t)'
  BY DEF Tags!ClosesNoCycle
<1> DEFINE S == Tags!Above(t)
<1>1. S \in SUBSET Term /\ Tags!Closed(S) /\ term[t].parent \in S \cup {Root} /\ t \notin S
  BY AboveIsLeast DEF Tags!Cyclic
<1> HIDE DEF S
<1>2. (\A u \in S : term'[u].parent \in S \cup {Root}) /\ term'[t].parent \in S \cup {Root}
  BY <1>1 DEF Tags!Closed
<1>3. ASSUME NEW U, U = S PROVE (\A u \in U : term'[u].parent \in U \cup {Root}) /\ term'[t].parent \in U \cup {Root}
  BY <1>2, <1>3
<1> QED BY <1>1, <1>2, OutsideStaysAcyclic DEF Tags!Closed

(* A term that is put under another one that it is not above.              *)
LEMMA MoveClosesNoCycle ==
    ASSUME Tags!TaxonomyAssumption, TreeRows, NEW t \in Term, NEW p \in Term,
           p # t, t \notin Tags!Above(p), term'[t].parent = p,
           \A u \in Term \ {t} : term'[u].parent = term[u].parent
    PROVE  Tags!ClosesNoCycle
<1> SUFFICES ASSUME NEW x \in Term, ~Tags!Cyclic(x) PROVE ~Tags!Cyclic(x)'
  BY DEF Tags!ClosesNoCycle
<1> DEFINE B == Tags!Above(p)
           X == Tags!Above(x)
           A == B \cup {p}
<1>1. B \subseteq Term /\ Tags!Closed(B) /\ term[p].parent \in B \cup {Root} /\ t \notin B
  BY AboveIsLeast
<1>2. X \subseteq Term /\ Tags!Closed(X) /\ term[x].parent \in X \cup {Root} /\ x \notin X
  BY AboveIsLeast DEF Tags!Cyclic
<1>3. ASSUME NEW S \in SUBSET Term, Tags!Closed(S), term[x].parent \in S \cup {Root} PROVE X \subseteq S
  BY <1>3, AboveIsLeast
<1> HIDE DEF B, X
<1>4. A \subseteq Term /\ t \notin A /\ \A u \in A : term[u].parent \in A \cup {Root}
  BY <1>1 DEF Tags!Closed
<1>5. Tags!Closed(A)
  BY <1>4 DEF Tags!Closed
<1>6. \A u \in A : term'[u].parent \in A \cup {Root}
  BY <1>4
<1>7. CASE x = t
  <2>1. ASSUME NEW U, U = A PROVE \A u \in U : term'[u].parent \in U \cup {Root}
    BY <1>6, <2>1
  <2> QED BY <1>4, <1>7, <2>1, OutsideStaysAcyclic DEF Tags!Closed
<1>8. CASE x # t /\ t \notin X
  <2>1. \A u \in X : term'[u].parent \in X \cup {Root}
    BY <1>2, <1>8 DEF Tags!Closed
  <2>2. ASSUME NEW U, U = X PROVE \A u \in U : term'[u].parent \in U \cup {Root}
    BY <2>1, <2>2
  <2> QED BY <1>2, <1>8, <2>2, OutsideStaysAcyclic DEF Tags!Closed
<1>9. CASE x # t /\ t \in X
  <2> DEFINE S == X \cup A
  <2>1. x \notin A
    <3> SUFFICES ASSUME x \in A PROVE FALSE
      OBVIOUS
    <3>1. term[x].parent \in A \cup {Root}
      BY <1>4
    <3>2. X \subseteq A
      BY <3>1, <1>3, <1>4, <1>5
    <3> QED BY <3>2, <1>4, <1>9
  <2>2. \A u \in S : term'[u].parent \in S \cup {Root}
    BY <1>2, <1>6 DEF Tags!Closed
  <2>3. S \in SUBSET Term /\ x \notin S /\ term'[x].parent \in S \cup {Root}
    BY <1>2, <1>4, <1>9, <2>1
  <2> HIDE DEF S
  <2>4. ASSUME NEW U, U = S PROVE \A u \in U : term'[u].parent \in U \cup {Root}
    BY <2>2, <2>4
  <2> QED BY <2>3, <2>4, OutsideStaysAcyclic DEF Tags!Closed
<1> QED BY <1>7, <1>8, <1>9

----------------------------------------------------------------------------
(* What a request has found, after a step.                                 *)

LEMMA CheckedStays ==
    ASSUME NEW r, Checked(r), term' = term, assigned' = assigned
    PROVE  Checked(r)'
<1>1. Tags!Live' = Tags!Live
  BY DEF Tags!Live
<1>2. \A t, p : Tags!MayBeUnder(t, p) => Tags!MayBeUnder(t, p)'
  BY <1>1 DEF Tags!MayBeUnder, Tags!Above, Tags!Closed
<1>3. \A t : Tags!Children(t)' = Tags!Children(t)
  BY <1>1 DEF Tags!Children
<1> QED BY <1>1, <1>2, <1>3 DEF Checked

(* A request that takes what it has found down, or goes on.                *)
LEMMA FindingStep ==
    ASSUME Tags!TaxonomyAssumption, TreeInv, NEW e \in Client, NEW r \in Task, e \notin changed' => Checked(r),
           term' = term, assigned' = assigned,
           task' = [task EXCEPT ![e] = r], changed \ {e} \subseteq changed',
           r.kind \in {"create", "move", "trash"} => r.t \in Term,
           r.kind \in {"replace", "insert"} => r.a \in Article,
           r.kind = "create" => term[r.t].phase = "none" /\ \A d \in Client : task[d].t # r.t,
           r.kind = "trash" => /\ term[r.t].phase = "live"
                               /\ \A d \in Client \ {e} : task[d].kind = "trash" => task[d].t # r.t
    PROVE  TreeInv'
<1>1. \A d \in Client : task'[d] = IF d = e THEN r ELSE task[d]
  BY DEF TreeInv, TreeRows
<1>2. TreeRows'
  BY <1>1 DEF TreeInv, TreeRows
<1>3. \A d \in Client : d \notin changed' => Checked(IF d = e THEN r ELSE task[d])
  BY DEF TreeInv, ChecksHold
<1>4. ASSUME NEW d \in Client, d \notin changed' PROVE Checked(task[d])'
  <2>1. ASSUME NEW x, Checked(x), task'[d] = x PROVE Checked(task[d])'
    <3>1. Checked(x)'
      BY <2>1, CheckedStays
    <3> QED BY <3>1, <2>1 DEF Checked
  <2> QED BY <1>1, <1>3, <1>4, <2>1
<1>5. ChecksHold'
  BY <1>1, <1>4 DEF TreeInv, ChecksHold
<1> QED BY <1>2, <1>5 DEF TreeInv, Tags!Refers, Tags!Rows

(* A request that has written: if it did, all others are told.             *)
LEMMA DoneStep ==
    ASSUME Tags!TaxonomyAssumption, TreeInv, NEW e \in Client, NEW commits \in BOOLEAN, Tags!Done(e, commits),
           ~commits => term' = term /\ assigned' = assigned,
           term' \in [Term -> TermRow], assigned' \in [Article -> SUBSET (Term \X Client)],
           \A t \in Term : term[t].phase = "none" /\ term'[t].phase # "none" => task[e].kind = "create" /\ t = task[e].t,
           \A d \in Client \ {e} : task[d].kind = "trash" => term'[task[d].t].phase = "live",
           Tags!Refers'
    PROVE  TreeInv'
<1>1. \A d \in Client : task'[d] = IF d = e THEN Tags!NoTask ELSE task[d]
  BY DEF Tags!Done, TreeInv, TreeRows
<1>2. Tags!NoTask \in Task /\ Tags!NoTask.kind = "none"
  BY DEF Tags!NoTask, Task
<1>3. TreeRows'
  <2>1. task' \in [Client -> Task]
    BY <1>2 DEF Tags!Done, TreeInv, TreeRows
  <2> QED BY <1>1, <1>2, <2>1 DEF TreeInv, TreeRows
<1>4. ASSUME NEW d \in Client, d \notin changed' PROVE Checked(task[d])'
  <2>1. CASE task'[d].kind = "none"
    BY <2>1 DEF Checked
  <2>2. CASE task'[d].kind # "none"
    <3>1. d # e /\ task'[d] = task[d] /\ ~commits /\ d \notin changed
      BY <1>1, <1>2, <1>4, <2>2 DEF Tags!Done
    <3>2. Checked(task[d])
      BY <3>1 DEF TreeInv, ChecksHold
    <3>3. ASSUME NEW x, Checked(x), task'[d] = x PROVE Checked(task[d])'
      <4>1. Checked(x)'
        BY <3>1, <3>3, CheckedStays
      <4> QED BY <4>1, <3>3 DEF Checked
    <3> QED BY <3>1, <3>2, <3>3
  <2> QED BY <2>1, <2>2
<1>5. ASSUME NEW d \in Client, task'[d].kind = "create"
      PROVE  /\ term'[task'[d].t].phase = "none"
             /\ \A c \in Client \ {d} : task'[c].kind = "create" => task'[c].t # task'[d].t
  <2>1. d # e /\ task'[d] = task[d] /\ task[d].t \in Term
    BY <1>1, <1>2, <1>5 DEF TreeInv, TreeRows
  <2>2. /\ term[task[d].t].phase = "none"
        /\ \A c \in Client \ {d} : task[c].kind = "create" => task[c].t # task[d].t
    BY <1>5, <2>1 DEF TreeInv, ChecksHold
  <2>3. term'[task[d].t].phase = "none"
    BY <2>1, <2>2
  <2> QED BY <1>1, <1>2, <2>1, <2>2, <2>3
<1>6. ASSUME NEW d \in Client, task'[d].kind = "trash"
      PROVE  /\ term'[task'[d].t].phase = "live"
             /\ \A c \in Client \ {d} : task'[c].kind = "trash" => task'[c].t # task'[d].t
  <2>1. d # e /\ task'[d] = task[d]
    BY <1>1, <1>2, <1>6
  <2>2. \A c \in Client \ {d} : task[c].kind = "trash" => task[c].t # task[d].t
    BY <1>6, <2>1 DEF TreeInv, ChecksHold
  <2> QED BY <1>1, <1>2, <1>6, <2>1, <2>2
<1>7. ChecksHold'
  BY <1>4, <1>5, <1>6 DEF ChecksHold
<1> QED BY <1>3, <1>7 DEF TreeInv

(* Where neither rows nor assignments change.                              *)
LEMMA StillStep ==
    ASSUME Tags!TaxonomyAssumption, TreeInv, term' = term, assigned' = assigned, Tags!Replaces
    PROVE  Tags!TreeStep
<1>1. Tags!ClosesNoCycle
  BY RootsCloseNoCycle DEF TreeInv
<1>2. Tags!StaysAttached
  BY DEF Tags!StaysAttached, Tags!Live
<1>3. Tags!Refers'
  BY DEF TreeInv, Tags!Refers, Tags!Rows
<1> QED BY <1>1, <1>2, <1>3 DEF Tags!TreeStep

(* A request that is only checked, or goes on, has not written.            *)
LEMMA ChecksReplaceNothing ==
    ASSUME TreeInv, NEW e \in Client, NEW r, r.kind # "none" \/ task[e].kind # "insert", task' = [task EXCEPT ![e] = r]
    PROVE  Tags!Replaces
<1>1. \A d \in Client : task'[d] = IF d = e THEN r ELSE task[d]
  BY DEF TreeInv, TreeRows
<1> QED BY <1>1 DEF Tags!Replaces, Tags!Wrote

----------------------------------------------------------------------------
(* The steps.                                                              *)

LEMMA CreateStep ==
    ASSUME Tags!TaxonomyAssumption, TreeInv, NEW e \in Client, NEW t \in Term, NEW p \in Term \cup {Root},
           Tags!Create(e, t, p) \/ Tags!Update(e, t, p)
    PROVE  TreeInv' /\ Tags!TreeStep
<1> DEFINE r(k) == [Tags!NoTask EXCEPT !.kind = k, !.t = t, !.parent = p]
<1>1. PICK k \in {"create", "move"} :
          /\ task[e].kind = "none" /\ Tags!MayBeUnder(t, p) /\ term' = term /\ assigned' = assigned
          /\ task' = [task EXCEPT ![e] = r(k)] /\ changed' = changed \ {e}
          /\ k = "create" => term[t].phase = "none" /\ \A d \in Client : task[d].t # t
  BY DEF Tags!Create, Tags!Update, Tags!Begin, Tags!Check
<1>2. r(k) \in Task /\ r(k).kind = k /\ r(k).t = t /\ r(k).parent = p
  BY DEF Tags!NoTask, Task
<1> HIDE DEF r
<1>3. Checked(r(k))
  BY <1>1, <1>2 DEF Checked
<1>4. TreeInv'
  BY <1>1, <1>2, <1>3, FindingStep
<1>5. Tags!Replaces
  BY <1>1, <1>2, ChecksReplaceNothing
<1> QED BY <1>1, <1>4, <1>5, StillStep

LEMMA FindStep ==
    ASSUME Tags!TaxonomyAssumption, TreeInv, NEW e \in Client, NEW a \in Article, NEW S \in SUBSET Term, Tags!FindTerms(e, a, S)
    PROVE  TreeInv' /\ Tags!TreeStep
<1> DEFINE r == [Tags!NoTask EXCEPT !.kind = "replace", !.a = a, !.terms = S]
<1>1. /\ task[e].kind = "none" /\ S \subseteq Tags!Live /\ term' = term /\ assigned' = assigned
      /\ task' = [task EXCEPT ![e] = r] /\ changed' = changed \ {e}
  BY DEF Tags!FindTerms, Tags!Begin, Tags!Check
<1>2. r \in Task /\ r.kind = "replace" /\ r.a = a /\ r.terms = S
  BY DEF Tags!NoTask, Task
<1> HIDE DEF r
<1>3. Checked(r)
  BY <1>1, <1>2 DEF Checked
<1>4. TreeInv'
  BY <1>1, <1>2, <1>3, FindingStep
<1>5. Tags!Replaces
  BY <1>1, <1>2, ChecksReplaceNothing
<1> QED BY <1>1, <1>4, <1>5, StillStep

LEMMA ClearStep ==
    ASSUME Tags!TaxonomyAssumption, TreeInv, NEW e \in Client, Tags!ClearOut(e)
    PROVE  TreeInv' /\ Tags!TreeStep
<1> DEFINE r == [task[e] EXCEPT !.kind = "insert", !.cleared = Tags!Seen(task[e].a)]
<1>1. /\ task[e].kind = "replace" /\ term' = term /\ assigned' = assigned /\ changed' = changed
      /\ task[e] \in Task /\ task[e].a \in Article
      /\ e \notin changed => Checked(task[e])
  BY DEF Tags!ClearOut, TreeInv, TreeRows, ChecksHold
<1>2. task' = [task EXCEPT ![e] = r]
  BY DEF Tags!ClearOut
<1>3. assigned[task[e].a] \in SUBSET (Term \X Client)
  BY <1>1 DEF TreeInv, TreeRows
<1>4. /\ r \in Task /\ r.kind = "insert" /\ r.a = task[e].a /\ r.terms = task[e].terms
      /\ r.cleared = assigned[r.a]
  BY <1>1, <1>3 DEF Task, Tags!Seen
<1> HIDE DEF r
<1>5. e \notin changed => Checked(r)
  BY <1>1, <1>4 DEF Checked
<1>6. TreeInv'
  BY <1>1, <1>2, <1>4, <1>5, FindingStep
<1>7. Tags!Replaces
  BY <1>2, <1>4, ChecksReplaceNothing
<1> QED BY <1>1, <1>6, <1>7, StillStep

LEMMA TermWriteStep ==
    ASSUME Tags!TaxonomyAssumption, TreeInv, NEW e \in Client, Tags!WriteTerm(e)
    PROVE  TreeInv' /\ Tags!TreeStep
<1> DEFINE t == task[e].t
           p == task[e].parent
           fits == p \in Tags!Rows \cup {Root} /\ IF task[e].kind = "create" THEN Tags!SlugFree(t) ELSE term[t].phase = "live"
<1>1. /\ task[e].kind \in {"create", "move"} /\ t \in Term /\ p \in Term \cup {Root}
      /\ Tags!Done(e, fits) /\ assigned' = assigned
      /\ term' = IF fits THEN [term EXCEPT ![t] = [phase |-> "live", parent |-> p]] ELSE term
  BY DEF Tags!WriteTerm, TreeInv, TreeRows, Task
<1>2. fits \in BOOLEAN /\ (fits => p \in Tags!Rows \cup {Root})
  BY DEF Tags!SlugFree
<1>3. /\ task[e].kind = "create" => term[t].phase = "none"
      /\ task[e].kind = "move" /\ fits => term[t].phase = "live"
      /\ e \notin changed => Tags!MayBeUnder(t, p)
  BY <1>1 DEF TreeInv, ChecksHold, Checked
<1>4. Tags!Wrote(e)
  BY <1>1 DEF Tags!Done, Tags!Wrote, Tags!NoTask, TreeInv, TreeRows
<1> HIDE DEF fits, t, p
<1>5. /\ term \in [Term -> TermRow] /\ assigned \in [Article -> SUBSET (Term \X Client)]
      /\ \A u \in Term : term[u].parent \in Term \cup {Root} /\ term[u].phase \in {"none", "live", "trash"}
  BY DEF TreeInv, TreeRows, TermRow
<1>6. \A u \in Term : term'[u] = IF fits /\ u = t THEN [phase |-> "live", parent |-> p] ELSE term[u]
  BY <1>1, <1>5
<1>7. term' \in [Term -> TermRow] /\ assigned' \in [Article -> SUBSET (Term \X Client)]
  BY <1>1, <1>5 DEF TermRow
<1>8. Tags!Refers'
  <2>1. \A u \in Tags!Rows : u \in Term /\ term'[u].phase # "none"
    BY <1>6 DEF Tags!Rows
  <2>2. \A u \in Term : term'[u].phase # "none" => term'[u].parent = Root \/ term'[term'[u].parent].phase # "none"
    BY <1>1, <1>2, <1>5, <1>6, <2>1 DEF TreeInv, Tags!Refers, Tags!Rows
  <2> QED BY <1>1, <1>5, <1>6, <2>1, <2>2 DEF TreeInv, Tags!Refers, Tags!Rows
<1>9. TreeInv'
  <2>1. \A u \in Term : term[u].phase = "none" /\ term'[u].phase # "none" => task[e].kind = "create" /\ u = task[e].t
    BY <1>1, <1>3, <1>6 DEF t
  <2>2. \A d \in Client : task[d].kind = "trash" => task[d].t \in Term /\ term[task[d].t].phase = "live"
    BY DEF TreeInv, TreeRows, ChecksHold
  <2>3. \A d \in Client \ {e} : task[d].kind = "trash" => term'[task[d].t].phase = "live"
    BY <1>6, <2>2
  <2> QED BY <1>1, <1>2, <1>7, <1>8, <2>1, <2>3, DoneStep
<1>10. Tags!ClosesNoCycle
  <2>1. CASE ~fits
    BY <1>6, <2>1, RootsCloseNoCycle DEF TreeInv
  <2>2. CASE fits /\ e \in changed
    BY <1>4, <2>2 DEF Tags!ClosesNoCycle
  <2>3. CASE fits /\ p = Root
    BY <1>6, <2>3, RootsCloseNoCycle DEF TreeInv
  <2>4. CASE fits /\ e \notin changed /\ p # Root
    <3>1. p \in Term /\ p # t /\ t \notin Tags!Above(p)
      BY <1>1, <1>3, <2>4 DEF Tags!MayBeUnder
    <3>2. term'[t].parent = p /\ \A u \in Term \ {t} : term'[u].parent = term[u].parent
      BY <1>1, <1>6, <2>4
    <3> QED BY <1>1, <3>1, <3>2, MoveClosesNoCycle DEF TreeInv
  <2> QED BY <2>1, <2>2, <2>3, <2>4
<1>11. Tags!StaysAttached
  <2> SUFFICES ASSUME NEW u \in Tags!Live, term[u].parent \in Tags!Live \cup {Root}, term'[u].phase = "live", e \notin changed
               PROVE  term'[u].parent = Root \/ term'[term'[u].parent].phase = "live"
    BY <1>4 DEF Tags!StaysAttached
  <2>1. \A v \in Tags!Live : v \in Term /\ term'[v].phase = "live"
    BY <1>6 DEF Tags!Live
  <2>2. p \in Tags!Live \cup {Root}
    BY <1>3 DEF Tags!MayBeUnder
  <2> QED BY <1>6, <2>1, <2>2
<1>12. Tags!Replaces
  <2>1. \A d \in Client : Tags!Wrote(d) => d = e
    BY <1>1 DEF Tags!Done, Tags!Wrote, TreeInv, TreeRows
  <2> QED BY <1>1, <2>1 DEF Tags!Replaces
<1> QED BY <1>8, <1>9, <1>10, <1>11, <1>12 DEF Tags!TreeStep

LEMMA InsertStep ==
    ASSUME Tags!TaxonomyAssumption, TreeInv, NEW e \in Client, Tags!InsertAll(e)
    PROVE  TreeInv' /\ Tags!TreeStep
<1> DEFINE r == task[e]
           stay == assigned[r.a] \ r.cleared
           fits == r.terms \subseteq Tags!Rows /\ {x[1] : x \in stay} \cap r.terms = {}
           more == r.terms \X {e}
<1>1. /\ r.kind = "insert" /\ r.a \in Article /\ r.terms \subseteq Term
      /\ Tags!Done(e, fits) /\ term' = term
      /\ assigned' = IF fits THEN [assigned EXCEPT ![r.a] = stay \cup more] ELSE assigned
  BY DEF Tags!InsertAll, TreeInv, TreeRows, Task
<1>2. stay \subseteq assigned[r.a] /\ fits \in BOOLEAN /\ (fits => r.terms \subseteq Tags!Rows)
  OBVIOUS
<1>3. e \notin changed => fits /\ stay = {}
  BY <1>1 DEF TreeInv, ChecksHold, Checked, Tags!Live, Tags!Rows
<1>4. \A x \in more : x[1] \in r.terms /\ x \in Term \X Client
  BY <1>1
<1>5. {x[1] : x \in more} = r.terms
  <2>1. ASSUME NEW t \in r.terms PROVE \E x \in more : x[1] = t
    <3>1. <<t, e>> \in more /\ <<t, e>>[1] = t
      OBVIOUS
    <3> QED BY <3>1
  <2> QED BY <1>4, <2>1
<1> HIDE DEF fits, r, stay, more
<1>6. /\ term \in [Term -> TermRow] /\ assigned \in [Article -> SUBSET (Term \X Client)]
  BY DEF TreeInv, TreeRows
<1>7. \A a \in Article : assigned'[a] = IF fits /\ a = r.a THEN stay \cup more ELSE assigned[a]
  BY <1>1, <1>6
<1>8. assigned' \in [Article -> SUBSET (Term \X Client)]
  <2>1. stay \cup more \in SUBSET (Term \X Client)
    BY <1>1, <1>2, <1>4, <1>6
  <2> QED BY <1>1, <1>6, <2>1
<1>9. Tags!Refers'
  BY <1>1, <1>2, <1>4, <1>7 DEF TreeInv, Tags!Refers, Tags!Rows
<1>10. TreeInv'
  <2>1. \A d \in Client \ {e} : task[d].kind = "trash" => term'[task[d].t].phase = "live"
    BY <1>1 DEF TreeInv, ChecksHold
  <2> QED BY <1>1, <1>2, <1>6, <1>8, <1>9, <2>1, DoneStep
<1>11. Tags!ClosesNoCycle /\ Tags!StaysAttached
  <2>1. Tags!ClosesNoCycle
    BY <1>1, RootsCloseNoCycle DEF TreeInv
  <2> QED BY <1>1, <2>1 DEF Tags!StaysAttached, Tags!Live
<1>12. Tags!Replaces
  <2>1. \A d \in Client : Tags!Wrote(d) => d = e
    BY <1>1 DEF Tags!Done, Tags!Wrote, TreeInv, TreeRows, r
  <2>2. e \notin changed => assigned'[r.a] = more
    BY <1>1, <1>3, <1>7
  <2>3. ASSUME NEW X, X = more PROVE {x[1] : x \in X} = r.terms
    BY <1>5, <2>3
  <2> QED BY <2>1, <2>2, <2>3 DEF Tags!Replaces, r
<1> QED BY <1>9, <1>10, <1>11, <1>12 DEF Tags!TreeStep

(* Into the trash, out of it, and for good.                                *)
LEMMA DeleteStep ==
    ASSUME Tags!TaxonomyAssumption, TreeInv, NEW e \in Client, NEW t \in Term, Tags!Delete(e, t)
    PROVE  TreeInv' /\ Tags!TreeStep
<1> DEFINE r == [Tags!NoTask EXCEPT !.kind = "trash", !.t = t, !.terms = Tags!Children(t)]
<1>1. /\ task[e].kind = "none" /\ t \in Tags!Live /\ term' = term /\ assigned' = assigned
      /\ task' = [task EXCEPT ![e] = r] /\ changed' = changed \ {e}
      /\ t \notin Tags!Held(e)
  BY DEF Tags!Delete, Tags!Begin, Tags!Check
<1>2. r \in Task /\ r.kind = "trash" /\ r.t = t /\ r.terms = Tags!Children(t)
  BY DEF Tags!NoTask, Task, Tags!Children, Tags!Live
<1> HIDE DEF r
<1>3. Checked(r)
  BY <1>2 DEF Checked
<1>4. term[t].phase = "live" /\ \A d \in Client \ {e} : task[d].kind = "trash" => task[d].t # t
  BY <1>1 DEF Tags!Live, Tags!Held
<1>5. TreeInv'
  BY <1>1, <1>2, <1>3, <1>4, FindingStep
<1>6. Tags!Replaces
  BY <1>1, <1>2, ChecksReplaceNothing
<1> QED BY <1>1, <1>5, <1>6, StillStep

LEMMA TrashStep ==
    ASSUME Tags!TaxonomyAssumption, TreeInv, NEW e \in Client, NEW t \in Term,
           (Tags!Unassign(e) /\ t = task[e].t) \/ Tags!Restore(e, t) \/ Tags!Purge(e, t)
    PROVE  TreeInv' /\ Tags!TreeStep
<1> DEFINE D == Tags!Unassign(e) /\ t = task[e].t
<1>1. task[e].kind \in {"none", "trash"} /\ Tags!Done(e, TRUE)
  BY DEF Tags!Unassign, Tags!Restore, Tags!Purge, Tags!Begin
<1>2. D \/ Tags!Restore(e, t) \/ Tags!Purge(e, t)
  OBVIOUS
<1>d. ASSUME D
      PROVE  /\ term' = [u \in Term |-> IF u = t THEN [term[u] EXCEPT !.phase = "trash"]
                                         ELSE IF u \in task[e].terms THEN [term[u] EXCEPT !.parent = Root]
                                         ELSE term[u]]
             /\ assigned' = [a \in Article |-> {x \in assigned[a] : x[1] # t}]
             /\ term[t].phase = "live" /\ task[e].kind = "trash"
             /\ e \notin changed => task[e].terms = Tags!Children(t)
  BY <1>d DEF Tags!Unassign, TreeInv, ChecksHold, Checked
<1> HIDE DEF D
<1>3. /\ term \in [Term -> TermRow] /\ assigned \in [Article -> SUBSET (Term \X Client)]
      /\ \A u \in Term : term[u].parent \in Term \cup {Root} /\ term[u].phase \in {"none", "live", "trash"}
  BY DEF TreeInv, TreeRows, TermRow
<1>e. ASSUME D, NEW u \in Term
      PROVE  /\ term'[u].phase = IF u = t THEN "trash" ELSE term[u].phase
             /\ term'[u].parent = IF u # t /\ u \in task[e].terms THEN Root ELSE term[u].parent
  BY <1>3, <1>d, <1>e DEF TermRow
<1>4. term' \in [Term -> TermRow]
  <2>1. CASE D
    <3>1. \A u \in Term : [term[u] EXCEPT !.phase = "trash"] \in TermRow /\ [term[u] EXCEPT !.parent = Root] \in TermRow
      BY <1>3 DEF TermRow
    <3> QED BY <1>3, <2>1, <3>1, <1>d
  <2>2. CASE Tags!Restore(e, t)
    <3>1. [term[t] EXCEPT !.phase = "live"] \in TermRow
      BY <1>3 DEF TermRow
    <3> QED BY <1>3, <2>2, <3>1 DEF Tags!Restore
  <2>3. CASE Tags!Purge(e, t)
    BY <1>3, <2>3 DEF Tags!Purge, TermRow
  <2> QED BY <1>2, <2>1, <2>2, <2>3
<1>5. assigned' \in [Article -> SUBSET (Term \X Client)] /\ \A a \in Article : assigned'[a] \subseteq assigned[a]
  BY <1>2, <1>3, <1>d DEF Tags!Restore, Tags!Purge
<1>6. \A u \in Term : /\ term'[u].parent \in {term[u].parent, Root}
                       /\ ~(term[u].phase = "none" /\ term'[u].phase # "none")
  <2>1. CASE D
    BY <1>3, <2>1, <1>d, <1>e
  <2>2. CASE Tags!Restore(e, t)
    BY <1>3, <2>2 DEF Tags!Restore
  <2>3. CASE Tags!Purge(e, t)
    BY <1>3, <2>3 DEF Tags!Purge
  <2> QED BY <1>2, <2>1, <2>2, <2>3
<1>7. /\ \A u \in Term : term'[u].parent \in {term[u].parent, Root}
      /\ \A u \in Term : ~(term[u].phase = "none" /\ term'[u].phase # "none")
  BY <1>6
<1>8. Tags!Refers'
  <2>1. CASE Tags!Purge(e, t)
    <3>1. \A u \in Term : term'[u] = IF u = t THEN [phase |-> "none", parent |-> Root] ELSE term[u]
      BY <1>3, <2>1 DEF Tags!Purge
    <3>2. \A a \in Article : \A x \in assigned'[a] : x \in assigned[a] /\ x[1] # t
      BY <2>1 DEF Tags!Purge
    <3>3. \A u \in Tags!Rows : term[u].parent # t
      BY <2>1 DEF Tags!Purge
    <3> QED BY <3>1, <3>2, <3>3 DEF TreeInv, Tags!Refers, Tags!Rows
  <2>2. CASE D \/ Tags!Restore(e, t)
    <3>1. \A u \in Term : term'[u].phase = "none" <=> term[u].phase = "none"
      <4>1. CASE D
        BY <1>3, <4>1, <1>d, <1>e
      <4>2. CASE Tags!Restore(e, t)
        BY <1>3, <4>2 DEF Tags!Restore
      <4> QED BY <2>2, <4>1, <4>2
    <3>2. Tags!Rows' = Tags!Rows
      BY <3>1 DEF Tags!Rows
    <3>3. /\ \A a \in Article : \A x \in assigned[a] : x[1] \in Tags!Rows
          /\ \A u \in Tags!Rows : u \in Term /\ term[u].parent \in Tags!Rows \cup {Root}
      BY DEF TreeInv, Tags!Refers, Tags!Rows
    <3>4. /\ \A a \in Article : \A x \in assigned'[a] : x[1] \in Tags!Rows
          /\ \A u \in Tags!Rows : term'[u].parent \in Tags!Rows \cup {Root}
      BY <1>5, <1>6, <3>3
    <3> QED BY <3>2, <3>4 DEF Tags!Refers
  <2> QED BY <1>2, <2>1, <2>2
<1>9. TreeInv'
  <2>1. ASSUME NEW d \in Client \ {e}, task[d].kind = "trash" PROVE term'[task[d].t].phase = "live"
    <3> DEFINE x == task[d].t
    <3>1. /\ x \in Term /\ term[x].phase = "live"
          /\ task[e].kind = "trash" => x # task[e].t
      BY <2>1 DEF TreeInv, TreeRows, ChecksHold
    <3> HIDE DEF x
    <3>2. CASE D
      <4>1. x # t
        BY <3>1, <3>2, <1>d DEF D
      <4> QED BY <3>1, <3>2, <4>1, <1>e DEF x
    <3>3. CASE Tags!Restore(e, t) \/ Tags!Purge(e, t)
      <4>1. term[t].phase = "trash" /\ \A u \in Term \ {t} : term'[u] = term[u]
        BY <1>3, <3>3 DEF Tags!Restore, Tags!Purge
      <4> QED BY <3>1, <4>1 DEF x
    <3> QED BY <1>2, <3>2, <3>3 DEF x
  <2> QED BY <1>1, <1>7, <1>4, <1>5, <1>8, <2>1, DoneStep
<1>10. Tags!ClosesNoCycle
  BY <1>7, RootsCloseNoCycle DEF TreeInv
<1>11. Tags!StaysAttached
  <2> SUFFICES ASSUME NEW u \in Tags!Live, term[u].parent \in Tags!Live \cup {Root}, term'[u].phase = "live",
                      ~(D /\ e \in changed)
               PROVE  term'[u].parent = Root \/ term'[term'[u].parent].phase = "live"
    <3>1. D => Tags!Wrote(e)
      BY <1>1, <1>d DEF Tags!Wrote, Tags!Done, Tags!NoTask, TreeInv, TreeRows
    <3> QED BY <3>1 DEF Tags!StaysAttached
  <2>1. CASE D
    <3>1. u \in Term /\ term[u].phase = "live" /\ u # t
      BY <1>e, <2>1 DEF Tags!Live
    <3>0. u \in task[e].terms <=> term[u].parent = t
      BY <1>d, <2>1 DEF Tags!Children
    <3>2. CASE term[u].parent = t
      BY <1>e, <2>1, <3>0, <3>1, <3>2
    <3>3. CASE term[u].parent # t
      <4>1. term'[u].parent = term[u].parent
        BY <1>e, <2>1, <3>0, <3>1, <3>3
      <4>2. \A v \in Tags!Live : v # t => term'[v].phase = "live"
        BY <1>e, <2>1 DEF Tags!Live
      <4> QED BY <3>3, <4>1, <4>2
    <3> QED BY <3>2, <3>3
  <2>2. CASE Tags!Restore(e, t)
    BY <1>3, <2>2 DEF Tags!Restore, Tags!Live
  <2>3. CASE Tags!Purge(e, t)
    BY <1>3, <2>3 DEF Tags!Purge, Tags!Live
  <2> QED BY <1>2, <2>1, <2>2, <2>3
<1>12. Tags!Replaces
  BY <1>1 DEF Tags!Replaces, Tags!Wrote, Tags!Done, TreeInv, TreeRows
<1> QED BY <1>8, <1>9, <1>10, <1>11, <1>12 DEF Tags!TreeStep

(* Every step of the part.                                                 *)
LEMMA TreeInvStep ==
    ASSUME Tags!TaxonomyAssumption, TreeInv, [Tags!Next]_(Tags!vars)
    PROVE  TreeInv' /\ [Tags!TreeStep]_(Tags!vars)
<1>1. CASE Tags!Next
  <2>1. PICK e \in Client :
        \/ \E t \in Term : \/ \E p \in Term \cup {Root} : Tags!Create(e, t, p) \/ Tags!Update(e, t, p)
                           \/ Tags!Delete(e, t) \/ Tags!Restore(e, t) \/ Tags!Purge(e, t)
        \/ \E a \in Article, S \in SUBSET Term : Tags!FindTerms(e, a, S)
        \/ Tags!WriteTerm(e) \/ Tags!Unassign(e) \/ Tags!ClearOut(e) \/ Tags!InsertAll(e)
    BY <1>1 DEF Tags!Next
  <2>2. Tags!Unassign(e) => task[e].t \in Term
    BY DEF Tags!Unassign, TreeInv, TreeRows
  <2> QED BY <2>1, <2>2, CreateStep, DeleteStep, TrashStep, FindStep, TermWriteStep, ClearStep, InsertStep
<1>2. CASE UNCHANGED Tags!vars
  <2>1. term' = term /\ assigned' = assigned /\ task' = task /\ changed' = changed
    BY <1>2 DEF Tags!vars
  <2>2. ASSUME NEW d \in Client, d \notin changed' PROVE Checked(task[d])'
    <3>1. Checked(task[d])
      BY <2>1, <2>2 DEF TreeInv, ChecksHold
    <3>2. ASSUME NEW x, Checked(x), task'[d] = x PROVE Checked(task[d])'
      <4>1. Checked(x)'
        BY <2>1, <3>2, CheckedStays
      <4> QED BY <4>1, <3>2 DEF Checked
    <3> QED BY <2>1, <3>1, <3>2
  <2> QED BY <1>2, <2>1, <2>2 DEF TreeInv, TreeRows, ChecksHold, Tags!Refers, Tags!Rows
<1> QED BY <1>1, <1>2

LEMMA TermsMove ==
    ASSUME [SiteNext]_site, Is("terms") PROVE Is("terms")' /\ [Tags!Next]_(Tags!vars)
<1>1. part = "terms" /\ part' = part
  BY PartStays DEF Is
<1>2. CASE SiteNext
  <2>1. Tags!Next \/ UNCHANGED terms
    BY <1>1, <1>2 DEF SiteNext, Is, Others
  <2> QED BY <1>1, <2>1 DEF Is, terms, Tags!vars
<1>3. CASE UNCHANGED site
  BY <1>1, <1>3 DEF Is, site, terms, Tags!vars
<1> QED BY <1>2, <1>3

(* The tree of terms gets no cycle and nothing comes under the trash, an   *)
(* entry gets the terms that were asked for, unless another change commits *)
(* between a request's checks and its write; no row refers to a purged one.*)
THEOREM TreeIsKept == SiteSpec => TreeHolds
<1> DEFINE I == Is("terms") => TreeInv
<1>0. Tags!TaxonomyAssumption
  BY SiteAssumption
<1>1. SiteInit => I
  BY <1>0, TreeInvInit DEF SiteInit, Is
<1>2. I /\ [SiteNext]_site =>
         I' /\ [Is("terms") => Tags!TreeStep]_terms
  <2> SUFFICES ASSUME I, [SiteNext]_site
               PROVE  I' /\ [Is("terms") => Tags!TreeStep]_terms
    OBVIOUS
  <2>1. CASE Is("terms")
    <3>1. Is("terms")' /\ [Tags!Next]_(Tags!vars)
      BY <2>1, TermsMove
    <3>2. TreeInv' /\ (Tags!TreeStep \/ UNCHANGED Tags!vars)
      BY <1>0, <2>1, <3>1, TreeInvStep
    <3>3. UNCHANGED Tags!vars => UNCHANGED terms
      BY DEF Tags!vars, terms
    <3> QED BY <3>2, <3>3
  <2>2. CASE ~Is("terms")
    BY <2>2, PartStays DEF Is
  <2> QED BY <2>1, <2>2
<1> HIDE DEF I
<1> QED BY <1>1, <1>2, PTL DEF SiteSpec, TreeHolds

-----------------------------------------------------------------------------
LEMMA Tallies == ASSUME NEW S PROVE Tongues!Cardinality(S) = Cardinality(S)
BY DEF Tongues!Cardinality, Cardinality

Sender == {Tongues!MailSender(s) : s \in Senders} \cup {Tongues!NoSender}
Pair   == {w \in Windows : Tongues!AnalyticsPolicy(w)}
          \cup {[raw |-> Standard.raw, aggregate |-> Standard.aggregate]}

SettingsRow == [title : Title, url : Url \cup {Null}, address : {s.address : s \in Senders} \cup {Null},
        name : {s.name : s \in Sender}, raw : 1 .. MaxDays, aggregate : 1 .. MaxDays,
        trash : 1 .. MaxDays]

(* What the row says was given as a whole.                                 *)
Whole(mine) ==
    /\ mine \in SettingsRow
    /\ \E s \in Sender : mine.address = s.address /\ mine.name = s.name
    /\ \E w \in Pair : mine.raw = w.raw /\ mine.aggregate = w.aggregate

RowInv == Whole(settings)

(* A site that is set up has one default; who is between the reads of a    *)
(* lookup has read the default there is, or it was changed since.          *)
LanguageInv ==
    /\ sites \in {"none", "set"}
    /\ language \in [Tag -> {"none", "plain", "default"}]
    /\ lookup \in [Visitor -> [phase : {"idle", "reading", "answered"}, candidates : SUBSET Tag]]
    /\ sites = "none" => \A t \in Tag : language[t] = "none"
    /\ sites = "set" => \E t \in Tag : Tongues!Default = {t}
    /\ \A v \in Visitor : v \notin shifted =>
          /\ lookup[v].phase = "reading" => sites = "set" /\ Tongues!Default \subseteq lookup[v].candidates
          /\ lookup[v].phase = "answered" => lookup[v].candidates # {}

SettingsInv == RowInv /\ LanguageInv

LEMMA SenderFacts ==
    ASSUME Tongues!SettingsAssumption, NEW s \in Sender
    PROVE  /\ s \in [address : {r.address : r \in Senders} \cup {Null}, name : {s.name}]
           /\ s.name # Blank /\ s.name \in {r.name : r \in Sender}
           /\ s.address = Null => s.name = Null
<1>1. CASE s = Tongues!NoSender
  BY <1>1 DEF Tongues!NoSender, Tongues!SettingsAssumption, Sender
<1>2. ASSUME NEW r \in Senders, s = Tongues!MailSender(r)
      PROVE  /\ s \in [address : {s.address}, name : {s.name}] /\ s.address = r.address
             /\ s.name # Blank
  BY <1>2 DEF Tongues!SettingsAssumption, Tongues!MailSender
<1> QED BY <1>1, <1>2 DEF Sender, Tongues!SettingsAssumption

LEMMA PairFacts ==
    ASSUME Tongues!SettingsAssumption, NEW w \in Pair
    PROVE  /\ w \in [raw : 1 .. MaxDays, aggregate : 1 .. MaxDays]
BY DEF Tongues!SettingsAssumption, Pair, Tongues!AnalyticsPolicy

LEMMA FreshFits == ASSUME Tongues!SettingsAssumption, NEW title \in Title PROVE Whole(Tongues!Fresh(title))
<1> DEFINE mine == Tongues!Fresh(title)
           w == [raw |-> Standard.raw, aggregate |-> Standard.aggregate]
<1>1. mine = [title |-> title, url |-> Null, address |-> Tongues!NoSender.address, name |-> Tongues!NoSender.name,
             raw |-> Standard.raw, aggregate |-> Standard.aggregate, trash |-> Standard.trash]
  BY DEF Tongues!Fresh, Tongues!NoSender
<1>2. Tongues!NoSender \in Sender
  BY DEF Sender
<1>3. w \in Pair /\ w.raw = Standard.raw /\ w.aggregate = Standard.aggregate
  BY DEF Pair
<1> HIDE DEF w, mine
<1>4. mine \in SettingsRow
  BY <1>1, <1>2, SenderFacts DEF SettingsRow, Tongues!SettingsAssumption, Tongues!NoSender
<1>5. Whole(mine)
  BY <1>1, <1>2, <1>3, <1>4 DEF Whole
<1> QED BY <1>5 DEF mine

LEMMA SettingsInvInit == ASSUME Tongues!SettingsAssumption, Tongues!Init PROVE SettingsInv
<1>1. (CHOOSE t \in Title : TRUE) \in Title
  BY DEF Tongues!SettingsAssumption
<1>2. RowInv
  BY <1>1, FreshFits DEF Tongues!Init, RowInv
<1>3. LanguageInv
  BY DEF Tongues!Init, LanguageInv, Tongues!Asleep
<1> QED BY <1>2, <1>3 DEF SettingsInv

LEMMA SettingsInvHolds ==
    ASSUME Tongues!SettingsAssumption, SettingsInv PROVE Tongues!LanguagesHold /\ Tongues!SettingsAreRead
<1>1. Tongues!LanguagesHold
  <2>1. ASSUME sites = "set" PROVE Cardinality(Tongues!Default) = 1
    BY <2>1, FS_Singleton, Tallies DEF SettingsInv, LanguageInv
  <2> QED BY <2>1, Tallies DEF SettingsInv, LanguageInv, Tongues!LanguagesHold
<1>2. PICK s \in Sender : settings.address = s.address /\ settings.name = s.name
  BY DEF SettingsInv, RowInv, Whole
<1>3. PICK w \in Pair : settings.raw = w.raw /\ settings.aggregate = w.aggregate
  BY DEF SettingsInv, RowInv, Whole
<1>4. [address |-> settings.address, name |-> settings.name] = s
  BY <1>2, SenderFacts
<1>5. [raw |-> settings.raw, aggregate |-> settings.aggregate] = w
  BY <1>3, PairFacts
<1> DEFINE r == [sender |-> [address |-> settings.address, name |-> settings.name],
                 window |-> [raw |-> settings.raw, aggregate |-> settings.aggregate],
                 trash |-> settings.trash]
<1>6. r.sender = s /\ r.window = w
  BY <1>4, <1>5
<1>7. ASSUME sites = "set" PROVE r \in Tongues!GetSettings /\ r.window = Tongues!AnalyticsRetention
  <2>1. s.address = Null => s.name = Null
    BY SenderFacts
  <2>2. r \in Tongues!SettingsFromRow
    BY <1>2, <2>1 DEF Tongues!SettingsFromRow
  <2>3. Tongues!AnalyticsRetention = [raw |-> settings.raw, aggregate |-> settings.aggregate]
    BY <1>7 DEF Tongues!AnalyticsRetention, Tongues!Or
  <2> QED BY <1>5, <1>6, <1>7, <2>2, <2>3 DEF Tongues!GetSettings
<1> HIDE DEF r
<1>8. Tongues!AnalyticsRetention \in Pair
  <2>1. CASE sites = "none"
    BY <2>1 DEF Tongues!AnalyticsRetention, Tongues!Or, Pair
  <2>2. CASE sites = "set"
    BY <1>5, <2>2 DEF Tongues!AnalyticsRetention, Tongues!Or
  <2> QED BY <2>1, <2>2 DEF SettingsInv, LanguageInv
<1>9. Tongues!TrashPolicy(Tongues!TrashRetention)
  BY DEF Tongues!TrashPolicy, Tongues!TrashRetention, Tongues!Or, SettingsInv, LanguageInv, RowInv, Whole, SettingsRow, Tongues!SettingsAssumption
<1> QED BY <1>1, <1>6, <1>7, <1>8, <1>9 DEF Tongues!SettingsAreRead, Sender, Pair

LEMMA PatchStep ==
    ASSUME Tongues!SettingsAssumption, RowInv, NEW p \in Tongues!Patches, Tongues!UpdateSettings(p) PROVE RowInv'
<1> DEFINE sender == Tongues!MailSender(Tongues!Coalesce(p.sender, settings))
           window == Tongues!Coalesce(p.analytics, settings)
           title == Tongues!Coalesce(p.title, settings.title)
           url == Tongues!Coalesce(p.url, settings.url)
           bin == Tongues!Coalesce(p.trash, settings.trash)
<1>0. settings \in SettingsRow /\ sites' = sites /\ Null # Blank
  BY DEF RowInv, Whole, Tongues!UpdateSettings, Tongues!SettingsAssumption
<1>1. \E s \in Sender : sender.address = s.address /\ sender.name = s.name
  <2>1. PICK s \in Sender : settings.address = s.address /\ settings.name = s.name
    BY DEF RowInv, Whole
  <2>2. s.name # Blank
    BY SenderFacts
  <2>3. CASE p.sender = {}
    <3>1. Tongues!Coalesce(p.sender, settings) = settings
      BY <2>3 DEF Tongues!Coalesce
    <3>2. sender.address = settings.address /\ sender.name = settings.name
      BY <1>0, <2>1, <2>2, <3>1 DEF Tongues!MailSender, SettingsRow
    <3> QED BY <2>1, <3>2
  <2>4. CASE p.sender # {}
    <3>1. PICK r \in Senders \cup {Tongues!NoSender} : p.sender = {r}
      BY <2>4 DEF Tongues!Patches
    <3>2. Tongues!Coalesce(p.sender, settings) = r
      BY <3>1 DEF Tongues!Coalesce
    <3>3. CASE r \in Senders
      BY <3>2, <3>3 DEF Sender
    <3>4. CASE r = Tongues!NoSender
      <4>1. Tongues!MailSender(Tongues!NoSender).address = Tongues!NoSender.address /\ Tongues!MailSender(Tongues!NoSender).name = Tongues!NoSender.name
        BY <1>0 DEF Tongues!MailSender, Tongues!NoSender
      <4> QED BY <3>2, <3>4, <4>1 DEF Sender
    <3> QED BY <3>1, <3>3, <3>4
  <2> QED BY <2>3, <2>4
<1>2. \E w \in Pair : window.raw = w.raw /\ window.aggregate = w.aggregate
  <2>1. CASE p.analytics = {}
    BY <2>1 DEF Tongues!Coalesce, RowInv, Whole
  <2>2. CASE p.analytics # {}
    <3>1. PICK w \in Windows : p.analytics = {w}
      BY <2>2 DEF Tongues!Patches
    <3>2. window = w /\ Tongues!AnalyticsPolicy(w)
      BY <3>1 DEF Tongues!Coalesce, Tongues!UpdateSettings
    <3> QED BY <3>2 DEF Pair
  <2> QED BY <2>1, <2>2
<1>3. title \in Title /\ url \in Url \cup {Null} /\ bin \in 1 .. MaxDays
  <2>1. title \in Title
    BY <1>0 DEF Tongues!Patches, Tongues!Coalesce, SettingsRow
  <2>2. url \in Url \cup {Null}
    BY <1>0 DEF Tongues!Patches, Tongues!Coalesce, SettingsRow
  <2>3. bin \in 1 .. MaxDays
    BY <1>0 DEF Tongues!Patches, Tongues!Coalesce, SettingsRow, Tongues!UpdateSettings, Tongues!TrashPolicy
  <2> QED BY <2>1, <2>2, <2>3
<1>4. settings' = [settings EXCEPT !.title = title, !.url = url, !.address = sender.address,
                                   !.name = sender.name, !.raw = window.raw,
                                   !.aggregate = window.aggregate, !.trash = bin]
  BY DEF Tongues!UpdateSettings, Tongues!Patched
<1> HIDE DEF sender, window, title, url, bin
<1>5. /\ sender.address \in {s.address : s \in Senders} \cup {Null}
      /\ sender.name \in {s.name : s \in Sender}
      /\ window.raw \in 1 .. MaxDays /\ window.aggregate \in 1 .. MaxDays
  BY <1>1, <1>2, SenderFacts, PairFacts
<1>6. settings' \in SettingsRow
  BY <1>0, <1>3, <1>4, <1>5 DEF SettingsRow
<1>7. /\ settings'.address = sender.address /\ settings'.name = sender.name
      /\ settings'.raw = window.raw /\ settings'.aggregate = window.aggregate
  BY <1>0, <1>4 DEF SettingsRow
<1> QED BY <1>1, <1>2, <1>6, <1>7 DEF RowInv, Whole

(* A write of the languages has one default after it.                      *)
LEMMA WriteStep ==
    ASSUME LanguageInv, NEW rows \in [Tag -> {"none", "plain", "default"}], Tongues!Write(rows),
           NEW d \in Tag, {t \in Tag : rows[t] = "default"} = {d}
    PROVE  LanguageInv'
<1>1. /\ language' = rows /\ lookup' = lookup /\ sites = "set" /\ sites' = "set"
      /\ shifted \subseteq shifted' /\ Tongues!Default' = {d}
      /\ \A v \in Visitor : lookup[v].phase = "reading" /\ v \notin shifted' => \A t \in Tongues!Default : rows[t] = "default"
  BY DEF Tongues!Write, Tongues!Default
<1>2. \A v \in Visitor : lookup[v].phase = "reading" /\ v \notin shifted' => Tongues!Default' \subseteq lookup[v].candidates
  <2> SUFFICES ASSUME NEW v \in Visitor, lookup[v].phase = "reading", v \notin shifted'
               PROVE  Tongues!Default' \subseteq lookup[v].candidates
    OBVIOUS
  <2>1. PICK t \in Tag : Tongues!Default = {t}
    BY <1>1 DEF LanguageInv
  <2>2. rows[t] = "default"
    BY <1>1, <2>1
  <2>3. d = t
    BY <2>2
  <2> QED BY <1>1, <2>1, <2>3 DEF LanguageInv
<1> QED BY <1>1, <1>2 DEF LanguageInv

LEMMA WithHasOne ==
    ASSUME LanguageInv, NEW t \in Tag, NEW asked \in BOOLEAN,
           asked \/ (t \notin Tongues!Default /\ \E d \in Tag : Tongues!Default = {d})
    PROVE  /\ Tongues!With(t, asked) \in [Tag -> {"none", "plain", "default"}]
           /\ \E d \in Tag : {s \in Tag : Tongues!With(t, asked)[s] = "default"} = {d}
<1> USE DEF LanguageInv
<1>1. CASE asked
  <2>1. Tongues!With(t, asked) = [s \in Tag |-> IF s = t THEN "default"
                                        ELSE IF language[s] = "default" THEN "plain" ELSE language[s]]
    BY <1>1 DEF Tongues!With, Tongues!ClearDefault
  <2>2. {s \in Tag : Tongues!With(t, asked)[s] = "default"} = {t}
    BY <2>1
  <2> QED BY <2>1, <2>2
<1>2. CASE ~asked
  <2>1. Tongues!With(t, asked) = [language EXCEPT ![t] = "plain"]
    BY <1>2 DEF Tongues!With
  <2>2. {s \in Tag : Tongues!With(t, asked)[s] = "default"} = Tongues!Default
    BY <1>2, <2>1 DEF Tongues!Default
  <2> QED BY <1>2, <2>1, <2>2
<1> QED BY <1>1, <1>2

LEMMA LanguageStep ==
    ASSUME Tongues!SettingsAssumption, LanguageInv,
           \/ \E t \in Tag, asked \in BOOLEAN : Tongues!CreateLanguage(t, asked) \/ Tongues!UpdateLanguage(t, asked)
           \/ \E t \in Tag : Tongues!DeleteLanguage(t)
           \/ \E title \in Title, url \in Url \cup {Null}, tags \in SUBSET Tag, d \in Tag,
                 upsert \in BOOLEAN : Tongues!Import(title, url, tags, d, upsert)
    PROVE  LanguageInv'
<1>1. ASSUME NEW t \in Tag, NEW asked \in BOOLEAN, Tongues!CreateLanguage(t, asked) PROVE LanguageInv'
  <2> DEFINE made == asked \/ Tongues!Configured = {}
  <2>1. Tongues!Write(Tongues!With(t, made)) /\ language[t] = "none" /\ sites = "set"
    BY <1>1 DEF Tongues!CreateLanguage, Tongues!WriteLanguage, Tongues!Write
  <2>2. made \/ (t \notin Tongues!Default /\ \E d \in Tag : Tongues!Default = {d})
    BY <2>1 DEF LanguageInv, Tongues!Default
  <2>3. made \in BOOLEAN
    OBVIOUS
  <2> HIDE DEF made
  <2>4. /\ Tongues!With(t, made) \in [Tag -> {"none", "plain", "default"}]
        /\ \E d \in Tag : {s \in Tag : Tongues!With(t, made)[s] = "default"} = {d}
    BY <2>2, <2>3, WithHasOne
  <2> QED BY <2>1, <2>4, WriteStep
<1>2. ASSUME NEW t \in Tag, NEW asked \in BOOLEAN, Tongues!UpdateLanguage(t, asked) PROVE LanguageInv'
  <2>1. Tongues!Write(Tongues!With(t, asked)) /\ (t \in Tongues!Default => asked) /\ sites = "set"
    BY <1>2 DEF Tongues!UpdateLanguage, Tongues!WriteLanguage, Tongues!Write
  <2>2. asked \/ (t \notin Tongues!Default /\ \E d \in Tag : Tongues!Default = {d})
    BY <2>1 DEF LanguageInv
  <2>3. /\ Tongues!With(t, asked) \in [Tag -> {"none", "plain", "default"}]
        /\ \E d \in Tag : {s \in Tag : Tongues!With(t, asked)[s] = "default"} = {d}
    BY <2>2, WithHasOne
  <2> QED BY <2>1, <2>3, WriteStep
<1>3. ASSUME NEW t \in Tag, Tongues!DeleteLanguage(t) PROVE LanguageInv'
  <2> DEFINE rows == [language EXCEPT ![t] = "none"]
  <2>1. Tongues!Write(rows) /\ t \notin Tongues!Default /\ sites = "set"
    BY <1>3 DEF Tongues!DeleteLanguage, Tongues!Deletable, Tongues!WriteLanguage, Tongues!Write
  <2>2. PICK d \in Tag : Tongues!Default = {d}
    BY <2>1 DEF LanguageInv
  <2>3. rows \in [Tag -> {"none", "plain", "default"}] /\ {s \in Tag : rows[s] = "default"} = {d}
    BY <2>1, <2>2 DEF LanguageInv, Tongues!Default
  <2> HIDE DEF rows
  <2> QED BY <2>1, <2>3, WriteStep
<1>4. ASSUME NEW title \in Title, NEW url \in Url \cup {Null}, NEW tags \in SUBSET Tag, NEW d \in Tag,
             NEW upsert \in BOOLEAN, Tongues!Import(title, url, tags, d, upsert)
      PROVE  LanguageInv'
  <2> DEFINE rows == [t \in Tag |-> IF t = d THEN "default"
                                    ELSE IF t \in tags THEN "plain"
                                    ELSE Tongues!ClearDefault(language)[t]]
  <2>1. Tongues!Write(rows)
    BY <1>4 DEF Tongues!Import
  <2>2. Tongues!ClearDefault(language) \in [Tag -> {"none", "plain"}]
    BY DEF Tongues!ClearDefault, LanguageInv
  <2>3. rows \in [Tag -> {"none", "plain", "default"}] /\ {s \in Tag : rows[s] = "default"} = {d}
    BY <2>2
  <2> HIDE DEF rows
  <2> QED BY <2>1, <2>3, WriteStep
<1> QED BY <1>1, <1>2, <1>3, <1>4

LEMMA LookupStep ==
    ASSUME Tongues!SettingsAssumption, LanguageInv, NEW v \in Visitor,
           (\E asked \in SUBSET Tag : Tongues!ReadDefault(v, asked)) \/ Tongues!ReadConfigured(v) \/ Tongues!Leave(v)
    PROVE  LanguageInv'
<1> DEFINE Look == [phase : {"idle", "reading", "answered"}, candidates : SUBSET Tag]
<1>0. UNCHANGED <<sites, language>> /\ Tongues!Default' = Tongues!Default
  BY DEF Tongues!ReadDefault, Tongues!ReadConfigured, Tongues!Leave, Tongues!Default
<1>1. ASSUME NEW look \in Look, lookup' = [lookup EXCEPT ![v] = look],
             shifted \ {v} \subseteq shifted',
             v \notin shifted' =>
               /\ look.phase = "reading" => sites = "set" /\ Tongues!Default \subseteq look.candidates
               /\ look.phase = "answered" => look.candidates # {}
      PROVE  LanguageInv'
  BY <1>0, <1>1 DEF LanguageInv
<1>2. ASSUME NEW asked \in SUBSET Tag, Tongues!ReadDefault(v, asked) PROVE LanguageInv'
  <2> DEFINE found == Tongues!Default \cup UNION {{t, Bases[t]} : t \in asked}
             look == [phase |-> "reading", candidates |-> found]
  <2>1. found \in SUBSET Tag /\ Tongues!Default \subseteq found
    BY DEF Tongues!Default, Tongues!SettingsAssumption
  <2>2. lookup' = [lookup EXCEPT ![v] = look] /\ shifted' = shifted \ {v} /\ Tongues!Default # {}
    BY <1>2 DEF Tongues!ReadDefault
  <2> HIDE DEF found
  <2>3. look \in Look /\ look.phase = "reading" /\ look.candidates = found
    BY <2>1
  <2> HIDE DEF look, Look
  <2>4. sites = "none" => Tongues!Default = {}
    BY DEF LanguageInv, Tongues!Default
  <2>5. CASE sites = "set"
    BY <1>1, <2>1, <2>2, <2>3, <2>5
  <2> QED BY <2>2, <2>4, <2>5 DEF LanguageInv
<1>3. CASE Tongues!ReadConfigured(v)
  <2> DEFINE look == [phase |-> "answered", candidates |-> lookup[v].candidates \cap Tongues!Configured]
  <2>1. lookup' = [lookup EXCEPT ![v] = look] /\ shifted' = shifted /\ lookup[v].phase = "reading"
    BY <1>3 DEF Tongues!ReadConfigured
  <2>2. look \in Look /\ look.phase = "answered" /\ look.candidates = lookup[v].candidates \cap Tongues!Configured
    BY DEF Tongues!Configured
  <2>3. v \notin shifted => look.candidates # {}
    <3> SUFFICES ASSUME v \notin shifted PROVE look.candidates # {}
      OBVIOUS
    <3>1. Tongues!Default # {} /\ Tongues!Default \subseteq lookup[v].candidates
      BY <2>1 DEF LanguageInv
    <3>2. Tongues!Default \subseteq Tongues!Configured
      BY DEF Tongues!Default, Tongues!Configured
    <3> QED BY <2>2, <3>1, <3>2
  <2> HIDE DEF look, Look
  <2> QED BY <1>1, <2>1, <2>2, <2>3
<1>4. CASE Tongues!Leave(v)
  <2>1. lookup' = [lookup EXCEPT ![v] = Tongues!Asleep] /\ shifted' = shifted \ {v}
    BY <1>4 DEF Tongues!Leave
  <2>2. Tongues!Asleep \in Look /\ Tongues!Asleep.phase = "idle"
    BY DEF Tongues!Asleep
  <2> HIDE DEF Look
  <2> QED BY <1>1, <2>1, <2>2
<1> QED BY <1>2, <1>3, <1>4

LEMMA SettingsInvStep == ASSUME Tongues!SettingsAssumption, SettingsInv, [Tongues!Next]_(Tongues!vars) PROVE SettingsInv'
<1> USE DEF SettingsInv
<1>1. CASE Tongues!Initialize
  <2>1. LanguageInv'
    <3>1. /\ language' = [language EXCEPT ![English] = "default"] /\ sites' = "set" /\ sites = "none"
          /\ UNCHANGED <<lookup, shifted>> /\ English \in Tag
      BY <1>1 DEF Tongues!Initialize, Tongues!SettingsAssumption
    <3>2. Tongues!Default' = {English}
      BY <3>1 DEF LanguageInv, Tongues!Default
    <3> QED BY <3>1, <3>2 DEF LanguageInv
  <2>2. PICK title \in Title : settings' = Tongues!Fresh(title)
    BY <1>1 DEF Tongues!Initialize
  <2>3. RowInv'
    BY <2>2, FreshFits DEF RowInv
  <2> QED BY <2>1, <2>3
<1>2. ASSUME NEW p \in Tongues!Patches, Tongues!UpdateSettings(p) PROVE SettingsInv'
  <2>1. UNCHANGED <<sites, language, lookup, shifted>>
    BY <1>2 DEF Tongues!UpdateSettings
  <2> QED BY <1>2, <2>1, PatchStep DEF LanguageInv, Tongues!Default
<1>3. CASE \/ \E t \in Tag, asked \in BOOLEAN : Tongues!CreateLanguage(t, asked) \/ Tongues!UpdateLanguage(t, asked)
           \/ \E t \in Tag : Tongues!DeleteLanguage(t)
  <2>1. UNCHANGED <<sites, settings>>
    BY <1>3 DEF Tongues!CreateLanguage, Tongues!UpdateLanguage, Tongues!DeleteLanguage, Tongues!WriteLanguage, Tongues!Write
  <2> QED BY <1>3, <2>1, LanguageStep DEF RowInv
<1>4. CASE \E title \in Title, url \in Url \cup {Null}, tags \in SUBSET Tag, d \in Tag,
              upsert \in BOOLEAN : Tongues!Import(title, url, tags, d, upsert)
  <2>1. PICK title \in Title, url \in Url \cup {Null} :
               settings' = [settings EXCEPT !.title = title, !.url = url]
    BY <1>4 DEF Tongues!Import
  <2>2. RowInv'
    <3>1. settings \in SettingsRow
      BY DEF RowInv, Whole
    <3>2. /\ settings' \in SettingsRow
          /\ settings'.address = settings.address /\ settings'.name = settings.name
          /\ settings'.raw = settings.raw /\ settings'.aggregate = settings.aggregate
      BY <2>1, <3>1 DEF SettingsRow
    <3> QED BY <3>2 DEF RowInv, Whole
  <2> QED BY <1>4, <2>2, LanguageStep
<1>5. CASE \E v \in Visitor : \/ \E t \in Tag : Tongues!ReadDefault(v, {t})
                              \/ Tongues!ReadDefault(v, {}) \/ Tongues!ReadConfigured(v) \/ Tongues!Leave(v)
  <2>1. UNCHANGED <<sites, settings>>
    BY <1>5 DEF Tongues!ReadDefault, Tongues!ReadConfigured, Tongues!Leave
  <2>2. PICK v \in Visitor : (\E asked \in SUBSET Tag : Tongues!ReadDefault(v, asked)) \/ Tongues!ReadConfigured(v) \/ Tongues!Leave(v)
    <3>1. {} \in SUBSET Tag /\ \A t \in Tag : {t} \in SUBSET Tag
      OBVIOUS
    <3> QED BY <1>5, <3>1
  <2> QED BY <2>1, <2>2, LookupStep DEF RowInv
<1>6. CASE UNCHANGED Tongues!vars
  BY <1>6 DEF Tongues!vars, RowInv, LanguageInv, Tongues!Default
<1> QED BY <1>1, <1>2, <1>3, <1>4, <1>5, <1>6 DEF Tongues!Next

LEMMA LanguagesMove ==
    ASSUME [SiteNext]_site, Is("languages") PROVE Is("languages")' /\ [Tongues!Next]_(Tongues!vars)
<1>1. part = "languages" /\ part' = part
  BY PartStays DEF Is
<1>2. CASE SiteNext
  <2>1. Tongues!Next \/ UNCHANGED languages
    BY <1>1, <1>2 DEF SiteNext, Is, Others
  <2> QED BY <1>1, <2>1 DEF Is, languages, Tongues!vars
<1>3. CASE UNCHANGED site
  BY <1>1, <1>3 DEF Is, site, languages, Tongues!vars
<1> QED BY <1>2, <1>3

(* A site that is set up has one default language, a lookup that met no    *)
(* change of it finds a language, and a settings row can be read and has   *)
(* the senders and the windows that were given together.                   *)
THEOREM SettingsAreKept == SiteSpec => []SettingsHold
<1> DEFINE I == Is("languages") => SettingsInv
<1>0. Tongues!SettingsAssumption
  BY SiteAssumption
<1>1. SiteInit => I
  BY <1>0, SettingsInvInit DEF SiteInit, Is
<1>2. I /\ [SiteNext]_site => I'
  <2> SUFFICES ASSUME I, [SiteNext]_site, Is("languages") PROVE SettingsInv'
    BY PartStays DEF Is
  <2> QED BY <1>0, LanguagesMove, SettingsInvStep
<1>3. I => SettingsHold
  BY <1>0, SettingsInvHolds DEF SettingsHold
<1> HIDE DEF I
<1> QED BY <1>1, <1>2, <1>3, PTL DEF SiteSpec

-----------------------------------------------------------------------------
LEMMA CardCounts ==
    ASSUME NEW S
    PROVE  Board!Cardinality(S) = Cardinality(S) /\ (Board!IsFiniteSet(S) <=> IsFiniteSet(S))
BY DEF Board!Cardinality, Cardinality, Board!IsFiniteSet, IsFiniteSet

CardRow == [phase : {"none", "live", "archived"}, trash : BOOLEAN, list : BoardList \cup {NoOne},
            pos : Int, holder : Holder \cup {NoOne}, note : {"none", "live", "edited", "deleted"}]

Adding(r)    == r.pc \in {"creating", "placing"}
Moving(r)    == r.pc \in {"ordering", "written"}
Archiving(r) == r.pc \in {"archived", "shifting", "compacted"}

(* The order of the list that a move goes to.                              *)
There(r) == IF r.to = r.from THEN Board!Order(card, Board!LiveIn(card, r.from) \ {r.c}) ELSE Board!InOrder(card, r.to)

(* A move that has the board locked numbers the lists as they still are.   *)
Ordered(r) ==
    /\ r.source = Board!Order(card, Board!LiveIn(card, r.from) \ {r.c})
    /\ r.before \in DOMAIN There(r) \cup {NoCard}
    /\ r.target = Board!Inserted(There(r), r.c, Board!Spot(There(r), r.before))
    /\ ~board.trash

(* It writes the rows of both lists, with these numbers.                   *)
WroteMove(r) ==
    /\ DOMAIN r.writes = Board!LiveIn(card, r.from) \cup Board!LiveIn(card, r.to) \cup {r.c}
    /\ \A x \in DOMAIN r.writes :
          /\ r.writes[x].phase = card[x].phase /\ r.writes[x].trash = card[x].trash
          /\ r.writes[x].list = IF x = r.c THEN r.to ELSE card[x].list
          /\ (IF x = r.c THEN Board!IsLive(card, x) ELSE x \in Board!LiveIn(card, r.to))
                => r.writes[x].pos = r.target[x]
          /\ r.to # r.from /\ x # r.c /\ x \in Board!LiveIn(card, r.from) => r.writes[x].pos = r.source[x]

(* What an archive has written is numbered as the list it read.            *)
WroteRest(r) ==
    \A x \in DOMAIN r.writes \cap DOMAIN r.rest :
        Board!IsLive(r.writes, x) /\ r.writes[x].list = r.from => r.writes[x].pos = r.rest[x]

RequestHolds(r) ==
    /\ DOMAIN r = {"pc", "c", "from", "to", "before", "source", "target", "rest", "snap", "spot",
                   "writes"}
    /\ IF r.pc = "idle" THEN r = Board!Idle ELSE r.c \in Card
    /\ \A x \in DOMAIN r.writes :
          /\ x \in Card /\ r.writes[x] \in CardRow
          /\ r.writes[x].phase # "none" /\ card[x].phase # "none"
          /\ r.writes[x].trash => board.trash
    /\ Adding(r) => r.to \in BoardList /\ card[r.c].phase = "none"
    /\ r.pc = "placing" => r.spot \in Int
    /\ Moving(r) \/ r.pc = "moving" => r.to \in BoardList /\ r.before # r.c /\ card[r.c].phase # "none"
    /\ Moving(r) => Ordered(r)
    /\ r.pc = "written" => WroteMove(r)
    /\ Archiving(r) => \A x \in DOMAIN r.rest : r.rest[x] \in Int
    /\ r.pc = "shifting" =>
          r.snap \in [Card -> CardRow] /\ \A x \in Card : r.snap[x].phase # "none" => card[x].phase # "none"
    /\ r.pc = "compacted" => WroteRest(r)

BoardRows ==
    /\ card \in [Card -> CardRow]
    /\ board \in [trash : BOOLEAN, archived : BOOLEAN, was : BOOLEAN]
    /\ place = [l \in BoardList |-> place[l]]
    /\ \A l \in BoardList : DOMAIN place[l] = {"phase", "pos"}
    /\ desk = [w \in Client |-> desk[w]]

(* A board in the trash has no live list, and only then has it such cards. *)
TrashedTogether ==
    /\ board.trash => \A l \in BoardList : place[l].phase # "live"
    /\ \A x \in Card : card[x].trash => board.trash

(* One move at a time, and each card is added by one request.              *)
Alone ==
    /\ \A v, w \in Client : Moving(desk[v]) /\ Moving(desk[w]) => v = w
    /\ \A v, w \in Client : Adding(desk[v]) /\ Adding(desk[w]) /\ desk[v].c = desk[w].c => v = w

BoardInv ==
    /\ BoardRows /\ TrashedTogether /\ Alone
    /\ \A w \in Client : RequestHolds(desk[w])

-----------------------------------------------------------------------------
(* Cards in order are numbered in that order.                              *)
LEMMA CardRanks ==
    ASSUME Board!BoardsAssumption, NEW view, NEW S \in SUBSET Card, \A x \in S : view[x].pos \in Int
    PROVE  /\ DOMAIN Board!Order(view, S) = S /\ Cardinality(S) \in Nat
           /\ \A x \in S : Board!Order(view, S)[x] \in Nat
           /\ \A a, b \in S : view[a].pos < view[b].pos => Board!Order(view, S)[a] < Board!Order(view, S)[b]
<1> DEFINE R == {p \in S \X S : Board!Precedes(view, p[1], p[2])}
           rank == Board!Order(view, S)
<1>1. \A a, b \in S : <<a, b>> \in R <=> Board!Precedes(view, a, b)
  OBVIOUS
<1>2. \A x \in S : x \in Nat /\ view[x].pos \in Int
  BY DEF Board!BoardsAssumption
<1>3. IsFiniteSet(S)
  BY FS_Subset, CardCounts DEF Board!BoardsAssumption
<1> HIDE DEF R
<1>4. OrdersStrictly(R, S)
  <2>1. \A x \in S : <<x, x>> \notin R
    BY <1>1, <1>2 DEF Board!Precedes
  <2>2. \A x, y, z \in S : <<x, y>> \in R /\ <<y, z>> \in R => <<x, z>> \in R
    BY <1>1, <1>2 DEF Board!Precedes
  <2>3. \A x, y \in S : x # y => <<x, y>> \in R \/ <<y, x>> \in R
    BY <1>1, <1>2 DEF Board!Precedes
  <2> QED BY <2>1, <2>2, <2>3 DEF OrdersStrictly
<1>5. Ranks(rank, R, S)
  <2>1. ASSUME NEW x \in S
        PROVE  {b \in S : Board!Precedes(view, b, x)} = {y \in S : <<y, x>> \in R}
    BY <1>1
  <2>2. \A x \in S : Cardinality({b \in S : Board!Precedes(view, b, x)}) = Cardinality({y \in S : <<y, x>> \in R})
    BY <2>1, CardCounts
  <2>3. \A x \in S : rank[x] = Cardinality({b \in S : Board!Precedes(view, b, x)})
    BY CardCounts DEF Board!Order
  <2>4. rank = [x \in S |-> rank[x]]
    BY DEF Board!Order
  <2> HIDE DEF rank
  <2> QED BY <2>2, <2>3, <2>4, Zenon DEF Ranks
<1>6. DOMAIN rank = S
  BY DEF Board!Order
<1> HIDE DEF rank
<1>7. /\ Cardinality(S) \in Nat
      /\ \A x \in S : rank[x] \in Nat
      /\ \A x, y \in S : <<x, y>> \in R <=> rank[x] < rank[y]
  BY <1>3, <1>4, <1>5, Ranking
<1>8. \A a, b \in S : view[a].pos < view[b].pos => rank[a] < rank[b]
  BY <1>1, <1>7 DEF Board!Precedes
<1> QED BY <1>6, <1>7, <1>8, CardCounts DEF rank

(* A finite list has a last position.                                      *)
LEMMA LastPosition ==
    ASSUME Board!BoardsAssumption, NEW view \in [Card -> CardRow], NEW l
    PROVE  Board!Top(view, l) \in Int
<1> DEFINE P == Board!Positions(view, l)
           R == {p \in P \X P : p[1] < p[2]}
           rank == [x \in P |-> Cardinality({y \in P : <<y, x>> \in R})]
           live == Board!LiveIn(view, l)
           n == Cardinality(P)
<1>1. live \subseteq Card /\ \A c \in live : view[c].pos \in Int
  BY DEF Board!LiveIn, CardRow
<1>2. P \subseteq Int /\ -1 \in P
  BY <1>1 DEF Board!Positions
<1>3. IsFiniteSet(P)
  <2>1. IsFiniteSet(live)
    BY <1>1, FS_Subset, CardCounts DEF Board!BoardsAssumption
  <2>2. [c \in live |-> view[c].pos] \in Surjection(live, {view[c].pos : c \in live})
    BY DEF Surjection
  <2>4. IsFiniteSet({view[c].pos : c \in live})
    BY <2>1, <2>2, FS_Surjection
  <2>3. IsFiniteSet({view[c].pos : c \in live} \cup {-1})
    BY <2>4, FS_AddElement
  <2> QED BY <2>3 DEF Board!Positions
<1>4. \A a, b \in P : <<a, b>> \in R <=> a < b
  OBVIOUS
<1> HIDE DEF P, R
<1>5. OrdersStrictly(R, P)
  BY <1>2, <1>4 DEF OrdersStrictly
<1>6. Ranks(rank, R, P)
  BY DEF Ranks
<1> HIDE DEF rank
<1>7. /\ n \in Nat
      /\ \A x \in P : rank[x] \in Nat /\ rank[x] < n
      /\ \A x, y \in P : <<x, y>> \in R <=> rank[x] < rank[y]
      /\ \A x, y \in P : rank[x] = rank[y] => x = y
      /\ \A k \in 1 .. n : \E x \in P : rank[x] = k - 1
  BY <1>3, <1>5, <1>6, Ranking
<1> HIDE DEF n
<1>8. n \in 1 .. n
  <2>1. rank[-1] \in Nat /\ rank[-1] < n
    BY <1>2, <1>7
  <2> QED BY <1>7, <2>1
<1>9. PICK x \in P : rank[x] = n - 1
  BY <1>7, <1>8
<1>10. \A q \in P : q <= x
  <2> SUFFICES ASSUME NEW q \in P PROVE q <= x
    OBVIOUS
  <2>1. rank[q] < rank[x] \/ rank[q] = rank[x]
    BY <1>7, <1>9
  <2>2. q < x \/ q = x
    BY <1>4, <1>7, <2>1
  <2> QED BY <1>2, <2>2
<1>11. \E p \in P : \A q \in P : q <= p
  BY <1>10
<1>12. Board!Top(view, l) \in P
  BY <1>11 DEF Board!Top, P
<1> QED BY <1>2, <1>12
(* Numbering a list gives its cards other positions and leaves the rest.   *)
LEMMA Renumbering ==
    ASSUME Board!BoardsAssumption, NEW view \in [Card -> CardRow], NEW seen \in [Card -> CardRow],
           NEW l, NEW ids, \A x \in DOMAIN ids : ids[x] \in Int
    PROVE  LET new == Board!Rewritten(view, seen, l, ids)
               named == DOMAIN ids \cap Board!LiveIn(view, l)
           IN  /\ new \in [Card -> CardRow]
               /\ \A x \in Card : /\ new[x].phase = view[x].phase /\ new[x].trash = view[x].trash
                                  /\ new[x].list = view[x].list
               /\ \A x \in named : new[x].pos = ids[x]
               /\ \A x \in Card \ (named \cup Board!LiveIn(seen, l)) : new[x] = view[x]
<1> DEFINE base == Board!Top(seen, l) + Cardinality(Board!LiveIn(seen, l)) + 1
           order == Board!InOrder(seen, l)
           rear == Board!Shifted(view, seen, l)
           new == Board!Rewritten(view, seen, l, ids)
<1>1. /\ DOMAIN order = Board!LiveIn(seen, l) /\ Board!LiveIn(seen, l) \subseteq Card
      /\ Cardinality(Board!LiveIn(seen, l)) \in Nat
      /\ \A x \in Board!LiveIn(seen, l) : order[x] \in Nat
  <2>1. Board!LiveIn(seen, l) \in SUBSET Card /\ \A x \in Board!LiveIn(seen, l) : seen[x].pos \in Int
    BY DEF Board!LiveIn, CardRow
  <2> QED BY <2>1, CardRanks DEF Board!InOrder
<1>2. base \in Int
  BY <1>1, LastPosition
<1>3. /\ rear = [c \in Card |-> IF c \in DOMAIN order THEN [view[c] EXCEPT !.pos = base + order[c] + 1]
                                   ELSE view[c]]
  BY CardCounts DEF Board!Shifted
<1>4. new = [c \in Card |-> IF c \in DOMAIN ids \cap Board!LiveIn(rear, l)
                            THEN [rear[c] EXCEPT !.pos = ids[c]] ELSE rear[c]]
  BY DEF Board!Rewritten, Board!Numbered
<1> HIDE DEF base, order, rear, new
<1>5. /\ rear \in [Card -> CardRow]
      /\ \A x \in Card : /\ rear[x].phase = view[x].phase /\ rear[x].trash = view[x].trash
                         /\ rear[x].list = view[x].list
      /\ \A x \in Card \ Board!LiveIn(seen, l) : rear[x] = view[x]
  <2>1. ASSUME NEW x \in Card
        PROVE  /\ rear[x] \in CardRow
               /\ rear[x].phase = view[x].phase /\ rear[x].trash = view[x].trash
               /\ rear[x].list = view[x].list
               /\ x \notin Board!LiveIn(seen, l) => rear[x] = view[x]
    <3>1. CASE x \in DOMAIN order
      <4>1. base + order[x] + 1 \in Int /\ view[x] \in CardRow
        BY <1>1, <1>2, <3>1
      <4>2. rear[x] = [view[x] EXCEPT !.pos = base + order[x] + 1]
        BY <1>3, <3>1
      <4> QED BY <1>1, <3>1, <4>1, <4>2 DEF CardRow
    <3>2. CASE x \notin DOMAIN order
      BY <1>1, <1>3, <3>2
    <3> QED BY <3>1, <3>2
  <2> QED BY <1>3, <2>1
<1>6. Board!LiveIn(rear, l) = Board!LiveIn(view, l)
  BY <1>5 DEF Board!LiveIn, Board!IsLive
<1>7. ASSUME NEW x \in Card
      PROVE  /\ new[x] \in CardRow
             /\ new[x].phase = view[x].phase /\ new[x].trash = view[x].trash
             /\ new[x].list = view[x].list
             /\ x \in DOMAIN ids \cap Board!LiveIn(view, l) => new[x].pos = ids[x]
             /\ x \notin DOMAIN ids \cap Board!LiveIn(view, l) => new[x] = rear[x]
  <2>1. CASE x \in DOMAIN ids \cap Board!LiveIn(view, l)
    <3>1. new[x] = [rear[x] EXCEPT !.pos = ids[x]] /\ ids[x] \in Int /\ rear[x] \in CardRow
      BY <1>4, <1>5, <1>6, <2>1
    <3> QED BY <1>5, <2>1, <3>1 DEF CardRow
  <2>2. CASE x \notin DOMAIN ids \cap Board!LiveIn(view, l)
    BY <1>4, <1>5, <1>6, <2>2
  <2> QED BY <2>1, <2>2
<1>8. new \in [Card -> CardRow]
  BY <1>4, <1>7
<1>9. Board!LiveIn(view, l) \subseteq Card
  BY DEF Board!LiveIn
<1> QED BY <1>5, <1>7, <1>8, <1>9 DEF new

(* A card put into numbers leaves the others in order, before the one that *)
(* had its number.                                                         *)
LEMMA Inserting ==
    ASSUME NEW ids, NEW c, NEW spot \in Int, \A x \in DOMAIN ids : ids[x] \in Int
    PROVE  LET new == Board!Inserted(ids, c, spot)
           IN  /\ DOMAIN new = DOMAIN ids \cup {c}
               /\ \A x \in DOMAIN new : new[x] \in Int
               /\ \A a, b \in DOMAIN ids \ {c} : ids[a] < ids[b] => new[a] < new[b]
               /\ c \notin DOMAIN ids => new[c] = spot
               /\ \A a \in DOMAIN ids \ {c} : ids[a] = spot => new[a] = spot + 1
<1> DEFINE new == Board!Inserted(ids, c, spot)
<1>1. DOMAIN new = DOMAIN ids \cup {c}
  BY DEF Board!Inserted
<1>2. \A x \in DOMAIN ids \ {c} : new[x] = IF ids[x] >= spot THEN ids[x] + 1 ELSE ids[x]
  BY DEF Board!Inserted
<1>3. new[c] = IF c \in DOMAIN ids /\ ids[c] >= spot THEN ids[c] + 1 ELSE spot
  BY DEF Board!Inserted
<1> HIDE DEF new
<1>4. \A x \in DOMAIN new : new[x] \in Int
  BY <1>1, <1>2, <1>3
<1> QED BY <1>1, <1>2, <1>3, <1>4 DEF new
(* The order of the list that a move goes to.                              *)
LEMMA Thither ==
    ASSUME Board!BoardsAssumption, card \in [Card -> CardRow], NEW r
    PROVE  /\ DOMAIN There(r) = (IF r.to = r.from THEN Board!LiveIn(card, r.from) \ {r.c} ELSE Board!LiveIn(card, r.to))
           /\ DOMAIN There(r) \subseteq Card /\ Cardinality(DOMAIN There(r)) \in Nat
           /\ \A x \in DOMAIN There(r) : There(r)[x] \in Int
           /\ \A a, b \in DOMAIN There(r) : card[a].pos < card[b].pos => There(r)[a] < There(r)[b]
           /\ r.before \in DOMAIN There(r) \cup {NoCard} => Board!Spot(There(r), r.before) \in Int
<1> DEFINE S == IF r.to = r.from THEN Board!LiveIn(card, r.from) \ {r.c} ELSE Board!LiveIn(card, r.to)
<1>1. There(r) = Board!Order(card, S)
  BY DEF There, Board!InOrder
<1>2. S \in SUBSET Card /\ \A x \in S : card[x].pos \in Int
  BY DEF Board!LiveIn, CardRow
<1> HIDE DEF S
<1>3. /\ DOMAIN There(r) = S /\ Cardinality(S) \in Nat
      /\ \A x \in S : There(r)[x] \in Nat
      /\ \A a, b \in S : card[a].pos < card[b].pos => There(r)[a] < There(r)[b]
  BY <1>1, <1>2, CardRanks
<1>4. r.before \in DOMAIN There(r) \cup {NoCard} => Board!Spot(There(r), r.before) \in Int
  BY <1>3, CardCounts DEF Board!Spot
<1> QED BY <1>2, <1>3, <1>4 DEF S

(* What the statements of a move leave.                                    *)
LEMMA MoveLeaves ==
    ASSUME Board!BoardsAssumption, card \in [Card -> CardRow], NEW r, r.c \in Card, r.to \in BoardList, Ordered(r)
    PROVE  /\ Board!MovedIn(r) \in [Card -> CardRow]
           /\ \A x \in Card :
                 /\ Board!MovedIn(r)[x].phase = card[x].phase /\ Board!MovedIn(r)[x].trash = card[x].trash
                 /\ Board!MovedIn(r)[x].list = IF x = r.c THEN r.to ELSE card[x].list
                 /\ (IF x = r.c THEN Board!IsLive(card, x) ELSE x \in Board!LiveIn(card, r.to))
                       => Board!MovedIn(r)[x].pos = r.target[x]
                 /\ r.to # r.from /\ x # r.c /\ x \in Board!LiveIn(card, r.from)
                       => Board!MovedIn(r)[x].pos = r.source[x]
<1> DEFINE out == Board!MovedOut(r)
           over == Board!MovedOver(r)
           into == Board!MovedIn(r)
           S == Board!LiveIn(card, r.from) \ {r.c}
<1>1. S \in SUBSET Card /\ \A x \in S : card[x].pos \in Int
  BY DEF Board!LiveIn, CardRow
<1>2. DOMAIN r.source = S /\ \A x \in S : r.source[x] \in Int
  <2>1. DOMAIN Board!Order(card, S) = S /\ \A x \in S : Board!Order(card, S)[x] \in Nat
    BY <1>1, CardRanks
  <2>2. r.source = Board!Order(card, S)
    BY DEF Ordered
  <2> QED BY <2>1, <2>2
<1>3. /\ DOMAIN r.target = DOMAIN There(r) \cup {r.c}
      /\ \A x \in DOMAIN r.target : r.target[x] \in Int
  <2> DEFINE T == There(r)
             new == Board!Inserted(T, r.c, Board!Spot(T, r.before))
  <2>1. Board!Spot(T, r.before) \in Int /\ (\A x \in DOMAIN T : T[x] \in Int) /\ r.target = new
    BY Thither DEF Ordered
  <2> HIDE DEF T
  <2>2. DOMAIN new = DOMAIN T \cup {r.c}
    BY <2>1, Inserting
  <2>3. \A x \in DOMAIN new : new[x] \in Int
    BY <2>1, Inserting
  <2> QED BY <2>1, <2>2, <2>3 DEF T
<1>4. out = Board!Rewritten(card, card, r.from, r.source)
  BY DEF Board!MovedOut
<1>5. over = [out EXCEPT ![r.c].list = r.to]
  BY DEF Board!MovedOver
<1>6. into = Board!Rewritten(over, over, r.to, r.target)
  BY DEF Board!MovedIn
<1> HIDE DEF out, over, into
<1>7. /\ out \in [Card -> CardRow]
      /\ \A x \in Card : /\ out[x].phase = card[x].phase /\ out[x].trash = card[x].trash
                         /\ out[x].list = card[x].list
      /\ \A x \in S : out[x].pos = r.source[x]
  <2>1. S \subseteq DOMAIN r.source \cap Board!LiveIn(card, r.from)
    BY <1>2
  <2> HIDE DEF S
  <2> QED BY <1>2, <1>4, <2>1, Renumbering
<1>8. /\ over \in [Card -> CardRow]
      /\ \A x \in Card : /\ over[x].phase = card[x].phase /\ over[x].trash = card[x].trash
                         /\ over[x].list = (IF x = r.c THEN r.to ELSE card[x].list)
                         /\ x # r.c => over[x] = out[x]
  BY <1>5, <1>7 DEF CardRow
<1>9. /\ into \in [Card -> CardRow]
      /\ \A x \in Card : /\ into[x].phase = over[x].phase /\ into[x].trash = over[x].trash
                         /\ into[x].list = over[x].list
      /\ \A x \in DOMAIN r.target \cap Board!LiveIn(over, r.to) : into[x].pos = r.target[x]
      /\ \A x \in Card \ Board!LiveIn(over, r.to) : into[x] = over[x]
  BY <1>3, <1>6, <1>8, Renumbering
<1>10. ASSUME NEW x \in Card, IF x = r.c THEN Board!IsLive(card, x) ELSE x \in Board!LiveIn(card, r.to)
       PROVE  into[x].pos = r.target[x]
  <2>1. x \in Board!LiveIn(over, r.to)
    BY <1>8, <1>10 DEF Board!LiveIn, Board!IsLive
  <2>2. x \in DOMAIN r.target
    BY <1>3, <1>10, Thither
  <2> QED BY <1>9, <2>1, <2>2
<1>11. ASSUME NEW x \in Card, r.to # r.from, x # r.c, x \in Board!LiveIn(card, r.from)
       PROVE  into[x].pos = r.source[x]
  <2>1. x \notin Board!LiveIn(over, r.to)
    BY <1>8, <1>11 DEF Board!LiveIn
  <2> QED BY <1>7, <1>8, <1>9, <1>11, <2>1
<1> QED BY <1>8, <1>9, <1>10, <1>11 DEF into

-----------------------------------------------------------------------------
(* A request takes a step and no row changes.                              *)
LEMMA Taking ==
    ASSUME BoardInv, NEW w \in Client, NEW r, Board!Take(w, r), UNCHANGED <<board, place, card>>,
           RequestHolds(r), Moving(r) => Board!Mover \ {w} = {},
           Adding(r) => \A v \in Client \ {w} : Adding(desk[v]) => desk[v].c # r.c
    PROVE  BoardInv'
<1>1. desk' = [desk EXCEPT ![w] = r] /\ desk = [v \in Client |-> desk[v]]
  BY DEF Board!Take, BoardInv, BoardRows
<1>2. desk'[w] = r /\ \A v \in Client \ {w} : desk'[v] = desk[v]
  BY <1>1
<1>3. desk' = [v \in Client |-> desk'[v]]
  BY <1>1
<1>4. ASSUME NEW v \in Client PROVE RequestHolds(desk[v])'
  <2> DEFINE q == desk'[v]
  <2>1. RequestHolds(q)
    BY <1>2 DEF BoardInv
  <2> HIDE DEF q
  <2>2. card' = card /\ board' = board /\ desk'[v] = q
    BY DEF q
  <2> QED BY <2>1, <2>2 DEF RequestHolds, Ordered, WroteMove, WroteRest, There, Board!Spot, Board!InOrder, Adding,
       Moving, Archiving
<1>5. Alone'
  BY <1>2 DEF BoardInv, Alone, Moving, Adding, Board!Mover
<1>6. BoardRows' /\ TrashedTogether'
  BY <1>3 DEF BoardInv, BoardRows, TrashedTogether
<1> QED BY <1>4, <1>5, <1>6 DEF BoardInv

LEMMA IdleHolds == RequestHolds(Board!Idle) /\ ~Adding(Board!Idle) /\ ~Moving(Board!Idle) /\ Board!Idle.pc = "idle"
BY DEF RequestHolds, Board!Idle, Adding, Moving, Archiving

(* Rows change at the end of a request, or of one that is a single step,   *)
(* while no other has the board locked.                                    *)
LEMMA Changing ==
    ASSUME BoardInv, NEW w \in Client, Board!Mover \ {w} = {},
           Board!Done(w) \/ (UNCHANGED desk /\ desk[w].pc = "idle"),
           BoardRows', TrashedTogether',
           \A x \in Card : card[x].phase # "none" => card'[x].phase # "none",
           \A v \in Client \ {w} : Adding(desk[v]) => card'[desk[v].c].phase = "none",
           \A v \in Client \ {w} : \A x \in DOMAIN desk[v].writes :
               desk[v].writes[x].trash => board'.trash
    PROVE  BoardInv'
<1>1. desk = [v \in Client |-> desk[v]]
  BY DEF BoardInv, BoardRows
<1>2. /\ desk'[w].pc = "idle" /\ (desk'[w] = Board!Idle \/ desk'[w] = desk[w])
      /\ \A v \in Client \ {w} : desk'[v] = desk[v]
  BY <1>1, IdleHolds DEF Board!Done, Board!Take
<1>3. ASSUME NEW v \in Client PROVE RequestHolds(desk[v])' /\ ~Moving(desk[v])'
  <2>1. CASE v # w
    <3> DEFINE q == desk[v]
    <3>1. RequestHolds(q) /\ ~Moving(q)
      BY <2>1 DEF BoardInv, Board!Mover, Moving
    <3>2. /\ Adding(q) => card'[q.c].phase = "none"
          /\ \A x \in DOMAIN q.writes : q.writes[x].trash => board'.trash
          /\ desk'[v] = q
      BY <1>2, <2>1
    <3> HIDE DEF q
    <3> QED BY <3>1, <3>2 DEF RequestHolds, WroteRest, Adding, Moving, Archiving
  <2>2. CASE v = w
    <3>1. RequestHolds(desk'[v]) /\ desk'[v].pc = "idle"
      BY <1>2, <2>2, IdleHolds DEF BoardInv
    <3>2. desk'[v] = Board!Idle /\ Board!Idle.writes = <<>>
      BY <3>1 DEF RequestHolds, Board!Idle
    <3> QED BY <3>1, <3>2 DEF RequestHolds, Adding, Moving, Archiving
  <2> QED BY <2>1, <2>2
<1>4. Alone'
  BY <1>2, <1>3 DEF BoardInv, Alone, Adding
<1> QED BY <1>3, <1>4 DEF BoardInv
-----------------------------------------------------------------------------
(* Cards that keep their positions do not pass each other.                 *)
LEMMA NonePasses ==
    ASSUME card \in [Card -> CardRow],
           \A x \in Card : Board!IsLive(card, x) /\ Board!IsLive(card', x) => card'[x].pos = card[x].pos
    PROVE  Board!KeepsOrder
<1> SUFFICES ASSUME NEW a \in Card, NEW b \in Card, Board!Passes(a, b) PROVE FALSE
  BY DEF Board!KeepsOrder
<1>1. /\ Board!IsLive(card, a) /\ Board!IsLive(card', a) /\ Board!IsLive(card, b) /\ Board!IsLive(card', b)
      /\ card[a].pos < card[b].pos /\ card'[b].pos < card'[a].pos
  BY DEF Board!Passes, Board!Ahead, Board!LiveIn
<1>2. card[a].pos \in Int /\ card[b].pos \in Int
  BY DEF CardRow
<1> QED BY <1>1, <1>2

LEMMA NoneLands ==
    ASSUME card' = card \/ \A w \in Client : desk[w].pc = "written" => desk'[w] = desk[w]
    PROVE  Board!Lands
BY IdleHolds DEF Board!Lands

MoveStep == BoardInv' /\ Board!KeepsOrder /\ Board!Lands

LEMMA StepOfDesk ==
    ASSUME BoardInv, BoardInv', card' = card PROVE MoveStep
BY NonePasses, NoneLands DEF MoveStep, BoardInv, BoardRows

LEMMA AddingSteps ==
    ASSUME Board!BoardsAssumption, BoardInv, NEW w \in Client,
           (\E c \in Card, l \in BoardList : Board!CreateCard(w, c, l)) \/ Board!ChoosePosition(w)
    PROVE  MoveStep
<1>1. ASSUME NEW c \in Card, NEW l \in BoardList, Board!CreateCard(w, c, l) PROVE MoveStep
  <2> DEFINE r == [Board!Idle EXCEPT !.pc = "creating", !.c = c, !.to = l]
  <2>1. Board!Take(w, r) /\ UNCHANGED <<board, place, card>> /\ card[c].phase = "none"
        /\ \A v \in Client : desk[v].c # c
    BY <1>1, Zenon DEF Board!CreateCard
  <2>2. r.pc = "creating" /\ r.c = c
    BY DEF Board!Idle
  <2>3. RequestHolds(r)
    BY <2>1 DEF RequestHolds, Board!Idle, Adding, Moving, Archiving
  <2> HIDE DEF r
  <2> QED BY <2>1, <2>2, <2>3, Taking, StepOfDesk DEF Moving
<1>2. CASE Board!ChoosePosition(w)
  <2> DEFINE r == [desk[w] EXCEPT !.pc = "placing", !.spot = Board!Top(card, desk[w].to) + 1]
  <2>1. Board!Take(w, r) /\ UNCHANGED <<board, place, card>> /\ Adding(desk[w])
    BY <1>2 DEF Board!ChoosePosition, Board!Keep, Adding
  <2>2. Board!Top(card, desk[w].to) + 1 \in Int
    BY LastPosition DEF BoardInv, BoardRows
  <2>3. RequestHolds(desk[w])
    BY DEF BoardInv
  <2>4. r.pc = "placing" /\ r.c = desk[w].c
    BY <2>3 DEF RequestHolds
  <2>5. RequestHolds(r)
    BY <2>1, <2>2, <2>3, <1>2 DEF Board!ChoosePosition, RequestHolds, Adding, Moving, Archiving
  <2>6. \A v \in Client \ {w} : Adding(desk[v]) => desk[v].c # r.c
    BY <2>1, <2>4 DEF BoardInv, Alone
  <2> HIDE DEF r
  <2> QED BY <2>1, <2>4, <2>5, <2>6, Taking, StepOfDesk DEF Moving
<1> QED BY <1>1, <1>2

LEMMA RequestSteps ==
    ASSUME Board!BoardsAssumption, BoardInv, NEW w \in Client, NEW c \in Card,
           (\E l \in BoardList : \E b \in Card \cup {NoCard} : Board!MoveCard(w, c, l, b)) \/ Board!DeleteCard(w, c)
    PROVE  MoveStep
<1>1. ASSUME NEW l \in BoardList, NEW b, Board!MoveCard(w, c, l, b) PROVE MoveStep
  <2> DEFINE r == [Board!Idle EXCEPT !.pc = "moving", !.c = c, !.from = card[c].list, !.to = l, !.before = b]
  <2>1. Board!Take(w, r) /\ UNCHANGED <<board, place, card>> /\ b # c /\ card[c].phase # "none"
    BY <1>1, Zenon DEF Board!MoveCard, Board!IsLive
  <2>2. r.pc = "moving"
    BY DEF Board!Idle
  <2>3. RequestHolds(r)
    BY <2>1 DEF RequestHolds, Board!Idle, Adding, Moving, Archiving
  <2> HIDE DEF r
  <2> QED BY <2>1, <2>2, <2>3, Taking, StepOfDesk DEF Moving, Adding
<1>2. CASE Board!DeleteCard(w, c)
  <2> DEFINE r == [Board!Idle EXCEPT !.pc = "deleting", !.c = c, !.from = card[c].list]
  <2>1. Board!Take(w, r) /\ UNCHANGED <<board, place, card>>
    BY <1>2 DEF Board!DeleteCard
  <2>2. r.pc = "deleting"
    BY DEF Board!Idle
  <2>3. RequestHolds(r)
    BY <2>1 DEF RequestHolds, Board!Idle, Adding, Moving, Archiving
  <2> HIDE DEF r
  <2> QED BY <2>1, <2>2, <2>3, Taking, StepOfDesk DEF Moving, Adding
<1> QED BY <1>1, <1>2
LEMMA LockSteps ==
    ASSUME Board!BoardsAssumption, BoardInv, NEW w \in Client, Board!LockBoard(w)
    PROVE  MoveStep
<1> DEFINE r == desk[w]
           q == [r EXCEPT !.pc = "ordering", !.source = Board!Order(card, Board!LiveIn(card, r.from) \ {r.c}),
                          !.target = Board!Inserted(There(r), r.c, Board!Spot(There(r), r.before))]
<1>1. r.pc = "moving" /\ Board!Mover = {} /\ RequestHolds(r) /\ UNCHANGED <<board, place, card>>
  BY DEF Board!LockBoard, Board!Keep, BoardInv
<1>2. \/ Board!Done(w)
      \/ place[r.to].phase = "live" /\ r.before \in DOMAIN There(r) \cup {NoCard} /\ Board!Take(w, q)
  BY DEF Board!LockBoard, There
<1>3. CASE Board!Done(w)
  BY <1>1, <1>3, Taking, StepOfDesk, IdleHolds DEF Board!Done
<1>4. CASE place[r.to].phase = "live" /\ r.before \in DOMAIN There(r) \cup {NoCard} /\ Board!Take(w, q)
  <2>1. /\ q.pc = "ordering" /\ q.c = r.c /\ q.from = r.from /\ q.to = r.to /\ q.before = r.before
        /\ q.writes = r.writes /\ DOMAIN q = DOMAIN r
        /\ q.source = Board!Order(card, Board!LiveIn(card, r.from) \ {r.c})
        /\ q.target = Board!Inserted(There(r), r.c, Board!Spot(There(r), r.before))
    BY <1>1 DEF RequestHolds
  <2> HIDE DEF q
  <2>2. There(q) = There(r) /\ Board!Spot(There(q), q.before) = Board!Spot(There(r), r.before)
    BY <2>1 DEF There, Board!Spot
  <2>3. ~board.trash
    BY <1>1, <1>4 DEF BoardInv, TrashedTogether, RequestHolds
  <2>4. Ordered(q)
    BY <1>4, <2>1, <2>2, <2>3 DEF Ordered
  <2>5. RequestHolds(q)
    BY <1>1, <2>1, <2>4 DEF RequestHolds, Adding, Moving, Archiving
  <2> QED BY <1>1, <1>4, <2>1, <2>5, Taking, StepOfDesk DEF Adding
<1> QED BY <1>2, <1>3, <1>4

LEMMA WriteSteps ==
    ASSUME Board!BoardsAssumption, BoardInv, NEW w \in Client, Board!WriteMove(w)
    PROVE  MoveStep
<1> DEFINE r == desk[w]
           rows == Board!LiveIn(card, r.from) \cup Board!LiveIn(card, r.to) \cup {r.c}
           q == [r EXCEPT !.pc = "written", !.writes = Board!Writes(Board!MovedIn(r), rows)]
<1>1. r.pc = "ordering" /\ RequestHolds(r) /\ UNCHANGED <<board, place, card>>
  BY DEF Board!WriteMove, Board!Keep, BoardInv
<1>2. Board!Done(w) \/ Board!Take(w, q)
  BY DEF Board!WriteMove
<1>3. CASE Board!Done(w)
  BY <1>1, <1>3, Taking, StepOfDesk, IdleHolds DEF Board!Done
<1>4. CASE Board!Take(w, q)
  <2>1. /\ q.pc = "written" /\ q.c = r.c /\ q.from = r.from /\ q.to = r.to /\ q.before = r.before
        /\ q.source = r.source /\ q.target = r.target /\ DOMAIN q = DOMAIN r
        /\ q.writes = Board!Writes(Board!MovedIn(r), rows)
    BY <1>1 DEF RequestHolds
  <2>2. DOMAIN q.writes = rows /\ \A x \in rows : q.writes[x] = Board!MovedIn(r)[x]
    BY <2>1 DEF Board!Writes
  <2> HIDE DEF q
  <2>3. Ordered(r) /\ r.c \in Card /\ r.to \in BoardList /\ r.before # r.c
    BY <1>1 DEF RequestHolds, Moving
  <2>4. Ordered(q)
    BY <2>1, <2>3 DEF Ordered, There, Board!Spot
  <2>5. card \in [Card -> CardRow] /\ rows \subseteq Card
    BY <2>3 DEF BoardInv, BoardRows, Board!LiveIn
  <2>6. /\ Board!MovedIn(r) \in [Card -> CardRow]
        /\ \A x \in Card :
              /\ Board!MovedIn(r)[x].phase = card[x].phase /\ Board!MovedIn(r)[x].trash = card[x].trash
              /\ Board!MovedIn(r)[x].list = IF x = r.c THEN r.to ELSE card[x].list
              /\ (IF x = r.c THEN Board!IsLive(card, x) ELSE x \in Board!LiveIn(card, r.to))
                    => Board!MovedIn(r)[x].pos = r.target[x]
              /\ r.to # r.from /\ x # r.c /\ x \in Board!LiveIn(card, r.from)
                    => Board!MovedIn(r)[x].pos = r.source[x]
    BY <2>3, <2>5, MoveLeaves
  <2>7. WroteMove(q)
    <3>1. DOMAIN q.writes = Board!LiveIn(card, q.from) \cup Board!LiveIn(card, q.to) \cup {q.c}
      BY <2>1, <2>2
    <3>2. ASSUME NEW x \in DOMAIN q.writes PROVE x \in Card /\ q.writes[x] = Board!MovedIn(r)[x]
      BY <2>2, <2>5
    <3>3. ASSUME NEW x \in DOMAIN q.writes
          PROVE  /\ q.writes[x].phase = card[x].phase /\ q.writes[x].trash = card[x].trash
                 /\ q.writes[x].list = IF x = q.c THEN q.to ELSE card[x].list
                 /\ (IF x = q.c THEN Board!IsLive(card, x) ELSE x \in Board!LiveIn(card, q.to))
                       => q.writes[x].pos = q.target[x]
                 /\ q.to # q.from /\ x # q.c /\ x \in Board!LiveIn(card, q.from)
                       => q.writes[x].pos = q.source[x]
      <4> DEFINE to == r.to
                 from == r.from
                 c == r.c
                 m == Board!MovedIn(r)[x]
      <4>1. /\ m.phase = card[x].phase /\ m.trash = card[x].trash
            /\ m.list = IF x = c THEN to ELSE card[x].list
            /\ (IF x = c THEN Board!IsLive(card, x) ELSE x \in Board!LiveIn(card, to)) => m.pos = r.target[x]
            /\ to # from /\ x # c /\ x \in Board!LiveIn(card, from) => m.pos = r.source[x]
        BY <2>6, <3>2
      <4>2. /\ q.c = c /\ q.to = to /\ q.from = from /\ q.source = r.source /\ q.target = r.target
            /\ q.writes[x] = m
        BY <2>1, <3>2
      <4> HIDE DEF to, from, c, m
      <4> QED BY <4>1, <4>2
    <3> QED BY <3>1, <3>3 DEF WroteMove
  <2>8. \A x \in rows : card[x].phase # "none"
    <3>1. card[r.c].phase # "none"
      BY <1>1 DEF RequestHolds, Moving
    <3> QED BY <3>1 DEF Board!LiveIn, Board!IsLive
  <2>9. \A x \in DOMAIN q.writes :
          /\ x \in Card /\ q.writes[x] \in CardRow
          /\ q.writes[x].phase # "none" /\ card[x].phase # "none"
          /\ q.writes[x].trash => board.trash
    BY <2>2, <2>5, <2>6, <2>8 DEF BoardInv, TrashedTogether
  <2>10. RequestHolds(q)
    BY <1>1, <2>1, <2>3, <2>4, <2>7, <2>9 DEF RequestHolds, Adding, Moving, Archiving
  <2>11. Board!Mover \ {w} = {}
    BY <1>1 DEF BoardInv, Alone, Board!Mover, Moving
  <2> QED BY <1>1, <1>4, <2>1, <2>10, <2>11, Taking, StepOfDesk DEF Adding
<1> QED BY <1>2, <1>3, <1>4

(* What a request has written becomes the rows.                            *)
LEMMA Committing ==
    ASSUME Board!BoardsAssumption, BoardInv, NEW w \in Client, Board!Mover \ {w} = {}, Board!Done(w),
           UNCHANGED <<board, place>>, card' = Board!Pending(w)
    PROVE  BoardInv'
<1> DEFINE writes == desk[w].writes
<1>1. \A x \in DOMAIN writes : /\ x \in Card /\ writes[x] \in CardRow
                               /\ writes[x].phase # "none" /\ card[x].phase # "none"
                               /\ writes[x].trash => board.trash
  BY DEF BoardInv, RequestHolds
<1>2. card' = [x \in Card |-> IF x \in DOMAIN writes THEN writes[x] ELSE card[x]]
  BY DEF Board!Pending
<1> HIDE DEF writes
<1>3. card' \in [Card -> CardRow]
  BY <1>1, <1>2 DEF BoardInv, BoardRows
<1>4. desk' = [v \in Client |-> desk'[v]]
  BY DEF Board!Done, Board!Take, BoardInv, BoardRows
<1>5. BoardRows' /\ TrashedTogether'
  BY <1>1, <1>2, <1>3, <1>4 DEF BoardInv, BoardRows, TrashedTogether
<1>6. \A x \in Card : card[x].phase # "none" => card'[x].phase # "none"
  BY <1>1, <1>2
<1>7. \A v \in Client \ {w} : Adding(desk[v]) => card'[desk[v].c].phase = "none"
  <2>1. \A v \in Client \ {w} : Adding(desk[v]) => desk[v].c \in Card /\ card[desk[v].c].phase = "none"
    BY DEF BoardInv, RequestHolds, Adding, Board!Idle
  <2> QED BY <1>1, <1>2, <2>1
<1>8. \A v \in Client \ {w} : \A x \in DOMAIN desk[v].writes : desk[v].writes[x].trash => board'.trash
  BY DEF BoardInv, RequestHolds
<1> QED BY <1>5, <1>6, <1>7, <1>8, Changing
LEMMA CommitSteps ==
    ASSUME Board!BoardsAssumption, BoardInv, NEW w \in Client, Board!CommitMove(w)
    PROVE  MoveStep
<1> DEFINE r == desk[w]
           T == There(r)
           spot == Board!Spot(T, r.before)
<1>1. r.pc = "written" /\ RequestHolds(r) /\ Board!Done(w) /\ UNCHANGED <<board, place>>
  BY DEF Board!CommitMove, Board!Keep, BoardInv
<1>2. CASE card' = card
  BY <1>1, <1>2, Taking, StepOfDesk, IdleHolds DEF Board!Done
<1>3. CASE card' = Board!Pending(w) /\ card[r.c].phase = "live"
  <2>1. Board!Mover \ {w} = {}
    BY <1>1 DEF BoardInv, Alone, Board!Mover, Moving
  <2>2. BoardInv'
    BY <1>1, <1>3, <2>1, Committing
  <2>3. /\ desk'[w] = Board!Idle /\ \A v \in Client \ {w} : desk'[v] = desk[v]
        /\ r.c \in Board!MovedNow
    BY <1>1 DEF Board!Done, Board!Take, BoardInv, BoardRows, Board!MovedNow
  <2>4. Ordered(r) /\ WroteMove(r) /\ r.c \in Card /\ r.before # r.c /\ ~card[r.c].trash
    BY <1>1 DEF RequestHolds, Moving, Ordered, BoardInv, TrashedTogether
  <2>5. /\ card \in [Card -> CardRow]
        /\ card' = [x \in Card |-> IF x \in DOMAIN r.writes THEN r.writes[x] ELSE card[x]]
    BY <1>3 DEF Board!Pending, BoardInv, BoardRows
  <2> HIDE DEF r
  <2>6. ASSUME NEW x \in Card
        PROVE  /\ Board!IsLive(card', x) <=> Board!IsLive(card, x)
               /\ card'[x].list = IF x = r.c THEN r.to ELSE card[x].list
               /\ (IF x = r.c THEN Board!IsLive(card, x) ELSE x \in Board!LiveIn(card, r.to))
                     => card'[x].pos = r.target[x]
               /\ r.to # r.from /\ x # r.c /\ x \in Board!LiveIn(card, r.from)
                     => card'[x].pos = r.source[x]
               /\ x # r.c /\ x \notin Board!LiveIn(card, r.from) \cup Board!LiveIn(card, r.to)
                     => card'[x] = card[x]
    <3>1. CASE x \in DOMAIN r.writes
      <4>1. card'[x] = r.writes[x]
        BY <2>5, <3>1
      <4> QED BY <2>4, <3>1, <4>1 DEF WroteMove, Board!IsLive
    <3>2. CASE x \notin DOMAIN r.writes
      <4>1. card'[x] = card[x] /\ x # r.c /\ x \notin Board!LiveIn(card, r.from) \cup Board!LiveIn(card, r.to)
        BY <2>4, <2>5, <3>2 DEF WroteMove
      <4> QED BY <4>1 DEF Board!IsLive
    <3> QED BY <3>1, <3>2
  <2>7. /\ DOMAIN T = (IF r.to = r.from THEN Board!LiveIn(card, r.from) \ {r.c} ELSE Board!LiveIn(card, r.to))
        /\ \A x \in DOMAIN T : T[x] \in Int
        /\ \A a, b \in DOMAIN T : card[a].pos < card[b].pos => T[a] < T[b]
        /\ spot \in Int
    BY <2>4, <2>5, Thither DEF Ordered
  <2>8. /\ r.target = Board!Inserted(T, r.c, spot)
        /\ r.before # NoCard => r.before \in DOMAIN T /\ spot = T[r.before]
    BY <2>4 DEF Ordered, Board!Spot
  <2> HIDE DEF spot, T
  <2>9. /\ DOMAIN r.target = DOMAIN T \cup {r.c}
        /\ \A x \in DOMAIN r.target : r.target[x] \in Int
        /\ \A a, b \in DOMAIN T \ {r.c} : T[a] < T[b] => r.target[a] < r.target[b]
        /\ r.c \notin DOMAIN T => r.target[r.c] = spot
        /\ \A a \in DOMAIN T \ {r.c} : T[a] = spot => r.target[a] = spot + 1
    <3> DEFINE new == Board!Inserted(T, r.c, spot)
    <3>1. spot \in Int /\ \A x \in DOMAIN T : T[x] \in Int
      BY <2>7
    <3>2. /\ DOMAIN new = DOMAIN T \cup {r.c}
          /\ \A x \in DOMAIN new : new[x] \in Int
          /\ \A a, b \in DOMAIN T \ {r.c} : T[a] < T[b] => new[a] < new[b]
          /\ r.c \notin DOMAIN T => new[r.c] = spot
          /\ \A a \in DOMAIN T \ {r.c} : T[a] = spot => new[a] = spot + 1
      BY <3>1, Inserting
    <3>3. r.target = new
      BY <2>8
    <3> HIDE DEF new
    <3> QED BY <3>2, <3>3
  <2>10. ASSUME NEW a \in Card, NEW b \in Card, Board!Passes(a, b), r.c \notin {a, b} PROVE FALSE
    <3>1. /\ a \in Board!LiveIn(card, card[a].list) /\ b \in Board!LiveIn(card, card[a].list)
          /\ card[a].pos < card[b].pos /\ card'[b].pos < card'[a].pos /\ a # r.c /\ b # r.c
          /\ card[a].pos \in Int /\ card[b].pos \in Int
      BY <2>5, <2>10 DEF Board!Passes, Board!Ahead, CardRow
    <3>2. CASE card[a].list = r.to
      <4>1. a \in DOMAIN T \ {r.c} /\ b \in DOMAIN T \ {r.c}
        BY <2>7, <3>1, <3>2
      <4>2. r.target[a] < r.target[b] /\ r.target[a] \in Int /\ r.target[b] \in Int
        BY <2>7, <2>9, <3>1, <4>1
      <4>3. card'[a].pos = r.target[a] /\ card'[b].pos = r.target[b]
        BY <2>6, <3>1, <3>2
      <4> QED BY <3>1, <4>2, <4>3
    <3>3. CASE card[a].list = r.from /\ r.to # r.from
      <4> DEFINE S == Board!LiveIn(card, r.from) \ {r.c}
      <4>1. S \in SUBSET Card /\ \A x \in S : card[x].pos \in Int
        BY <2>5 DEF Board!LiveIn, CardRow
      <4>2. r.source = Board!Order(card, S) /\ a \in S /\ b \in S
        BY <2>4, <3>1, <3>3 DEF Ordered
      <4> HIDE DEF S
      <4>3. r.source[a] < r.source[b] /\ r.source[a] \in Int /\ r.source[b] \in Int
        BY <3>1, <4>1, <4>2, CardRanks
      <4>4. card'[a].pos = r.source[a] /\ card'[b].pos = r.source[b]
        BY <2>6, <3>1, <3>3
      <4> QED BY <3>1, <4>3, <4>4
    <3>4. CASE card[a].list \notin {r.from, r.to}
      <4>1. card'[a] = card[a] /\ card'[b] = card[b]
        BY <2>6, <3>1, <3>4 DEF Board!LiveIn
      <4> QED BY <3>1, <4>1
    <3> QED BY <3>2, <3>3, <3>4
  <2>11. Board!KeepsOrder
    BY <2>3, <2>10 DEF Board!KeepsOrder
  <2>12. ASSUME r.before # NoCard, card[r.c].list = r.from
         PROVE  /\ {r.c, r.before} \subseteq Board!LiveIn(card', r.to)
                /\ Board!Ahead(card', r.c, r.before)
                /\ \A b \in Card : ~(Board!Ahead(card', r.c, b) /\ Board!Ahead(card', b, r.before))
    <3>1. r.before \in DOMAIN T /\ spot = T[r.before] /\ r.c \notin DOMAIN T /\ r.before # r.c
      BY <2>4, <2>7, <2>8, <2>12 DEF Board!LiveIn
    <3>2. /\ r.target[r.c] = spot /\ r.target[r.before] = spot + 1
          /\ r.before \in Board!LiveIn(card, r.to) /\ r.before \in Card
      BY <2>7, <2>9, <3>1 DEF Board!LiveIn
    <3>3. /\ r.c \in Board!LiveIn(card', r.to) /\ r.before \in Board!LiveIn(card', r.to)
          /\ card'[r.c].pos = r.target[r.c] /\ card'[r.before].pos = r.target[r.before]
          /\ card'[r.c].list = r.to /\ card'[r.before].list = r.to
      BY <1>3, <2>4, <2>6, <3>1, <3>2 DEF Board!LiveIn, Board!IsLive, r
    <3>4. Board!Ahead(card', r.c, r.before)
      BY <2>7, <3>2, <3>3 DEF Board!Ahead
    <3>5. ASSUME NEW b \in Card, Board!Ahead(card', r.c, b), Board!Ahead(card', b, r.before) PROVE FALSE
      <4>1. card'[b].pos \in Int
        BY <2>2 DEF BoardInv, BoardRows, CardRow
      <4> QED BY <2>7, <3>2, <3>3, <3>5, <4>1 DEF Board!Ahead
    <3> QED BY <3>3, <3>4, <3>5
  <2>13. Board!Lands
    <3> SUFFICES ASSUME NEW v \in Client, desk[v].pc = "written", desk'[v] = Board!Idle,
                        desk[v].before # NoCard, card[desk[v].c].list = desk[v].from
                 PROVE  /\ {desk[v].c, desk[v].before} \subseteq Board!LiveIn(card', desk[v].to)
                        /\ Board!Ahead(card', desk[v].c, desk[v].before)
                        /\ \A b \in Card : ~(Board!Ahead(card', desk[v].c, b) /\ Board!Ahead(card', b, desk[v].before))
      BY DEF Board!Lands
    <3>1. v = w
      BY <2>3, IdleHolds
    <3> QED BY <2>12, <3>1 DEF r
  <2> QED BY <2>2, <2>11, <2>13 DEF MoveStep
<1> QED BY <1>2, <1>3 DEF Board!CommitMove
LEMMA ArchiveSteps ==
    ASSUME Board!BoardsAssumption, BoardInv, NEW w \in Client, Board!ArchiveCard(w) \/ Board!LookAtList(w)
    PROVE  MoveStep
<1> DEFINE r == desk[w]
<1>1. RequestHolds(r) /\ UNCHANGED <<board, place, card>> /\ card \in [Card -> CardRow]
  BY DEF Board!ArchiveCard, Board!LookAtList, Board!Keep, BoardInv, BoardRows
<1>2. CASE Board!ArchiveCard(w)
  <2> DEFINE gone == IF Board!IsLive(card, r.c) THEN [card EXCEPT ![r.c].phase = "archived"] ELSE card
             q == [r EXCEPT !.pc = "archived", !.rest = Board!InOrder(gone, r.from),
                            !.writes = Board!Writes(gone, Board!Changed(gone))]
  <2>1. r.pc = "deleting" /\ r.c \in Card /\ Board!Take(w, q)
    BY <1>1, <1>2, IdleHolds DEF Board!ArchiveCard, RequestHolds
  <2>2. /\ gone \in [Card -> CardRow]
        /\ \A x \in Card : /\ gone[x].trash = card[x].trash
                           /\ gone[x].phase # "none" <=> card[x].phase # "none"
                           /\ gone[x] # card[x] => card[x].phase # "none"
    BY <1>1, <2>1 DEF CardRow, Board!IsLive
  <2>3. /\ q.pc = "archived" /\ q.c = r.c /\ q.rest = Board!InOrder(gone, r.from) /\ DOMAIN q = DOMAIN r
        /\ q.writes = Board!Writes(gone, Board!Changed(gone))
    BY <1>1 DEF RequestHolds
  <2> HIDE DEF gone, q
  <2>4. /\ DOMAIN q.writes = Board!Changed(gone) /\ \A x \in Board!Changed(gone) : q.writes[x] = gone[x]
        /\ \A x \in Board!Changed(gone) : x \in Card /\ gone[x] # card[x]
    BY <2>3 DEF Board!Writes, Board!Changed
  <2>5. \A x \in DOMAIN q.writes :
          /\ x \in Card /\ q.writes[x] \in CardRow
          /\ q.writes[x].phase # "none" /\ card[x].phase # "none"
          /\ q.writes[x].trash => board.trash
    BY <2>2, <2>4 DEF BoardInv, TrashedTogether
  <2>6. \A x \in DOMAIN q.rest : q.rest[x] \in Int
    <3> DEFINE S == Board!LiveIn(gone, r.from)
    <3>1. S \in SUBSET Card /\ \A x \in S : gone[x].pos \in Int
      BY <2>2 DEF Board!LiveIn, CardRow
    <3>2. q.rest = Board!Order(gone, S)
      BY <2>3 DEF Board!InOrder
    <3> HIDE DEF S
    <3> QED BY <3>1, <3>2, CardRanks
  <2>7. RequestHolds(q)
    BY <1>1, <2>1, <2>3, <2>5, <2>6 DEF RequestHolds, Adding, Moving, Archiving
  <2> QED BY <1>1, <2>1, <2>3, <2>7, Taking, StepOfDesk DEF Adding, Moving
<1>3. CASE Board!LookAtList(w)
  <2> DEFINE q == [r EXCEPT !.pc = "shifting", !.snap = Board!Pending(w)]
  <2>1. r.pc = "archived" /\ Board!Take(w, q)
    BY <1>3 DEF Board!LookAtList
  <2>2. /\ q.pc = "shifting" /\ q.c = r.c /\ q.snap = Board!Pending(w) /\ DOMAIN q = DOMAIN r
        /\ q.writes = r.writes /\ q.rest = r.rest
    BY <1>1 DEF RequestHolds
  <2>3. Board!Pending(w) = [x \in Card |-> IF x \in DOMAIN r.writes THEN r.writes[x] ELSE card[x]]
    BY DEF Board!Pending
  <2> HIDE DEF q, r
  <2>4. /\ Board!Pending(w) \in [Card -> CardRow]
        /\ \A x \in Card : Board!Pending(w)[x].phase # "none" => card[x].phase # "none"
    BY <1>1, <2>3 DEF RequestHolds
  <2>5. RequestHolds(q)
    BY <1>1, <2>1, <2>2, <2>4 DEF RequestHolds, Adding, Moving, Archiving
  <2> QED BY <1>1, <2>1, <2>2, <2>5, Taking, StepOfDesk DEF Adding, Moving
<1> QED BY <1>2, <1>3

LEMMA CompactSteps ==
    ASSUME Board!BoardsAssumption, BoardInv, NEW w \in Client, Board!Compact(w)
    PROVE  MoveStep
<1> DEFINE r == desk[w]
           rows == Board!LiveIn(r.snap, r.from)
           here == Board!Pending(w)
           new == Board!Compacted(w)
           q == [r EXCEPT !.pc = "compacted", !.writes = Board!Writes(Board!Compacted(w), DOMAIN r.writes \cup rows)]
<1>1. /\ r.pc = "shifting" /\ RequestHolds(r) /\ UNCHANGED <<board, place, card>>
      /\ card \in [Card -> CardRow]
  BY DEF Board!Compact, Board!Keep, BoardInv, BoardRows
<1>2. Board!Done(w) \/ Board!Take(w, q)
  BY DEF Board!Compact
<1>3. CASE Board!Done(w)
  BY <1>1, <1>3, Taking, StepOfDesk, IdleHolds DEF Board!Done
<1>4. CASE Board!Take(w, q)
  <2>1. /\ q.pc = "compacted" /\ q.c = r.c /\ q.from = r.from /\ q.rest = r.rest /\ DOMAIN q = DOMAIN r
        /\ q.writes = Board!Writes(new, DOMAIN r.writes \cup rows)
    BY <1>1 DEF RequestHolds
  <2>2. here = [x \in Card |-> IF x \in DOMAIN r.writes THEN r.writes[x] ELSE card[x]]
    BY DEF Board!Pending
  <2>3. new = Board!Rewritten(here, r.snap, r.from, r.rest)
    BY DEF Board!Compacted
  <2> HIDE DEF q, r, here, new
  <2>4. /\ r.snap \in [Card -> CardRow] /\ \A x \in Card : r.snap[x].phase # "none" => card[x].phase # "none"
        /\ \A x \in DOMAIN r.rest : r.rest[x] \in Int
        /\ \A x \in DOMAIN r.writes : /\ x \in Card /\ r.writes[x] \in CardRow
                                      /\ r.writes[x].phase # "none" /\ card[x].phase # "none"
                                      /\ r.writes[x].trash => board.trash
    BY <1>1 DEF RequestHolds, Archiving
  <2>5. /\ here \in [Card -> CardRow]
        /\ \A x \in Card : /\ card[x].phase # "none" => here[x].phase # "none"
                           /\ here[x].trash => board.trash
    BY <1>1, <2>2, <2>4 DEF BoardInv, TrashedTogether
  <2>6. /\ new \in [Card -> CardRow]
        /\ \A x \in Card : /\ new[x].phase = here[x].phase /\ new[x].trash = here[x].trash
                           /\ new[x].list = here[x].list
        /\ \A x \in DOMAIN r.rest \cap Board!LiveIn(here, r.from) : new[x].pos = r.rest[x]
    BY <2>3, <2>4, <2>5, Renumbering
  <2>7. /\ rows \subseteq Card /\ \A x \in rows : card[x].phase # "none"
    BY <2>4 DEF Board!LiveIn, Board!IsLive
  <2>8. /\ DOMAIN q.writes = DOMAIN r.writes \cup rows
        /\ \A x \in DOMAIN q.writes : q.writes[x] = new[x]
    BY <2>1 DEF Board!Writes
  <2>9. \A x \in DOMAIN q.writes :
          /\ x \in Card /\ q.writes[x] \in CardRow
          /\ q.writes[x].phase # "none" /\ card[x].phase # "none"
          /\ q.writes[x].trash => board.trash
    BY <2>4, <2>5, <2>6, <2>7, <2>8
  <2>10. WroteRest(q)
    <3> SUFFICES ASSUME NEW x \in DOMAIN q.writes \cap DOMAIN q.rest,
                        Board!IsLive(q.writes, x), q.writes[x].list = q.from
                 PROVE  q.writes[x].pos = q.rest[x]
      BY DEF WroteRest
    <3>1. x \in Card /\ q.writes[x] = new[x]
      BY <2>8, <2>9
    <3>2. x \in Board!LiveIn(here, r.from)
      BY <2>1, <2>6, <3>1 DEF Board!LiveIn, Board!IsLive
    <3> QED BY <2>1, <2>6, <3>1, <3>2
  <2>11. RequestHolds(q)
    BY <1>1, <2>1, <2>4, <2>9, <2>10 DEF RequestHolds, Adding, Moving, Archiving
  <2> QED BY <1>1, <1>4, <2>1, <2>11, Taking, StepOfDesk DEF Adding, Moving
<1> QED BY <1>2, <1>3, <1>4
(* An archive that commits what is still the list writes it in order.      *)
LEMMA DeleteSteps ==
    ASSUME Board!BoardsAssumption, BoardInv, NEW w \in Client, Board!CommitDelete(w)
    PROVE  MoveStep
<1> DEFINE r == desk[w]
           still == Board!LiveIn(card, r.from) \cap Board!LiveIn(card', r.from)
<1>1. /\ r.pc = "compacted" /\ RequestHolds(r) /\ Board!Mover \ {w} = {} /\ Board!Done(w)
      /\ UNCHANGED <<board, place>> /\ card' = Board!Pending(w)
  BY DEF Board!CommitDelete, Board!Referring, Board!Keep, BoardInv
<1>2. BoardInv'
  BY <1>1, Committing
<1>3. desk'[w] = Board!Idle /\ \A v \in Client \ {w} : desk'[v] = desk[v]
  BY <1>1 DEF Board!Done, Board!Take, BoardInv, BoardRows
<1>4. Board!Lands
  BY <1>1, <1>3, NoneLands
<1>5. /\ card \in [Card -> CardRow] /\ WroteRest(r)
      /\ card' = [x \in Card |-> IF x \in DOMAIN r.writes THEN r.writes[x] ELSE card[x]]
  BY <1>1 DEF Board!Pending, BoardInv, BoardRows, RequestHolds
<1>6. ASSUME ~Board!Overtaken, NEW a \in Card, NEW b \in Card, Board!Passes(a, b) PROVE FALSE
  <2>1. Board!Order(card, still) = r.rest /\ still = {c \in DOMAIN r.writes : Board!IsLive(card', c)}
    BY <1>1, <1>3, <1>6 DEF Board!Overtaken
  <2>2. still \in SUBSET Card /\ \A x \in still : card[x].pos \in Int
    BY <1>5 DEF Board!LiveIn, CardRow
  <2>3. /\ {a, b} \subseteq Board!LiveIn(card, card[a].list) /\ {a, b} \subseteq Board!LiveIn(card', card'[b].list)
        /\ card[a].pos < card[b].pos /\ card'[b].pos < card'[a].pos
    BY <1>6 DEF Board!Passes, Board!Ahead
  <2>4. card[a].pos \in Int /\ card[b].pos \in Int
    BY <1>5 DEF CardRow
  <2> HIDE DEF r
  <2>5. \A x \in {a, b} : x \in DOMAIN r.writes => x \in still
    BY <2>1, <2>3 DEF Board!LiveIn
  <2>6. \A x \in {a, b} : x \in still => a \in still /\ b \in still
    BY <2>3 DEF Board!LiveIn
  <2>7. CASE a \in still /\ b \in still
    <3>1. /\ DOMAIN r.rest = still /\ \A x \in still : r.rest[x] \in Int
          /\ r.rest[a] < r.rest[b]
      <4> HIDE DEF still
      <4> QED BY <2>1, <2>2, <2>3, <2>7, CardRanks
    <3>2. \A x \in still : card'[x].pos = r.rest[x]
      <4> SUFFICES ASSUME NEW x \in still PROVE card'[x].pos = r.rest[x]
        OBVIOUS
      <4>1. x \in DOMAIN r.writes \cap DOMAIN r.rest /\ card'[x] = r.writes[x]
        BY <1>5, <2>1, <2>2, <3>1
      <4>2. Board!IsLive(r.writes, x) /\ r.writes[x].list = r.from
        BY <4>1 DEF Board!LiveIn, Board!IsLive
      <4> QED BY <1>5, <4>1, <4>2 DEF WroteRest
    <3> QED BY <2>3, <2>7, <3>1, <3>2
  <2>8. CASE a \notin DOMAIN r.writes /\ b \notin DOMAIN r.writes
    BY <1>5, <2>3, <2>4, <2>8
  <2> QED BY <2>5, <2>6, <2>7, <2>8
<1>7. Board!KeepsOrder
  BY <1>6 DEF Board!KeepsOrder
<1> QED BY <1>2, <1>4, <1>7 DEF MoveStep

LEMMA InsertSteps ==
    ASSUME Board!BoardsAssumption, BoardInv, NEW w \in Client, Board!InsertCard(w)
    PROVE  MoveStep
<1> DEFINE r == desk[w]
           view == [card EXCEPT ![r.c] = [Board!Absent(r.c) EXCEPT !.phase = "live", !.list = r.to, !.pos = r.spot]]
<1>1. /\ r.pc = "placing" /\ RequestHolds(r) /\ Board!Mover \ {w} = {} /\ Board!Done(w)
      /\ UNCHANGED <<board, place>> /\ card' \in {card, view} /\ card \in [Card -> CardRow]
  BY DEF Board!InsertCard, Board!Referring, Board!Keep, BoardInv, BoardRows
<1>2. r.c \in Card /\ r.to \in BoardList /\ r.spot \in Int /\ card[r.c].phase = "none"
  BY <1>1 DEF RequestHolds, Adding, Board!Idle
<1>3. /\ view \in [Card -> CardRow] /\ view[r.c].phase = "live" /\ view[r.c].trash = FALSE
      /\ \A x \in Card \ {r.c} : view[x] = card[x]
  BY <1>1, <1>2 DEF CardRow, Board!Absent
<1>4. /\ desk'[w] = Board!Idle /\ \A v \in Client \ {w} : desk'[v] = desk[v]
      /\ desk' = [v \in Client |-> desk'[v]]
  BY <1>1 DEF Board!Done, Board!Take, BoardInv, BoardRows
<1>5. \A v \in Client \ {w} : Adding(desk[v]) => desk[v].c \in Card \ {r.c} /\ card[desk[v].c].phase = "none"
  BY <1>1 DEF BoardInv, Alone, RequestHolds, Adding, Board!Idle
<1> HIDE DEF r, view
<1>6. BoardRows' /\ TrashedTogether'
  BY <1>1, <1>3, <1>4 DEF BoardInv, BoardRows, TrashedTogether
<1>7. \A x \in Card : card[x].phase # "none" => card'[x].phase # "none"
  BY <1>1, <1>2, <1>3
<1>8. \A v \in Client \ {w} : Adding(desk[v]) => card'[desk[v].c].phase = "none"
  BY <1>1, <1>3, <1>5
<1>9. \A v \in Client \ {w} : \A x \in DOMAIN desk[v].writes : desk[v].writes[x].trash => board'.trash
  BY <1>1 DEF BoardInv, RequestHolds
<1>10. BoardInv'
  BY <1>1, <1>6, <1>7, <1>8, <1>9, Changing
<1>11. Board!KeepsOrder
  <2>1. \A x \in Card : Board!IsLive(card, x) /\ Board!IsLive(card', x) => card'[x].pos = card[x].pos
    BY <1>1, <1>2, <1>3 DEF Board!IsLive
  <2> QED BY <1>1, <2>1, NonePasses
<1>12. Board!Lands
  BY <1>1, <1>4, NoneLands DEF r
<1> QED BY <1>10, <1>11, <1>12 DEF MoveStep

LEMMA VictimSteps ==
    ASSUME Board!BoardsAssumption, BoardInv, NEW w \in Client, Board!Victim(w)
    PROVE  MoveStep
BY Taking, StepOfDesk, IdleHolds DEF Board!Victim, Board!Keep, Board!Done

(* The steps that only change what is not about the order.                 *)
LEMMA NoteSteps ==
    ASSUME Board!BoardsAssumption, BoardInv, NEW w \in Client, NEW c \in Card,
           \/ \E p \in Holder \cup {NoOne} : Board!AssignCard(w, c, p)
           \/ Board!CreateComment(w, c) \/ Board!UpdateComment(w, c) \/ Board!DeleteComment(w, c)
    PROVE  MoveStep
<1>1. /\ desk[w].pc = "idle" /\ Board!Mover \ {w} = {} /\ UNCHANGED <<board, place, desk>>
      /\ card \in [Card -> CardRow]
  BY DEF Board!AssignCard, Board!CreateComment, Board!UpdateComment, Board!DeleteComment, Board!Touchable, Board!Begin, Board!Referring,
     BoardInv, BoardRows
<1>2. /\ card' \in [Card -> CardRow]
      /\ \A x \in Card : /\ card'[x].phase = card[x].phase /\ card'[x].trash = card[x].trash
                         /\ card'[x].pos = card[x].pos
  BY <1>1 DEF Board!AssignCard, Board!CreateComment, Board!UpdateComment, Board!DeleteComment, CardRow
<1>3. BoardRows' /\ TrashedTogether'
  BY <1>1, <1>2 DEF BoardInv, BoardRows, TrashedTogether
<1>4. \A v \in Client \ {w} : Adding(desk[v]) => card'[desk[v].c].phase = "none"
  <2>1. \A v \in Client \ {w} : Adding(desk[v]) => desk[v].c \in Card /\ card[desk[v].c].phase = "none"
    BY DEF BoardInv, RequestHolds, Adding, Board!Idle
  <2> QED BY <1>2, <2>1
<1>5. \A v \in Client \ {w} : \A x \in DOMAIN desk[v].writes : desk[v].writes[x].trash => board'.trash
  BY <1>1 DEF BoardInv, RequestHolds
<1>6. BoardInv'
  BY <1>1, <1>2, <1>3, <1>4, <1>5, Changing
<1>7. Board!KeepsOrder
  BY <1>1, <1>2, NonePasses
<1>8. Board!Lands
  BY <1>1, NoneLands
<1> QED BY <1>6, <1>7, <1>8 DEF MoveStep
LEMMA ListSteps ==
    ASSUME Board!BoardsAssumption, BoardInv, NEW w \in Client,
           (\E l \in BoardList : Board!CreateList(w, l)) \/ Board!ReorderLists(w) \/ Board!UpdateBoard(w)
    PROVE  MoveStep
<1>1. /\ desk[w].pc = "idle" /\ Board!Mover \ {w} = {} /\ UNCHANGED <<card, desk>> /\ board'.trash = board.trash
      /\ board' \in [trash : BOOLEAN, archived : BOOLEAN, was : BOOLEAN]
  BY DEF Board!CreateList, Board!ReorderLists, Board!UpdateBoard, Board!Begin, BoardInv, BoardRows
<1>2. /\ place' = [l \in BoardList |-> place'[l]]
      /\ \A l \in BoardList : DOMAIN place'[l] = {"phase", "pos"}
      /\ board.trash => \A l \in BoardList : place'[l].phase # "live"
  <2>1. CASE \E l \in BoardList : Board!CreateList(w, l)
    <3>1. PICK l \in BoardList :
            ~board.trash /\ \E n : place' = [place EXCEPT ![l] = [phase |-> "live", pos |-> n]]
      BY <2>1 DEF Board!CreateList, Board!BoardOpen
    <3> QED BY <3>1 DEF BoardInv, BoardRows
  <2>2. CASE Board!ReorderLists(w)
    <3>1. PICK order : place' = [l \in BoardList |-> IF l \in Board!LiveLists THEN [place[l] EXCEPT !.pos = order[l]]
                                                ELSE place[l]]
      BY <2>2 DEF Board!ReorderLists
    <3> QED BY <3>1 DEF BoardInv, BoardRows, TrashedTogether
  <2>3. CASE Board!UpdateBoard(w)
    BY <2>3 DEF Board!UpdateBoard, BoardInv, BoardRows, TrashedTogether
  <2> QED BY <2>1, <2>2, <2>3
<1>3. BoardRows' /\ TrashedTogether'
  BY <1>1, <1>2 DEF BoardInv, BoardRows, TrashedTogether
<1>4. \A v \in Client \ {w} : Adding(desk[v]) => card'[desk[v].c].phase = "none"
  BY <1>1 DEF BoardInv, RequestHolds
<1>5. \A v \in Client \ {w} : \A x \in DOMAIN desk[v].writes : desk[v].writes[x].trash => board'.trash
  BY <1>1 DEF BoardInv, RequestHolds
<1> QED BY <1>1, <1>3, <1>4, <1>5, Changing, StepOfDesk

LEMMA TrashSteps ==
    ASSUME Board!BoardsAssumption, BoardInv, NEW w \in Client, Board!DeleteBoard(w) \/ Board!RestoreBoard(w)
    PROVE  MoveStep
<1>1. /\ desk[w].pc = "idle" /\ Board!Mover \ {w} = {} /\ Board!Quiet /\ UNCHANGED desk /\ card \in [Card -> CardRow]
      /\ board' \in [trash : BOOLEAN, archived : BOOLEAN, was : BOOLEAN]
  <2>1. desk[w].pc = "idle" /\ Board!Mover = {} /\ Board!Quiet /\ UNCHANGED desk
    BY DEF Board!DeleteBoard, Board!RestoreBoard, Board!Quiet, Board!Begin
  <2>2. \/ board' = [trash |-> TRUE, archived |-> TRUE, was |-> board.archived]
        \/ board' = [trash |-> FALSE, archived |-> board.was, was |-> FALSE]
    BY DEF Board!DeleteBoard, Board!RestoreBoard
  <2>3. board.archived \in BOOLEAN /\ board.was \in BOOLEAN /\ card \in [Card -> CardRow]
    BY DEF BoardInv, BoardRows
  <2>4. board' \in [trash : BOOLEAN, archived : BOOLEAN, was : BOOLEAN]
    <3>1. CASE board' = [trash |-> TRUE, archived |-> TRUE, was |-> board.archived]
      BY <2>3, <3>1
    <3>2. CASE board' = [trash |-> FALSE, archived |-> board.was, was |-> FALSE]
      BY <2>3, <3>2
    <3> QED BY <2>2, <3>1, <3>2
  <2> QED BY <2>1, <2>3, <2>4
<1>2. /\ card' \in [Card -> CardRow]
      /\ \A x \in Card : card'[x].phase = card[x].phase /\ card'[x].pos = card[x].pos
      /\ \A x \in Card : card'[x].trash => board'.trash
  <2>1. CASE Board!DeleteBoard(w)
    <3>1. board'.trash
      BY <2>1 DEF Board!DeleteBoard
    <3>2. card' = [c \in Card |-> [card[c] EXCEPT !.trash = card[c].trash \/ card[c].phase # "none"]]
      BY <2>1 DEF Board!DeleteBoard
    <3> QED BY <1>1, <3>1, <3>2 DEF CardRow
  <2>2. CASE Board!RestoreBoard(w)
    <3>1. card' = [c \in Card |-> [card[c] EXCEPT !.trash = FALSE]]
      BY <2>2 DEF Board!RestoreBoard, Board!Untrashed
    <3>2. ASSUME NEW x \in Card
          PROVE  /\ card'[x] \in CardRow /\ ~card'[x].trash
                 /\ card'[x].phase = card[x].phase /\ card'[x].pos = card[x].pos
      BY <1>1, <3>1 DEF CardRow
    <3> QED BY <3>1, <3>2
  <2> QED BY <2>1, <2>2
<1>3. /\ place' = [l \in BoardList |-> place'[l]]
      /\ \A l \in BoardList : DOMAIN place'[l] = {"phase", "pos"}
      /\ board'.trash => \A l \in BoardList : place'[l].phase # "live"
  BY <1>1 DEF Board!DeleteBoard, Board!RestoreBoard, BoardInv, BoardRows
<1>4. BoardRows' /\ TrashedTogether'
  BY <1>1, <1>2, <1>3 DEF BoardInv, BoardRows, TrashedTogether
<1>5. \A v \in Client \ {w} : Adding(desk[v]) => card'[desk[v].c].phase = "none"
  <2>1. \A v \in Client \ {w} : Adding(desk[v]) => desk[v].c \in Card /\ card[desk[v].c].phase = "none"
    BY DEF BoardInv, RequestHolds, Adding, Board!Idle
  <2> QED BY <1>2, <2>1
<1>6. \A v \in Client \ {w} : \A x \in DOMAIN desk[v].writes : desk[v].writes[x].trash => board'.trash
  BY <1>1 DEF Board!Quiet, Board!Holds, BoardInv, RequestHolds
<1>7. BoardInv'
  BY <1>1, <1>2, <1>4, <1>5, <1>6, Changing
<1>8. Board!KeepsOrder
  BY <1>1, <1>2, NonePasses
<1>9. Board!Lands
  BY <1>1, NoneLands
<1> QED BY <1>7, <1>8, <1>9 DEF MoveStep

-----------------------------------------------------------------------------
LEMMA BoardInvInit == ASSUME Board!BoardsAssumption, Board!Init PROVE BoardInv
<1>1. \A c \in Card : card[c] \in CardRow /\ ~card[c].trash
  <2> SUFFICES ASSUME NEW c \in Card PROVE card[c] \in CardRow /\ ~card[c].trash
    OBVIOUS
  <2>1. CASE Board!ListAtFirst(c) = {}
    <3>1. card[c] = Board!Absent(c)
      BY <2>1, Zenon DEF Board!Init
    <3> QED BY <3>1 DEF Board!Absent, CardRow
  <2>2. CASE Board!ListAtFirst(c) # {}
    <3> DEFINE l == CHOOSE k \in Board!ListAtFirst(c) : TRUE
               i == CHOOSE n \in DOMAIN Places[l] : Places[l][n] = c
    <3>1. l \in Board!ListAtFirst(c)
      BY <2>2
    <3>2. l \in BoardList /\ \E n \in DOMAIN Places[l] : Places[l][n] = c
      BY <3>1 DEF Board!ListAtFirst
    <3>3. i \in DOMAIN Places[l] /\ Places[l] \in Seq(Card)
      BY <3>2 DEF Board!BoardsAssumption
    <3>4. i \in Int
      BY <3>3
    <3>5. card[c] = [Board!Absent(c) EXCEPT !.phase = "live", !.list = l, !.pos = i - 1]
      BY <2>2, Zenon DEF Board!Init
    <3> HIDE DEF l, i
    <3>6. card[c] = [phase |-> "live", trash |-> FALSE, list |-> l, pos |-> i - 1, holder |-> NoOne,
                     note |-> "none"]
      BY <3>5 DEF Board!Absent
    <3>7. i - 1 \in Int /\ l \in BoardList
      BY <3>2, <3>4
    <3> QED BY <3>6, <3>7 DEF CardRow
  <2> QED BY <2>1, <2>2
<1>2. card \in [Card -> CardRow]
  BY <1>1, Zenon DEF Board!Init
<1>3. \A w \in Client : desk[w] = Board!Idle
  BY Zenon DEF Board!Init
<1>4. /\ board = [trash |-> FALSE, archived |-> FALSE, was |-> FALSE]
      /\ desk = [w \in Client |-> desk[w]]
      /\ place = [l \in BoardList |-> place[l]] /\ \A l \in BoardList : DOMAIN place[l] = {"phase", "pos"}
  BY Zenon DEF Board!Init
<1>5. BoardRows /\ TrashedTogether
  BY <1>1, <1>2, <1>4 DEF BoardRows, TrashedTogether
<1> QED BY <1>3, <1>5, IdleHolds DEF BoardInv, Alone

LEMMA BoardInvStep ==
    ASSUME Board!BoardsAssumption, BoardInv, [Board!Next]_(Board!vars)
    PROVE  BoardInv' /\ ((Board!KeepsOrder /\ Board!Lands) \/ UNCHANGED Board!vars)
<1>1. CASE Board!Next
  <2>1. PICK w \in Client :
          \/ \E l \in BoardList : Board!CreateList(w, l)
          \/ Board!ReorderLists(w) \/ Board!UpdateBoard(w) \/ Board!DeleteBoard(w) \/ Board!RestoreBoard(w)
          \/ \E c \in Card : \/ \E l \in BoardList :
                                   \/ Board!CreateCard(w, c, l)
                                   \/ \E b \in Card \cup {NoCard} : Board!MoveCard(w, c, l, b)
                             \/ Board!DeleteCard(w, c)
                             \/ \E p \in Holder \cup {NoOne} : Board!AssignCard(w, c, p)
                             \/ Board!CreateComment(w, c) \/ Board!UpdateComment(w, c) \/ Board!DeleteComment(w, c)
          \/ Board!ChoosePosition(w) \/ Board!InsertCard(w)
          \/ Board!LockBoard(w) \/ Board!WriteMove(w) \/ Board!CommitMove(w)
          \/ Board!ArchiveCard(w) \/ Board!LookAtList(w) \/ Board!Compact(w) \/ Board!CommitDelete(w)
          \/ Board!Victim(w)
    BY <1>1 DEF Board!Next
  <2>2. ASSUME NEW c \in Card,
               \/ \E l \in BoardList :
                     \/ Board!CreateCard(w, c, l)
                     \/ \E b \in Card \cup {NoCard} : Board!MoveCard(w, c, l, b)
               \/ Board!DeleteCard(w, c)
               \/ \E p \in Holder \cup {NoOne} : Board!AssignCard(w, c, p)
               \/ Board!CreateComment(w, c) \/ Board!UpdateComment(w, c) \/ Board!DeleteComment(w, c)
        PROVE  MoveStep
    BY <2>2, AddingSteps, RequestSteps, NoteSteps
  <2>3. CASE \/ \E l \in BoardList : Board!CreateList(w, l)
             \/ Board!ReorderLists(w) \/ Board!UpdateBoard(w) \/ Board!DeleteBoard(w) \/ Board!RestoreBoard(w)
    BY <2>3, ListSteps, TrashSteps DEF MoveStep
  <2>4. CASE Board!ChoosePosition(w) \/ Board!InsertCard(w) \/ Board!LockBoard(w) \/ Board!WriteMove(w) \/ Board!CommitMove(w)
    BY <2>4, AddingSteps, InsertSteps, LockSteps, WriteSteps, CommitSteps DEF MoveStep
  <2>5. CASE Board!ArchiveCard(w) \/ Board!LookAtList(w) \/ Board!Compact(w) \/ Board!CommitDelete(w) \/ Board!Victim(w)
    BY <2>5, ArchiveSteps, CompactSteps, DeleteSteps, VictimSteps DEF MoveStep
  <2> QED BY <2>1, <2>2, <2>3, <2>4, <2>5 DEF MoveStep
<1>2. CASE UNCHANGED Board!vars
  <2>1. UNCHANGED <<board, place, card, desk>>
    BY <1>2 DEF Board!vars
  <2>2. ASSUME NEW w \in Client PROVE RequestHolds(desk[w])'
    <3> DEFINE q == desk[w]
    <3>1. RequestHolds(q)
      BY DEF BoardInv
    <3> HIDE DEF q
    <3>2. card' = card /\ board' = board /\ desk'[w] = q
      BY <2>1 DEF q
    <3> QED BY <3>1, <3>2 DEF RequestHolds, Ordered, WroteMove, WroteRest, There, Board!Spot, Board!InOrder, Adding,
         Moving, Archiving
  <2>3. BoardRows' /\ TrashedTogether' /\ Alone'
    BY <2>1 DEF BoardInv, BoardRows, TrashedTogether, Alone, Adding, Moving
  <2> QED BY <1>2, <2>2, <2>3 DEF BoardInv
<1> QED BY <1>1, <1>2 DEF MoveStep

LEMMA BoardsMove ==
    ASSUME [SiteNext]_site, Is("boards") PROVE Is("boards")' /\ [Board!Next]_(Board!vars)
<1>1. part = "boards" /\ part' = part
  BY PartStays DEF Is
<1>2. CASE SiteNext
  <2>1. Board!Next \/ UNCHANGED boards
    BY <1>1, <1>2 DEF SiteNext, Is, Others
  <2> QED BY <1>1, <2>1 DEF Is, boards, Board!vars
<1>3. CASE UNCHANGED site
  BY <1>1, <1>3 DEF Is, site, boards, Board!vars
<1> QED BY <1>2, <1>3

(* Cards keep their order in a list but for the one that is moved, which   *)
(* ends right before the card that was named, however moves, archives and  *)
(* additions overlap, but for the two races that Boards names.             *)
THEOREM CardsKeepOrder == SiteSpec => MovesKeepOrder
<1> DEFINE I == Is("boards") => BoardInv
<1>0. Board!BoardsAssumption
  BY SiteAssumption
<1>1. SiteInit => I
  BY <1>0, BoardInvInit DEF SiteInit, Is
<1>2. I /\ [SiteNext]_site => I' /\ [Is("boards") => Board!KeepsOrder /\ Board!Lands]_boards
  <2> SUFFICES ASSUME I, [SiteNext]_site
               PROVE  I' /\ [Is("boards") => Board!KeepsOrder /\ Board!Lands]_boards
    OBVIOUS
  <2>1. CASE Is("boards")
    <3>1. Is("boards")' /\ [Board!Next]_(Board!vars)
      BY <2>1, BoardsMove
    <3>2. BoardInv' /\ ((Board!KeepsOrder /\ Board!Lands) \/ UNCHANGED Board!vars)
      BY <1>0, <2>1, <3>1, BoardInvStep
    <3>3. UNCHANGED Board!vars => UNCHANGED boards
      BY DEF Board!vars, boards
    <3> QED BY <3>2, <3>3
  <2>2. CASE ~Is("boards")
    BY <2>2, PartStays DEF Is
  <2> QED BY <2>1, <2>2
<1> HIDE DEF I
<1> QED BY <1>1, <1>2, PTL DEF SiteSpec, MovesKeepOrder
=============================================================================
