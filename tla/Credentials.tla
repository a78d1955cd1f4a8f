----------------------------- MODULE Credentials -----------------------------
(***************************************************************************)
(* Credentials of external providers: a sealed payload with a version,     *)
(* replaced by who names the version it replaces, and revoked for good.    *)
(* A request reads the row without a lock and writes it by one statement.  *)
(***************************************************************************)
EXTENDS Naturals

CONSTANTS Credential, Name, Secret, Client,
          Calls               \* bound on requests

CredentialsAssumption == Calls \in Nat /\ Secret # {} /\ Name # {} /\ Credential # {}

VARIABLES
    credential,  \* site_credentials
    counter,     \* a client's request between its read and its write
    answers,     \* what clients were told, not in the code
    callsLeft

vars == <<credential, counter, answers, callsLeft>>

Row  == [state : {"none", "active", "revoked"}, name : Name, version : Nat, payload : Secret]
Task == [op : {"none", "rotate", "revoke"}, id : Credential, secret : Secret, expected : Nat]

AnyId     == CHOOSE i \in Credential : TRUE
AnySecret == CHOOSE s \in Secret : TRUE
NoTask    == [op |-> "none", id |-> AnyId, secret |-> AnySecret, expected |-> 0]

TypeOK ==
    /\ credential \in [Credential -> Row]
    /\ counter \in [Client -> Task]
    /\ answers \subseteq [id : Credential, op : {"create", "rotate", "unseal"},
                          expected : Nat, version : Nat \ {0}, secret : Secret]
    /\ callsLeft \in 0 .. Calls

Init ==
    /\ credential = [i \in Credential |-> [state |-> "none", name |-> CHOOSE n \in Name : TRUE,
                                           version |-> 0, payload |-> AnySecret]]
    /\ counter = [c \in Client |-> NoTask]
    /\ answers = {}
    /\ callsLeft = Calls

-----------------------------------------------------------------------------
Call          == callsLeft > 0 /\ callsLeft' = callsLeft - 1
Active(i)     == credential[i].state = "active"
NameFree(n)   == \A i \in Credential : Active(i) => credential[i].name # n
Done(c)       == counter' = [counter EXCEPT ![c] = NoTask]
Told(i, op, expected, version, secret) ==
    answers' = answers \cup {[id |-> i, op |-> op, expected |-> expected, version |-> version,
                              secret |-> secret]}

(* create: one insert, which the index of active names may refuse.         *)
Create(i, n, s) ==
    /\ Call
    /\ credential[i].state = "none" /\ NameFree(n)
    /\ credential' = [credential EXCEPT ![i] = [state |-> "active", name |-> n, version |-> 1,
                                                payload |-> s]]
    /\ Told(i, "create", 0, 1, s)
    /\ UNCHANGED counter

(* rotate, as far as its read: not revoked, and of the version named.      *)
ReadForRotate(c, i, s, expected) ==
    /\ Call
    /\ counter[c].op = "none"
    /\ Active(i) /\ credential[i].version = expected
    /\ counter' = [counter EXCEPT ![c] = [op |-> "rotate", id |-> i, secret |-> s,
                                          expected |-> expected]]
    /\ UNCHANGED <<credential, answers>>

\* Mutant: the update trusts the read.
ReplacesAny(i, expected) == Active(i)

(* The update names the version again, and that it is not revoked.         *)
Replaces(i, expected) == Active(i) /\ credential[i].version = expected

Rotate(c) ==
    LET t == counter[c] IN
    /\ t.op = "rotate"
    /\ Replaces(t.id, t.expected)
    /\ credential' = [credential EXCEPT ![t.id].version = @ + 1, ![t.id].payload = t.secret]
    /\ Told(t.id, "rotate", t.expected, credential[t.id].version + 1, t.secret)
    /\ Done(c)
    /\ UNCHANGED callsLeft

(* The version has moved on, or the connection is lost.                    *)
Fail(c) ==
    /\ counter[c].op # "none"
    /\ Done(c)
    /\ UNCHANGED <<credential, answers, callsLeft>>

(* revoke, as far as its read; a revoked one is answered at once.          *)
ReadForRevoke(c, i) ==
    /\ Call
    /\ counter[c].op = "none" /\ Active(i)
    /\ counter' = [counter EXCEPT ![c] = [NoTask EXCEPT !.op = "revoke", !.id = i]]
    /\ UNCHANGED <<credential, answers>>

(* The update passes by what was revoked meanwhile, and answers the same.  *)
Revoke(c) ==
    LET i == counter[c].id IN
    /\ counter[c].op = "revoke"
    /\ credential' = IF Active(i)
                     THEN [credential EXCEPT ![i].state = "revoked", ![i].version = @ + 1]
                     ELSE credential
    /\ Done(c)
    /\ UNCHANGED <<answers, callsLeft>>

(* unseal: one read, whatever follows it.                                  *)
Unseal(i) ==
    /\ Call
    /\ Active(i)
    /\ Told(i, "unseal", 0, credential[i].version, credential[i].payload)
    /\ UNCHANGED <<credential, counter>>

Next ==
    \/ \E i \in Credential, n \in Name, s \in Secret : Create(i, n, s)
    \/ \E c \in Client, i \in Credential, s \in Secret :
           \E expected \in 1 .. credential[i].version : ReadForRotate(c, i, s, expected)
    \/ \E c \in Client, i \in Credential : ReadForRevoke(c, i)
    \/ \E c \in Client : Rotate(c) \/ Revoke(c) \/ Fail(c)
    \/ \E i \in Credential : Unseal(i)

Spec == Init /\ [][Next]_vars

-----------------------------------------------------------------------------
(* A version has one payload, whoever was told of it, and a rotation that  *)
(* was answered replaced the version its client named: of rotations that   *)
(* overlap one wins and the others are told to read again.                 *)
VersionsHold ==
    /\ \A a, b \in answers : a.id = b.id /\ a.version = b.version => a.secret = b.secret
    /\ \A a \in answers : a.op = "rotate" => a.version = a.expected + 1

(* What is revoked is never changed again, by a rotation or a second       *)
(* revocation that read it before.                                         *)
RevokedStays ==
    \A i \in Credential :
        credential[i].state = "revoked" => credential'[i] = credential[i]

CredentialsStep == VersionsHold' /\ RevokedStays
=============================================================================
