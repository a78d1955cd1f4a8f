------------------------------- MODULE Identity -------------------------------
(***************************************************************************)
(* The accounts of mavi-identity: people, roles and what they grant,       *)
(* sessions, keys, and the one-time tokens of password resets and email    *)
(* verification.  A request is authenticated in a transaction of its own;  *)
(* its operation is another, whose statements lock a person's row (an      *)
(* issuer), a token's row (a redeemer) or roles (whoever assigns them,     *)
(* shared).  What a caller may do is what authentication read: of a person *)
(* who signed in, the grants of the roles by then, and of an assistant,    *)
(* the grants that its key was given when it was created.                  *)
(***************************************************************************)
EXTENDS Integers, FiniteSets

CONSTANTS
    Person, Owner, Founder,   \* Owner: the role of setup; Founder: the person it makes
    Role, Grant, Manage,      \* Manage: the grants on people, roles and keys
    Token, Session, Key, Client,
    Lifetime,  \* of a token
    Window, MaxRequests,      \* AUTH_REQUEST_WINDOW, MAX_AUTH_REQUESTS_PER_WINDOW
    LastTime, Requests        \* bounds on the clock and on requests

IdentityAssumption ==
    /\ Owner \in Role /\ Founder \in Person /\ Manage \in Grant
    /\ Token \subseteq Nat /\ Lifetime \in Nat \ {0}
    /\ Window \in Nat \ {0} /\ MaxRequests \in Nat \ {0}

Purpose == {"reset", "verify"}

VARIABLES people, role, token, session, key, throttle, desk, clock, requestsLeft

accounts == <<people, role, session, key>>
vars == <<people, role, token, session, key, throttle, desk, clock, requestsLeft>>

NoPerson == [phase |-> "none", verified |-> FALSE, secret |-> 0, roles |-> {}]
NoRole   == [phase |-> "none", grants |-> {}]
NoToken  == [state |-> "none", of |-> Founder, why |-> "reset", till |-> 0, uses |-> 0]
NoPass   == [state |-> "none", of |-> Founder]
NoKey    == [state |-> "none", of |-> Founder, grants |-> {}]
Nobody   == <<"nobody">>
Idle     == [pc |-> "idle", by |-> Nobody, as |-> Founder, held |-> {}, who |-> Founder, why |-> "reset",
             roles |-> {}, t |-> 0, at |-> 0, gone |-> {}]

\* A new site, or one that is set up, with a colleague and both signed in.
Init ==
    /\ \/ /\ people = [p \in Person |-> NoPerson] /\ role = [r \in Role |-> NoRole]
          /\ session = [s \in Session |-> NoPass]
       \/ \E q \in Person \ {Founder}, sign \in [Session -> Person] :
             /\ {sign[s] : s \in Session} = {Founder, q}
             /\ people = [p \in Person |->
                   CASE p = Founder -> [NoPerson EXCEPT !.phase = "active", !.verified = TRUE, !.roles = {Owner}]
                     [] p = q -> [NoPerson EXCEPT !.phase = "active", !.roles = {Owner}]
                     [] OTHER -> NoPerson]
             /\ role = [r \in Role |-> [phase |-> "live", grants |-> IF r = Owner THEN Grant ELSE {}]]
             /\ session = [s \in Session |-> [state |-> "live", of |-> sign[s]]]
    /\ token = [t \in Token |-> NoToken]
    /\ key = [k \in Key |-> NoKey]
    /\ throttle = [x \in Person \X Purpose |-> [start |-> 0, count |-> 0]]
    /\ desk = [c \in Client |-> Idle]
    /\ clock = 0 /\ requestsLeft = Requests

Take(c, r) == desk' = [desk EXCEPT ![c] = r]
Done(c)    == Take(c, Idle)
Begin(c)   == desk[c].pc = "idle" /\ requestsLeft > 0 /\ requestsLeft' = requestsLeft - 1
Within     == UNCHANGED requestsLeft
Still      == UNCHANGED <<throttle, clock>>

GrantsOf(p) == UNION {role[r].grants : r \in people[p].roles}

----------------------------------------------------------------------------
(* Setup and signing in.                                                   *)

Initialize(c) ==
    /\ Begin(c) /\ \A p \in Person : people[p].phase = "none"
    /\ people' = [people EXCEPT ![Founder] = [NoPerson EXCEPT !.phase = "active", !.verified = TRUE,
                                                              !.roles = {Owner}]]
    /\ role' = [role EXCEPT ![Owner] = [phase |-> "live", grants |-> Grant]]
    /\ UNCHANGED <<token, session, key, desk>> /\ Still

\* create_session: the row is read, then the session inserted.
CreateSession(c, p) ==
    /\ Begin(c) /\ people[p].phase = "active" /\ people[p].verified
    /\ Take(c, [Idle EXCEPT !.pc = "signing", !.who = p])
    /\ UNCHANGED <<accounts, token>> /\ Still

OpenSession(c, s) ==
    /\ desk[c].pc = "signing" /\ session[s].state = "none"
    /\ session' = [session EXCEPT ![s] = [state |-> "live", of |-> desk[c].who]]
    /\ Done(c) /\ Within
    /\ UNCHANGED <<people, role, key, token>> /\ Still

\* authenticate_bearer, which commits before the operation begins: an account has the grants
\* of its person's roles, an assistant those of its key.
Caller(c, p, by, grants) ==
    Take(c, [Idle EXCEPT !.pc = "in", !.by = by, !.as = p, !.held = grants])

AuthenticateBearer(c, p) ==
    /\ Begin(c) /\ people[p].phase = "active"
    /\ \/ \E s \in Session : /\ session[s] = [state |-> "live", of |-> p]
                             /\ Caller(c, p, <<"session", s>>, GrantsOf(p))
       \/ \E k \in Key : /\ key[k].state = "live" /\ key[k].of = p
                         /\ Caller(c, p, <<"key", k>>, key[k].grants)
    /\ UNCHANGED <<accounts, token>> /\ Still

Account(c) == \E s \in Session : desk[c].by = <<"session", s>>

RevokeCurrent(c, s) ==
    /\ desk[c].pc = "in" /\ desk[c].by = <<"session", s>>
    /\ session' = [session EXCEPT ![s].state = "revoked"]
    /\ Done(c) /\ Within
    /\ UNCHANGED <<people, role, key, token>> /\ Still

----------------------------------------------------------------------------
(* One-time tokens.                                                        *)

\* The clock is read before the person's row is locked.
RequestToken(c, p, why) ==
    /\ Begin(c) /\ people[p].phase # "none"
    /\ Take(c, [Idle EXCEPT !.pc = "asking", !.who = p, !.why = why, !.at = clock])
    /\ UNCHANGED <<accounts, token>> /\ Still

\* A bug: the row is read without its lock.
PersonRead(c, p) == c \in Client /\ p \in Person

PersonFree(c, p) == \A d \in Client \ {c} : desk[d].pc \in {"issuing", "issued"} => desk[d].who # p
TokenFree(c, t)  == \A d \in Client \ {c} : desk[d].pc = "redeeming" => desk[d].t # t

Eligible(p, why) == people[p].phase = "active" /\ (why = "verify" => ~people[p].verified)

\* allow_auth_request
Allowed(row, at) == row.count = 0 \/ at - row.start >= Window \/ row.count < MaxRequests
Counted(row, at) == IF row.count = 0 \/ at - row.start >= Window THEN [start |-> at, count |-> 1]
                    ELSE [row EXCEPT !.count = @ + 1]

LockPerson(c) ==
    LET r == desk[c]
        row == throttle[<<r.who, r.why>>]
    IN  /\ r.pc = "asking" /\ PersonFree(c, r.who)
        /\ IF Eligible(r.who, r.why) /\ Allowed(row, r.at)
             THEN Take(c, [r EXCEPT !.pc = "issuing"])
             ELSE Done(c)
        /\ Within /\ UNCHANGED <<accounts, token>> /\ Still

OpenOf(p, why) == {t \in Token : token[t].state = "open" /\ token[t].of = p /\ token[t].why = why}

\* The person's open tokens are revoked, in the statement that waits for whoever redeems one.
RevokeOpenTokens(c) ==
    LET r == desk[c]
    IN  /\ r.pc = "issuing"
        /\ \A t \in OpenOf(r.who, r.why) : TokenFree(c, t)
        /\ Take(c, [r EXCEPT !.pc = "issued", !.gone = OpenOf(r.who, r.why)])
        /\ Within /\ UNCHANGED <<accounts, token>> /\ Still

IssueToken(c, t) ==
    LET r == desk[c]
    IN  /\ r.pc = "issued" /\ token[t].state = "none"
        /\ \A u \in Token : u < t => token[u].state # "none"
        /\ token' = [u \in Token |->
              CASE u = t -> [state |-> "open", of |-> r.who, why |-> r.why, till |-> r.at + Lifetime, uses |-> 0]
                [] u \in r.gone -> [token[u] EXCEPT !.state = "revoked"]
                [] OTHER -> token[u]]
        /\ throttle' = [throttle EXCEPT ![<<r.who, r.why>>] = Counted(@, r.at)]
        /\ Done(c) /\ Within
        /\ UNCHANGED <<accounts, clock>>

\* redeem_password_reset, redeem_email_verification: the token's row is locked.
LockToken(c, t) ==
    /\ Begin(c) /\ token[t].state = "open" /\ token[t].till > clock
    /\ TokenFree(c, t)
    /\ \A d \in Client : desk[d].pc = "issued" => t \notin desk[d].gone
    /\ Take(c, [Idle EXCEPT !.pc = "redeeming", !.t = t, !.who = token[t].of, !.why = token[t].why])
    /\ UNCHANGED <<accounts, token>> /\ Still

Redeem(c) ==
    LET r == desk[c]
        reset == r.why = "reset"
    IN  /\ r.pc = "redeeming" /\ PersonFree(c, r.who)
        /\ IF Eligible(r.who, r.why)
             THEN /\ people' = [people EXCEPT ![r.who].secret = IF reset THEN @ + 1 ELSE @,
                                              ![r.who].verified = @ \/ ~reset]
                  /\ token' = [t \in Token |->
                        CASE t = r.t -> [token[t] EXCEPT !.state = IF @ = "open" THEN "used" ELSE @,
                                                         !.uses = @ + 1]
                          [] t \in OpenOf(r.who, r.why) \ {r.t} -> [token[t] EXCEPT !.state = "revoked"]
                          [] OTHER -> token[t]]
                  /\ session' = [s \in Session |->
                        IF reset /\ session[s] = [state |-> "live", of |-> r.who]
                          THEN [session[s] EXCEPT !.state = "revoked"] ELSE session[s]]
             ELSE UNCHANGED <<people, token, session>>
        /\ Done(c) /\ Within /\ UNCHANGED <<role, key>> /\ Still

\* An issuer has the person and waits for a token; its redeemer has that and waits for the person.
Entangled(c, d) ==
    /\ desk[c].pc = "issuing" /\ desk[d].pc = "redeeming"
    /\ desk[d].who = desk[c].who /\ desk[d].t \in OpenOf(desk[c].who, desk[c].why)

Victim(c) ==
    /\ \E d \in Client : Entangled(c, d) \/ Entangled(d, c)
    /\ Done(c) /\ Within
    /\ UNCHANGED <<accounts, token>> /\ Still

----------------------------------------------------------------------------
(* People and roles.                                                       *)

Admin(c) == desk[c].pc = "in" /\ Manage \in desk[c].held /\ Within
Shared(r) == \E d \in Client : desk[d].pc \in {"adding", "giving"} /\ r \in desk[d].roles

\* ensure_roles_are_delegable: locks the roles that are given, shared, and reads what they grant.
Delegable(c, given) ==
    /\ \A r \in given : role[r].phase = "live"
    /\ UNION {role[r].grants : r \in given} \subseteq desk[c].held

CreatePerson(c, p, given) ==
    /\ Admin(c) /\ people[p].phase = "none" /\ Delegable(c, given)
    /\ Take(c, [desk[c] EXCEPT !.pc = "adding", !.who = p, !.roles = given])
    /\ UNCHANGED <<accounts, token>> /\ Still

ReplacePersonRoles(c, p, given) ==
    /\ Admin(c) /\ p # desk[c].as /\ people[p].phase # "none" /\ Delegable(c, given)
    /\ Take(c, [desk[c] EXCEPT !.pc = "giving", !.who = p, !.roles = given])
    /\ UNCHANGED <<accounts, token>> /\ Still

\* A role that is gone fails the insertion, and a person that is there already.
WriteRoles(c) ==
    LET r == desk[c]
        there == \A x \in r.roles : role[x].phase = "live"
    IN  /\ \/ r.pc = "adding"
           \/ r.pc = "giving" /\ PersonFree(c, r.who)
        /\ people' = CASE r.pc = "adding" /\ there /\ people[r.who].phase = "none" ->
                            [people EXCEPT ![r.who] = [NoPerson EXCEPT !.phase = "active", !.roles = r.roles]]
                       [] r.pc = "giving" /\ there -> [people EXCEPT ![r.who].roles = r.roles]
                       [] OTHER -> people
        /\ Done(c) /\ Within
        /\ UNCHANGED <<role, session, key, token>> /\ Still

\* Suspended: sessions and keys end with it.
Ended(passes, p) == [x \in DOMAIN passes |-> IF passes[x].state = "live" /\ passes[x].of = p
                                             THEN [passes[x] EXCEPT !.state = "revoked"] ELSE passes[x]]

\* An assistant may suspend the person it works for.
UpdatePersonStatus(c, p, status) ==
    /\ Admin(c) /\ people[p].phase # "none" /\ PersonFree(c, p)
    /\ (Account(c) /\ p = desk[c].as => status = "active")
    /\ people' = [people EXCEPT ![p].phase = status]
    /\ session' = IF status = "active" THEN session ELSE Ended(session, p)
    /\ key' = IF status = "active" THEN key ELSE Ended(key, p)
    /\ Done(c) /\ UNCHANGED <<role, token>> /\ Still

CreateRole(c, r, grants) ==
    /\ Admin(c) /\ role[r].phase = "none" /\ grants \subseteq desk[c].held
    /\ role' = [role EXCEPT ![r] = [phase |-> "live", grants |-> grants]]
    /\ Done(c) /\ UNCHANGED <<people, session, key, token>> /\ Still

\* These two lock the role, and so wait for who assigns it.
\* A bug: the assignment does not share its lock.
RoleRead(r) == r # Owner /\ role[r].phase = "live"

RoleFree(r) == r # Owner /\ role[r].phase = "live" /\ ~Shared(r)

DeleteRole(c, r) ==
    /\ Admin(c) /\ RoleFree(r)
    /\ \A p \in Person : r \notin people[p].roles
    /\ role' = [role EXCEPT ![r] = [phase |-> "gone", grants |-> {}]]
    /\ Done(c) /\ UNCHANGED <<people, session, key, token>> /\ Still

ReplaceRoleGrants(c, r, grants) ==
    /\ Admin(c) /\ RoleFree(r) /\ grants \subseteq desk[c].held
    /\ role' = [role EXCEPT ![r].grants = grants]
    /\ Done(c) /\ UNCHANGED <<people, session, key, token>> /\ Still

\* A key keeps the grants it is given, whatever becomes of its creator's roles.
CreateApiKey(c, k, grants) ==
    /\ Admin(c) /\ Account(c) /\ key[k].state = "none"
    /\ grants # {} /\ grants \subseteq desk[c].held
    /\ key' = [key EXCEPT ![k] = [state |-> "live", of |-> desk[c].as, grants |-> grants]]
    /\ Done(c) /\ UNCHANGED <<people, role, session, token>> /\ Still

\* An assistant revokes no key but its own.
RevokeApiKey(c, k) ==
    /\ Admin(c) /\ key[k].state = "live"
    /\ Account(c) \/ desk[c].by = <<"key", k>>
    /\ key' = [key EXCEPT ![k].state = "revoked"]
    /\ Done(c) /\ UNCHANGED <<people, role, session, token>> /\ Still

Tick ==
    /\ clock < LastTime /\ clock' = clock + 1
    /\ UNCHANGED <<accounts, token, throttle, desk, requestsLeft>>

Next ==
    \/ Tick
    \/ \E c \in Client :
          \/ Initialize(c) \/ LockPerson(c) \/ RevokeOpenTokens(c) \/ Redeem(c) \/ Victim(c) \/ WriteRoles(c)
          \/ \E s \in Session : OpenSession(c, s) \/ RevokeCurrent(c, s)
          \/ \E t \in Token : IssueToken(c, t) \/ LockToken(c, t)
          \/ \E k \in Key : \/ RevokeApiKey(c, k)
                            \/ \E g \in SUBSET Grant : CreateApiKey(c, k, g)
          \/ \E r \in Role : \/ DeleteRole(c, r)
                             \/ \E g \in SUBSET Grant : CreateRole(c, r, g) \/ ReplaceRoleGrants(c, r, g)
          \/ \E p \in Person :
                \/ CreateSession(c, p) \/ AuthenticateBearer(c, p)
                \/ \E why \in Purpose : RequestToken(c, p, why)
                \/ \E given \in SUBSET Role : CreatePerson(c, p, given) \/ ReplacePersonRoles(c, p, given)
                \/ \E status \in {"active", "suspended"} : UpdatePersonStatus(c, p, status)

Spec == Init /\ [][Next]_vars

----------------------------------------------------------------------------
TypeOK ==
    /\ people \in [Person -> [phase : {"none", "active", "suspended"}, verified : BOOLEAN,
                              secret : Nat, roles : SUBSET Role]]
    /\ role \in [Role -> [phase : {"none", "live", "gone"}, grants : SUBSET Grant]]
    /\ \A t \in Token : token[t].state \in {"none", "open", "used", "revoked"}
    /\ session \in [Session -> [state : {"none", "live", "revoked"}, of : Person]]
    /\ key \in [Key -> [state : {"none", "live", "revoked"}, of : Person, grants : SUBSET Grant]]

\* One token at a time works for a person and a purpose.
OneOpenToken == \A p \in Person, why \in Purpose : Cardinality(OpenOf(p, why)) <= 1

\* What a token does, it does once.
UsedOnce == \A t \in Token : token[t].uses <= 1

\* The tokens of a window, each at its request's clock.
InWindow(p, why) == {t \in Token : /\ token[t].state # "none" /\ token[t].of = p /\ token[t].why = why
                                   /\ token[t].till - Lifetime - throttle[<<p, why>>].start \in 0 .. Window - 1}

WindowHolds == \A p \in Person, why \in Purpose : Cardinality(InWindow(p, why)) <= MaxRequests

\* Password changes are the redeemed resets.
SecretsCount == \A p \in Person :
    people[p].secret = Cardinality({t \in Token : token[t].of = p /\ token[t].why = "reset" /\ token[t].uses > 0})

(* Requests for a token that overlap leave one that works, at most so many *)
(* in a window, and redemptions that overlap, with each other and with     *)
(* requests, change a password once a token.                               *)
TokensHold == OneOpenToken /\ UsedOnce /\ WindowHolds /\ SecretsCount

(* Roles are given as they were read: the insertion never meets a role     *)
(* that is gone, or one that grants by now more than the giver was found   *)
(* to hold when it was authenticated, whatever deletions and new grants    *)
(* of roles arrive in between.                                             *)
RolesAreGivenAsRead ==
    \A c \in Client : desk[c].pc \in {"adding", "giving"} => Delegable(c, desk[c].roles)

(* Who gives a role has, when it is given, what it grants.  Not so: the    *)
(* grants of the giver were read in an earlier transaction, and the roles  *)
(* it had may be replaced in between.                                      *)
GiversStillHold ==
    \A c \in Client : desk[c].pc \in {"adding", "giving"} =>
        UNION {role[r].grants : r \in desk[c].roles} \subseteq GrantsOf(desk[c].as)

(* Requests for a token and redemptions never wait for each other.  Not    *)
(* so: they lock the person and the token in opposite orders.              *)
LocksAreOrdered == \A c, d \in Client : ~Entangled(c, d)

(* A site that is set up keeps somebody who manages it.  Not so: two       *)
(* managers suspend each other, or an assistant its own person.            *)
SomebodyManages ==
    (\E p \in Person : people[p].phase # "none")
        => \E p \in Person : people[p].phase = "active" /\ Manage \in GrantsOf(p)
===============================================================================
