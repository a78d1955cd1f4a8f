--------------------------- MODULE AccountProofs ---------------------------
(***************************************************************************)
(* Proofs about the people of a site and what it exchanges with others,    *)
(* for all values of its constants: roles are given as they were read,     *)
(* one-time tokens work once, what students record in a course is of       *)
(* something, readers who bounced get no campaign, answers to forms are    *)
(* kept as long as they may be, what is counted of visitors covers what is *)
(* stored of them, credentials are replaced as they were read, and bundles *)
(* are imported whole.  As in SiteProofs, the invariant of a part holds    *)
(* while that part is the one that moves.                                  *)
(***************************************************************************)
EXTENDS Site, SequenceTheorems, FiniteSetTheorems, TLAPS

(* The part that moves stays the same.                                     *)
LEMMA PartStays == ASSUME [SiteNext]_site PROVE part' = part
BY DEF SiteNext, Others, site

-----------------------------------------------------------------------------
PersonRow  == [phase : {"none", "active", "suspended"}, verified : BOOLEAN, secret : Nat,
               roles : SUBSET Role]
RoleRow    == [phase : {"none", "live", "gone"}, grants : SUBSET Grant]
Pass       == [state : {"none", "live", "revoked"}, of : Person]
KeyRow     == [state : {"none", "live", "revoked"}, of : Person, grants : SUBSET Grant]
Bearer     == {Staff!Nobody} \cup ({"session"} \X Session) \cup ({"key"} \X ApiKey)
TokenRow   == [state : {"none", "open", "used", "revoked"}, of : Person, why : Staff!Purpose,
               till : Nat, uses : Nat]
CountRow   == [start : Nat, count : Nat]
DeskRow    == [pc : {"idle", "signing", "in", "asking", "issuing", "issued", "redeeming",
                     "adding", "giving"},
               by : Bearer, as : Person, held : SUBSET Grant, who : Person, why : Staff!Purpose,
               roles : SUBSET Role, t : Nat, at : Nat, gone : SUBSET Token]

(* TypeOK, with the types of what requests hold and of the throttle.       *)
AccountsTyped ==
    /\ people \in [Person -> PersonRow] /\ role \in [Role -> RoleRow]
    /\ session \in [Session -> Pass] /\ key \in [ApiKey -> KeyRow]
    /\ token \in [Token -> TokenRow] /\ throttle \in [Person \X Staff!Purpose -> CountRow]
    /\ office \in [Client -> DeskRow] /\ clock \in Nat

LEMMA AccountsAreTyped == AccountsTyped => Staff!TypeOK
BY DEF AccountsTyped, Staff!TypeOK, PersonRow, RoleRow, Pass, KeyRow, TokenRow

LEMMA Blanks ==
    ASSUME Staff!IdentityAssumption
    PROVE  Staff!NoPerson \in PersonRow /\ Staff!NoToken \in TokenRow /\ Staff!NoPass \in Pass /\ Staff!NoKey \in KeyRow /\ Staff!Idle \in DeskRow
BY DEF Staff!IdentityAssumption, Staff!NoPerson, Staff!NoToken, Staff!NoPass, Staff!NoKey, Staff!Idle, PersonRow, TokenRow, Pass,
       KeyRow, DeskRow, Bearer, Staff!Purpose

LEMMA AccountsTypedInit == ASSUME Staff!IdentityAssumption, Staff!Init PROVE AccountsTyped
<1>0. /\ Staff!NoPerson \in PersonRow /\ Staff!NoToken \in TokenRow /\ Staff!NoPass \in Pass /\ Staff!NoKey \in KeyRow /\ Staff!Idle \in DeskRow
      /\ Staff!NoRole \in RoleRow /\ [start |-> 0, count |-> 0] \in CountRow
      /\ Owner \in Role /\ Founder \in Person
  BY Blanks DEF Staff!NoRole, RoleRow, CountRow, Staff!IdentityAssumption
<1>1. token \in [Token -> TokenRow] /\ key \in [ApiKey -> KeyRow] /\ office \in [Client -> DeskRow]
  BY <1>0 DEF Staff!Init
<1>2. throttle \in [Person \X Staff!Purpose -> CountRow] /\ clock \in Nat
  <2>1. clock = 0 /\ throttle = [x \in Person \X Staff!Purpose |-> [start |-> 0, count |-> 0]]
    BY DEF Staff!Init
  <2> QED BY <1>0, <2>1
<1>3. people \in [Person -> PersonRow] /\ role \in [Role -> RoleRow] /\ session \in [Session -> Pass]
  <2>1. CASE /\ people = [p \in Person |-> Staff!NoPerson] /\ role = [r \in Role |-> Staff!NoRole]
             /\ session = [s \in Session |-> Staff!NoPass]
    BY <1>0, <2>1
  <2>2. CASE \E q \in Person \ {Founder}, sign \in [Session -> Person] :
             /\ {sign[s] : s \in Session} = {Founder, q}
             /\ people = [p \in Person |->
                   CASE p = Founder -> [Staff!NoPerson EXCEPT !.phase = "active", !.verified = TRUE, !.roles = {Owner}]
                     [] p = q -> [Staff!NoPerson EXCEPT !.phase = "active", !.roles = {Owner}]
                     [] OTHER -> Staff!NoPerson]
             /\ role = [r \in Role |-> [phase |-> "live", grants |-> IF r = Owner THEN Grant ELSE {}]]
             /\ session = [s \in Session |-> [state |-> "live", of |-> sign[s]]]
    <3> PICK q \in Person \ {Founder}, sign \in [Session -> Person] :
             /\ people = [p \in Person |->
                   CASE p = Founder -> [Staff!NoPerson EXCEPT !.phase = "active", !.verified = TRUE, !.roles = {Owner}]
                     [] p = q -> [Staff!NoPerson EXCEPT !.phase = "active", !.roles = {Owner}]
                     [] OTHER -> Staff!NoPerson]
             /\ role = [r \in Role |-> [phase |-> "live", grants |-> IF r = Owner THEN Grant ELSE {}]]
             /\ session = [s \in Session |-> [state |-> "live", of |-> sign[s]]]
      BY <2>2
    <3>1. /\ [Staff!NoPerson EXCEPT !.phase = "active", !.verified = TRUE, !.roles = {Owner}] \in PersonRow
          /\ [Staff!NoPerson EXCEPT !.phase = "active", !.roles = {Owner}] \in PersonRow
      BY <1>0 DEF Staff!NoPerson, PersonRow
    <3>2. people \in [Person -> PersonRow]
      BY <1>0, <3>1
    <3>3. role \in [Role -> RoleRow]
      BY DEF RoleRow
    <3>4. session \in [Session -> Pass]
      BY DEF Pass
    <3> QED BY <3>2, <3>3, <3>4
  <2> QED BY <2>1, <2>2 DEF Staff!Init
<1> QED BY <1>1, <1>2, <1>3 DEF AccountsTyped

-----------------------------------------------------------------------------
(* The rows that requests write have their types.                          *)
LEMMA Ends ==
    ASSUME NEW p, AccountsTyped
    PROVE  Staff!Ended(session, p) \in [Session -> Pass] /\ Staff!Ended(key, p) \in [ApiKey -> KeyRow]
<1>1. /\ \A s \in Session : [session[s] EXCEPT !.state = "revoked"] \in Pass
      /\ \A k \in ApiKey : [key[k] EXCEPT !.state = "revoked"] \in KeyRow
  BY DEF AccountsTyped, Pass, KeyRow
<1> QED BY <1>1 DEF AccountsTyped, Staff!Ended

LEMMA AccountsTypedStep ==
    ASSUME Staff!IdentityAssumption, AccountsTyped, [Staff!Next]_(Staff!vars) PROVE AccountsTyped'
<1>0. /\ people \in [Person -> PersonRow] /\ role \in [Role -> RoleRow]
      /\ session \in [Session -> Pass] /\ key \in [ApiKey -> KeyRow]
      /\ token \in [Token -> TokenRow] /\ throttle \in [Person \X Staff!Purpose -> CountRow]
      /\ office \in [Client -> DeskRow] /\ clock \in Nat
  BY DEF AccountsTyped
<1>a. /\ Staff!NoPerson \in PersonRow /\ Staff!NoToken \in TokenRow /\ Staff!NoPass \in Pass /\ Staff!NoKey \in KeyRow /\ Staff!Idle \in DeskRow
      /\ Owner \in Role /\ Founder \in Person /\ Token \subseteq Nat
      /\ Lifetime \in Nat /\ Staff!Purpose = {"reset", "verify"}
  BY Blanks DEF Staff!IdentityAssumption, Staff!Purpose
<1>b. ASSUME NEW c \in Client
      PROVE  /\ office[c] \in DeskRow
             /\ office[c].as \in Person /\ office[c].who \in Person /\ office[c].why \in Staff!Purpose
             /\ office[c].held \subseteq Grant /\ office[c].roles \subseteq Role
             /\ office[c].gone \subseteq Token /\ office[c].at \in Nat /\ office[c].t \in Nat
  BY <1>0 DEF DeskRow
<1>d. ASSUME NEW c \in Client, NEW r \in DeskRow, Staff!Take(c, r) PROVE office' \in [Client -> DeskRow]
  BY <1>0, <1>d DEF Staff!Take
<1>e. ASSUME NEW c \in Client, Staff!Done(c) PROVE office' \in [Client -> DeskRow]
  BY <1>a, <1>d, <1>e DEF Staff!Done
<1>t. ASSUME people' \in [Person -> PersonRow], role' \in [Role -> RoleRow],
             session' \in [Session -> Pass], key' \in [ApiKey -> KeyRow],
             token' \in [Token -> TokenRow], throttle' \in [Person \X Staff!Purpose -> CountRow],
             office' \in [Client -> DeskRow], clock' \in Nat
      PROVE  AccountsTyped'
  BY <1>t DEF AccountsTyped
<1> USE DEF Staff!Still, Staff!accounts
<1>1. CASE Staff!Tick
  BY <1>0, <1>1, <1>t DEF Staff!Tick
<1>2. ASSUME NEW c \in Client, Staff!Initialize(c) PROVE AccountsTyped'
  <2>1. /\ [Staff!NoPerson EXCEPT !.phase = "active", !.verified = TRUE, !.roles = {Owner}] \in PersonRow
        /\ [phase |-> "live", grants |-> Grant] \in RoleRow
    BY <1>a DEF Staff!NoPerson, PersonRow, RoleRow
  <2> QED BY <1>0, <1>2, <1>a, <1>t, <2>1 DEF Staff!Initialize
<1>3. ASSUME NEW c \in Client, NEW p \in Person, Staff!CreateSession(c, p) PROVE AccountsTyped'
  <2>1. [Staff!Idle EXCEPT !.pc = "signing", !.who = p] \in DeskRow
    BY <1>a DEF DeskRow
  <2> QED BY <1>0, <1>3, <1>d, <1>t, <2>1 DEF Staff!CreateSession
<1>4. ASSUME NEW c \in Client, NEW s \in Session, Staff!OpenSession(c, s) PROVE AccountsTyped'
  <2>1. [state |-> "live", of |-> office[c].who] \in Pass
    BY <1>b DEF Pass
  <2> QED BY <1>0, <1>4, <1>e, <1>t, <2>1 DEF Staff!OpenSession
<1>5. ASSUME NEW c \in Client, NEW p \in Person, Staff!AuthenticateBearer(c, p) PROVE AccountsTyped'
  <2>1. Staff!GrantsOf(p) \subseteq Grant
    <3>1. people[p].roles \subseteq Role /\ \A r \in Role : role[r].grants \subseteq Grant
      BY <1>0 DEF PersonRow, RoleRow
    <3> QED BY <3>1 DEF Staff!GrantsOf
  <2>2. \A k \in ApiKey : key[k].grants \subseteq Grant
    BY <1>0 DEF KeyRow
  <2>3. PICK by \in Bearer, grants \in SUBSET Grant : Staff!Caller(c, p, by, grants)
    <3>1. /\ \A s \in Session : <<"session", s>> \in Bearer
          /\ \A k \in ApiKey : <<"key", k>> \in Bearer
      BY DEF Bearer
    <3> QED BY <1>5, <2>1, <2>2, <3>1 DEF Staff!AuthenticateBearer
  <2>4. [Staff!Idle EXCEPT !.pc = "in", !.by = by, !.as = p, !.held = grants] \in DeskRow
    BY <1>a DEF DeskRow
  <2>5. office' \in [Client -> DeskRow]
    BY <1>d, <2>3, <2>4 DEF Staff!Caller
  <2> QED BY <1>0, <1>5, <1>t, <2>5 DEF Staff!AuthenticateBearer
<1>6. ASSUME NEW c \in Client, NEW s \in Session, Staff!RevokeCurrent(c, s) PROVE AccountsTyped'
  <2>1. [session[s] EXCEPT !.state = "revoked"] \in Pass
    BY <1>0 DEF Pass
  <2> QED BY <1>0, <1>6, <1>e, <1>t, <2>1 DEF Staff!RevokeCurrent
<1>7. ASSUME NEW c \in Client, NEW p \in Person, NEW why \in Staff!Purpose, Staff!RequestToken(c, p, why)
      PROVE  AccountsTyped'
  <2>1. [Staff!Idle EXCEPT !.pc = "asking", !.who = p, !.why = why, !.at = clock] \in DeskRow
    BY <1>0, <1>a DEF DeskRow
  <2> QED BY <1>0, <1>7, <1>d, <1>t, <2>1 DEF Staff!RequestToken
<1>8. ASSUME NEW c \in Client, Staff!LockPerson(c) PROVE AccountsTyped'
  <2>1. [office[c] EXCEPT !.pc = "issuing"] \in DeskRow
    BY <1>b DEF DeskRow
  <2>2. office' \in [Client -> DeskRow]
    BY <1>8, <1>d, <1>e, <2>1 DEF Staff!LockPerson
  <2> QED BY <1>0, <1>8, <1>t, <2>2 DEF Staff!LockPerson
<1>9. ASSUME NEW c \in Client, Staff!RevokeOpenTokens(c) PROVE AccountsTyped'
  <2>1. Staff!OpenOf(office[c].who, office[c].why) \subseteq Token
    BY DEF Staff!OpenOf
  <2>2. [office[c] EXCEPT !.pc = "issued", !.gone = Staff!OpenOf(office[c].who, office[c].why)] \in DeskRow
    BY <1>b, <2>1 DEF DeskRow
  <2> QED BY <1>0, <1>9, <1>d, <1>t, <2>2 DEF Staff!RevokeOpenTokens
<1>10. ASSUME NEW c \in Client, NEW t \in Token, Staff!IssueToken(c, t) PROVE AccountsTyped'
  <2> DEFINE r == office[c]
             new == [state |-> "open", of |-> r.who, why |-> r.why, till |-> r.at + Lifetime, uses |-> 0]
  <2>1. new \in TokenRow
    BY <1>a, <1>b DEF TokenRow
  <2>5. \A u \in Token : [token[u] EXCEPT !.state = "revoked"] \in TokenRow
    BY <1>0 DEF TokenRow
  <2>2. token' = [u \in Token |-> CASE u = t -> new
                                    [] u \in r.gone -> [token[u] EXCEPT !.state = "revoked"]
                                    [] OTHER -> token[u]]
    BY <1>10 DEF Staff!IssueToken
  <2> HIDE DEF new
  <2>3. token' \in [Token -> TokenRow]
    BY <1>0, <2>1, <2>2, <2>5
  <2>4. throttle' \in [Person \X Staff!Purpose -> CountRow]
    <3>1. <<r.who, r.why>> \in Person \X Staff!Purpose
      BY <1>b
    <3>2. throttle[<<r.who, r.why>>] \in CountRow
      BY <1>0, <3>1
    <3>3. Staff!Counted(throttle[<<r.who, r.why>>], r.at) \in CountRow
      BY <1>b, <3>2 DEF Staff!Counted, CountRow
    <3> QED BY <1>0, <1>10, <3>1, <3>3 DEF Staff!IssueToken
  <2> QED BY <1>0, <1>10, <1>e, <1>t, <2>3, <2>4 DEF Staff!IssueToken
<1>11. ASSUME NEW c \in Client, NEW t \in Token, Staff!LockToken(c, t) PROVE AccountsTyped'
  <2>1. [Staff!Idle EXCEPT !.pc = "redeeming", !.t = t, !.who = token[t].of, !.why = token[t].why] \in DeskRow
    BY <1>0, <1>a DEF DeskRow, TokenRow
  <2> QED BY <1>0, <1>11, <1>d, <1>t, <2>1 DEF Staff!LockToken
<1>12. ASSUME NEW c \in Client, Staff!Redeem(c) PROVE AccountsTyped'
  <2> DEFINE r == office[c]
             reset == r.why = "reset"
  <2>1. CASE UNCHANGED <<people, token, session>>
    BY <1>0, <1>12, <1>e, <1>t, <2>1 DEF Staff!Redeem
  <2>2. CASE Staff!Eligible(r.who, r.why)
    <3>1. /\ people' = [people EXCEPT ![r.who].secret = IF reset THEN @ + 1 ELSE @,
                                      ![r.who].verified = @ \/ ~reset]
          /\ token' = [t \in Token |->
                        CASE t = r.t -> [token[t] EXCEPT !.state = IF @ = "open" THEN "used" ELSE @,
                                                         !.uses = @ + 1]
                          [] t \in Staff!OpenOf(r.who, r.why) \ {r.t} -> [token[t] EXCEPT !.state = "revoked"]
                          [] OTHER -> token[t]]
          /\ session' = [s \in Session |->
                        IF reset /\ session[s] = [state |-> "live", of |-> r.who]
                          THEN [session[s] EXCEPT !.state = "revoked"] ELSE session[s]]
      BY <1>12, <2>2 DEF Staff!Redeem
    <3>2. people' \in [Person -> PersonRow]
      <4> DEFINE mine == people[r.who]
                 new == [mine EXCEPT !.secret = IF reset THEN @ + 1 ELSE @, !.verified = @ \/ ~reset]
      <4>1. mine \in PersonRow /\ mine.secret \in Nat
        BY <1>0, <1>b DEF PersonRow
      <4>2. new \in PersonRow
        <5> DEFINE v == mine.verified \/ ~reset
                   n == IF reset THEN mine.secret + 1 ELSE mine.secret
        <5>1. v \in BOOLEAN /\ n \in Nat
          BY <4>1
        <5>2. new = [mine EXCEPT !.secret = n, !.verified = v]
          OBVIOUS
        <5> HIDE DEF v, n
        <5>3. [mine EXCEPT !.secret = n, !.verified = v] \in PersonRow
          BY <4>1, <5>1 DEF PersonRow
        <5> QED BY <5>2, <5>3
      <4>3. people' = [people EXCEPT ![r.who] = new]
        BY <1>0, <1>b, <3>1
      <4> HIDE DEF new
      <4> QED BY <1>0, <4>2, <4>3
    <3>3. token' \in [Token -> TokenRow]
      <4>1. \A t \in Token :
               /\ [token[t] EXCEPT !.state = IF @ = "open" THEN "used" ELSE @, !.uses = @ + 1] \in TokenRow
               /\ [token[t] EXCEPT !.state = "revoked"] \in TokenRow
        <5> TAKE t \in Token
        <5>1. token[t] \in TokenRow /\ token[t].uses \in Nat
          BY <1>0 DEF TokenRow
        <5> DEFINE s == IF token[t].state = "open" THEN "used" ELSE token[t].state
                   n == token[t].uses + 1
        <5>2. s \in {"none", "open", "used", "revoked"} /\ n \in Nat
          BY <5>1 DEF TokenRow
        <5>3. [token[t] EXCEPT !.state = IF @ = "open" THEN "used" ELSE @, !.uses = @ + 1]
                 = [token[t] EXCEPT !.state = s, !.uses = n]
          OBVIOUS
        <5> HIDE DEF s, n
        <5>4. [token[t] EXCEPT !.state = s, !.uses = n] \in TokenRow
          BY <5>1, <5>2 DEF TokenRow
        <5>5. [token[t] EXCEPT !.state = "revoked"] \in TokenRow
          BY <5>1 DEF TokenRow
        <5> QED BY <5>3, <5>4, <5>5
      <4> QED BY <1>0, <3>1, <4>1
    <3>4. session' \in [Session -> Pass]
      <4>1. \A s \in Session : [session[s] EXCEPT !.state = "revoked"] \in Pass
        BY <1>0 DEF Pass
      <4> QED BY <1>0, <3>1, <4>1
    <3> QED BY <1>0, <1>12, <1>e, <1>t, <3>2, <3>3, <3>4 DEF Staff!Redeem
  <2> QED BY <1>12, <2>1, <2>2 DEF Staff!Redeem
<1>13. ASSUME NEW c \in Client, Staff!Victim(c) PROVE AccountsTyped'
  BY <1>0, <1>13, <1>e, <1>t DEF Staff!Victim
<1>14. ASSUME NEW c \in Client, NEW p \in Person, NEW given \in SUBSET Role,
              Staff!CreatePerson(c, p, given) \/ Staff!ReplacePersonRoles(c, p, given)
       PROVE  AccountsTyped'
  <2>1. /\ [office[c] EXCEPT !.pc = "adding", !.who = p, !.roles = given] \in DeskRow
        /\ [office[c] EXCEPT !.pc = "giving", !.who = p, !.roles = given] \in DeskRow
    BY <1>b DEF DeskRow
  <2> QED BY <1>0, <1>14, <1>d, <1>t, <2>1 DEF Staff!CreatePerson, Staff!ReplacePersonRoles
<1>15. ASSUME NEW c \in Client, Staff!WriteRoles(c) PROVE AccountsTyped'
  <2>1. people' \in [Person -> PersonRow]
    <3> DEFINE r == office[c]
    <3>1. /\ [Staff!NoPerson EXCEPT !.phase = "active", !.roles = r.roles] \in PersonRow
          /\ [people[r.who] EXCEPT !.roles = r.roles] \in PersonRow
      BY <1>0, <1>a, <1>b DEF PersonRow
    <3>2. \/ people' = [people EXCEPT ![r.who] = [Staff!NoPerson EXCEPT !.phase = "active", !.roles = r.roles]]
          \/ people' = [people EXCEPT ![r.who].roles = r.roles]
          \/ people' = people
      BY <1>15 DEF Staff!WriteRoles
    <3> QED BY <1>0, <3>1, <3>2
  <2> QED BY <1>0, <1>15, <1>e, <1>t, <2>1 DEF Staff!WriteRoles
<1>16. ASSUME NEW c \in Client, NEW p \in Person, NEW status \in {"active", "suspended"},
              Staff!UpdatePersonStatus(c, p, status)
       PROVE  AccountsTyped'
  <2>1. [people[p] EXCEPT !.phase = status] \in PersonRow
    BY <1>0 DEF PersonRow
  <2>2. Staff!Ended(session, p) \in [Session -> Pass] /\ Staff!Ended(key, p) \in [ApiKey -> KeyRow]
    BY Ends
  <2> QED BY <1>0, <1>16, <1>e, <1>t, <2>1, <2>2 DEF Staff!UpdatePersonStatus
<1>17. ASSUME NEW c \in Client, NEW r \in Role, NEW g \in SUBSET Grant,
              Staff!DeleteRole(c, r) \/ Staff!CreateRole(c, r, g) \/ Staff!ReplaceRoleGrants(c, r, g)
       PROVE  AccountsTyped'
  <2>1. /\ [phase |-> "gone", grants |-> {}] \in RoleRow
        /\ [phase |-> "live", grants |-> g] \in RoleRow
        /\ [role[r] EXCEPT !.grants = g] \in RoleRow
    BY <1>0 DEF RoleRow
  <2> QED BY <1>0, <1>17, <1>e, <1>t, <2>1 DEF Staff!DeleteRole, Staff!CreateRole, Staff!ReplaceRoleGrants
<1>18. ASSUME NEW c \in Client, NEW k \in ApiKey,
              Staff!RevokeApiKey(c, k) \/ \E g \in SUBSET Grant : Staff!CreateApiKey(c, k, g)
       PROVE  AccountsTyped'
  <2>1. /\ \A g \in SUBSET Grant : [state |-> "live", of |-> office[c].as, grants |-> g] \in KeyRow
        /\ [key[k] EXCEPT !.state = "revoked"] \in KeyRow
    BY <1>0, <1>b DEF KeyRow
  <2> QED BY <1>0, <1>18, <1>e, <1>t, <2>1 DEF Staff!CreateApiKey, Staff!RevokeApiKey
<1>19. CASE UNCHANGED Staff!vars
  BY <1>0, <1>19, <1>t DEF Staff!vars
<1> QED
  BY <1>1, <1>2, <1>3, <1>4, <1>5, <1>6, <1>7, <1>8, <1>9, <1>10, <1>11, <1>12, <1>13, <1>14,
     <1>15, <1>16, <1>17, <1>18, <1>19 DEF Staff!Next

-----------------------------------------------------------------------------
(* Who works for the site is one of its people, so that the role of setup  *)
(* is not written again while others are given.                            *)
SomebodyIsThere ==
    (\E c \in Client : office[c].pc \in {"in", "adding", "giving"})
        => \E p \in Person : people[p].phase # "none"

RolesInv == AccountsTyped /\ Staff!RolesAreGivenAsRead /\ SomebodyIsThere

(* Nobody who was added is taken away: people are suspended, not deleted.  *)
LEMMA PeopleStay ==
    ASSUME AccountsTyped, [Staff!Next]_(Staff!vars), NEW p \in Person, people[p].phase # "none"
    PROVE  people'[p].phase # "none"
<1>0. /\ people \in [Person -> PersonRow]
      /\ \A c \in Client : office[c].who \in Person
  BY DEF AccountsTyped, DeskRow
<1>1. ASSUME NEW c \in Client, Staff!Initialize(c) PROVE people'[p].phase # "none"
  BY <1>1 DEF Staff!Initialize
<1>2. ASSUME NEW c \in Client, Staff!Redeem(c) PROVE people'[p].phase # "none"
  <2>1. CASE ~Staff!Eligible(office[c].who, office[c].why)
    BY <1>2, <2>1 DEF Staff!Redeem
  <2>2. CASE Staff!Eligible(office[c].who, office[c].why)
    <3> DEFINE who == office[c].who
    <3>1. \E n, v : people' = [people EXCEPT ![who].secret = n, ![who].verified = v]
      BY <1>2, <2>2 DEF Staff!Redeem
    <3>2. who \in Person
      BY <1>0
    <3> HIDE DEF who
    <3> QED BY <1>0, <3>1, <3>2 DEF PersonRow
  <2> QED BY <2>1, <2>2
<1>3. ASSUME NEW c \in Client, Staff!WriteRoles(c) PROVE people'[p].phase # "none"
  BY <1>0, <1>3 DEF Staff!WriteRoles, Staff!NoPerson, PersonRow
<1>4. ASSUME NEW c \in Client, NEW q \in Person, NEW status \in {"active", "suspended"},
             Staff!UpdatePersonStatus(c, q, status)
      PROVE  people'[p].phase # "none"
  BY <1>0, <1>4 DEF Staff!UpdatePersonStatus, PersonRow
<1>5. ASSUME NEW c \in Client,
             \/ Staff!LockPerson(c) \/ Staff!RevokeOpenTokens(c) \/ Staff!Victim(c)
             \/ \E s \in Session : Staff!OpenSession(c, s) \/ Staff!RevokeCurrent(c, s)
             \/ \E t \in Token : Staff!IssueToken(c, t) \/ Staff!LockToken(c, t)
             \/ \E k \in ApiKey : Staff!RevokeApiKey(c, k) \/ \E g \in SUBSET Grant : Staff!CreateApiKey(c, k, g)
      PROVE  people' = people
  BY <1>5 DEF Staff!accounts, Staff!LockPerson, Staff!RevokeOpenTokens, Staff!Victim, Staff!OpenSession, Staff!RevokeCurrent,
              Staff!IssueToken, Staff!LockToken, Staff!CreateApiKey, Staff!RevokeApiKey
<1>6. ASSUME NEW c \in Client,
             \/ \E r \in Role : \/ Staff!DeleteRole(c, r)
                                \/ \E g \in SUBSET Grant : \/ Staff!CreateRole(c, r, g)
                                                          \/ Staff!ReplaceRoleGrants(c, r, g)
             \/ \E q \in Person : \/ Staff!CreateSession(c, q) \/ Staff!AuthenticateBearer(c, q)
                                  \/ \E why \in Staff!Purpose : Staff!RequestToken(c, q, why)
                                  \/ \E given \in SUBSET Role : \/ Staff!CreatePerson(c, q, given)
                                                                \/ Staff!ReplacePersonRoles(c, q, given)
      PROVE  people' = people
  BY <1>6 DEF Staff!accounts, Staff!DeleteRole, Staff!CreateRole, Staff!ReplaceRoleGrants, Staff!CreateSession,
              Staff!AuthenticateBearer, Staff!RequestToken, Staff!CreatePerson, Staff!ReplacePersonRoles
<1>7. CASE Staff!Tick \/ UNCHANGED Staff!vars
  BY <1>7 DEF Staff!Tick, Staff!vars, Staff!accounts
<1> QED BY <1>1, <1>2, <1>3, <1>4, <1>5, <1>6, <1>7 DEF Staff!Next

(* A step that leaves the roles that somebody is giving.                   *)
LEMMA QuietOnRoles ==
    ASSUME RolesInv, AccountsTyped', [Staff!Next]_(Staff!vars),
           \A c \in Client : office'[c] = office[c] \/ office'[c].pc \notin {"in", "adding", "giving"},
           \A c \in Client : office[c].pc \in {"adding", "giving"} /\ office'[c] = office[c] =>
               \A r \in office[c].roles : role'[r] = role[r]
    PROVE  RolesInv'
<1>1. SomebodyIsThere'
  BY PeopleStay DEF RolesInv, SomebodyIsThere
<1>2. Staff!RolesAreGivenAsRead'
  <2> SUFFICES ASSUME NEW c \in Client, office'[c].pc \in {"adding", "giving"}
               PROVE  Staff!Delegable(c, office[c].roles)'
    BY DEF Staff!RolesAreGivenAsRead
  <2>1. office'[c] = office[c] /\ Staff!Delegable(c, office[c].roles)
    BY DEF RolesInv, Staff!RolesAreGivenAsRead
  <2>2. \A r \in office[c].roles : role'[r] = role[r]
    BY <2>1
  <2>3. (UNION {role[r].grants : r \in office[c].roles})'
           = UNION {role[r].grants : r \in office[c].roles}
    BY <2>1, <2>2
  <2> QED BY <2>1, <2>2, <2>3 DEF Staff!Delegable
<1> QED BY <1>1, <1>2 DEF RolesInv

LEMMA RolesInvInit == ASSUME Staff!IdentityAssumption, Staff!Init PROVE RolesInv
BY AccountsTypedInit DEF RolesInv, Staff!RolesAreGivenAsRead, SomebodyIsThere, Staff!Init, Staff!Idle

LEMMA RolesInvStep ==
    ASSUME Staff!IdentityAssumption, RolesInv, [Staff!Next]_(Staff!vars) PROVE RolesInv'
<1>1. AccountsTyped'
  BY AccountsTypedStep DEF RolesInv
<1>a. /\ office \in [Client -> DeskRow] /\ role \in [Role -> RoleRow]
      /\ people \in [Person -> PersonRow]
      /\ \A c \in Client : office[c] \in DeskRow /\ office[c].roles \subseteq Role
  BY DEF RolesInv, AccountsTyped, DeskRow
<1>b. Staff!Idle.pc = "idle" /\ Staff!Idle \in DeskRow
  BY Blanks DEF Staff!Idle
<1>2. ASSUME NEW c \in Client, NEW r, Staff!Take(c, r), r.pc \notin {"in", "adding", "giving"},
             role' = role
      PROVE  RolesInv'
  <2>1. \A d \in Client : office'[d] = IF d = c THEN r ELSE office[d]
    BY <1>a, <1>2 DEF Staff!Take
  <2> QED BY <1>1, <1>2, <2>1, QuietOnRoles
<1>3. ASSUME UNCHANGED <<office, role>> PROVE RolesInv'
  BY <1>1, <1>3, QuietOnRoles
<1>4. ASSUME NEW c \in Client, Staff!Initialize(c) PROVE RolesInv'
  <2>1. /\ \A p \in Person : people[p].phase = "none"
        /\ UNCHANGED office
    BY <1>4 DEF Staff!Initialize
  <2>2. \A d \in Client : office[d].pc \notin {"in", "adding", "giving"}
    BY <2>1 DEF RolesInv, SomebodyIsThere
  <2> QED BY <1>1, <2>1, <2>2, QuietOnRoles
<1>5. ASSUME NEW c \in Client, NEW p \in Person, Staff!AuthenticateBearer(c, p) PROVE RolesInv'
  <2>0. PICK by, grants : Staff!Caller(c, p, by, grants)
    BY <1>5 DEF Staff!AuthenticateBearer
  <2> DEFINE r == [Staff!Idle EXCEPT !.pc = "in", !.by = by, !.as = p, !.held = grants]
  <2>1. Staff!Take(c, r) /\ UNCHANGED Staff!accounts /\ people[p].phase = "active"
    BY <1>5, <2>0 DEF Staff!AuthenticateBearer, Staff!Caller
  <2>2. r.pc = "in"
    BY DEF Staff!Idle
  <2> HIDE DEF r
  <2>3. \A d \in Client : office'[d] = IF d = c THEN r ELSE office[d]
    BY <1>a, <2>1 DEF Staff!Take
  <2>4. Staff!RolesAreGivenAsRead'
    BY <2>1, <2>2, <2>3 DEF Staff!accounts, RolesInv, Staff!RolesAreGivenAsRead, Staff!Delegable
  <2>5. SomebodyIsThere'
    BY <2>1 DEF Staff!accounts, SomebodyIsThere
  <2> QED BY <1>1, <2>4, <2>5 DEF RolesInv
<1>6. ASSUME NEW c \in Client, NEW p \in Person, NEW given \in SUBSET Role,
             Staff!CreatePerson(c, p, given) \/ Staff!ReplacePersonRoles(c, p, given)
      PROVE  RolesInv'
  <2> PICK pc \in {"adding", "giving"} :
             Staff!Take(c, [office[c] EXCEPT !.pc = pc, !.who = p, !.roles = given])
    BY <1>6 DEF Staff!CreatePerson, Staff!ReplacePersonRoles
  <2> DEFINE r == [office[c] EXCEPT !.pc = pc, !.who = p, !.roles = given]
  <2>1. office[c].pc = "in" /\ Staff!Delegable(c, given) /\ UNCHANGED Staff!accounts
    BY <1>6 DEF Staff!CreatePerson, Staff!ReplacePersonRoles, Staff!Admin
  <2>2. r.roles = given /\ r.held = office[c].held
    BY <1>a DEF DeskRow
  <2>3. \A d \in Client : office'[d] = IF d = c THEN r ELSE office[d]
    BY <1>a DEF Staff!Take
  <2> HIDE DEF r
  <2>4. Staff!RolesAreGivenAsRead'
    BY <2>1, <2>2, <2>3 DEF Staff!accounts, RolesInv, Staff!RolesAreGivenAsRead, Staff!Delegable
  <2>5. SomebodyIsThere'
    BY <2>1 DEF Staff!accounts, RolesInv, SomebodyIsThere
  <2> QED BY <1>1, <2>4, <2>5 DEF RolesInv
<1>7. ASSUME NEW c \in Client, NEW r \in Role, NEW g \in SUBSET Grant,
             Staff!DeleteRole(c, r) \/ Staff!CreateRole(c, r, g) \/ Staff!ReplaceRoleGrants(c, r, g)
      PROVE  RolesInv'
  <2>1. /\ Staff!Done(c)
        /\ \A q \in Role : q # r => role'[q] = role[q]
        /\ role[r].phase = "none" \/ ~Staff!Shared(r)
    BY <1>7, <1>a DEF Staff!DeleteRole, Staff!CreateRole, Staff!ReplaceRoleGrants, Staff!RoleFree
  <2>2. \A d \in Client : office'[d] = IF d = c THEN Staff!Idle ELSE office[d]
    BY <1>a, <2>1 DEF Staff!Done, Staff!Take
  <2>3. ASSUME NEW d \in Client, office[d].pc \in {"adding", "giving"} PROVE r \notin office[d].roles
    BY <2>1, <2>3 DEF Staff!Shared, RolesInv, Staff!RolesAreGivenAsRead, Staff!Delegable
  <2>4. \A d \in Client : office[d].pc \in {"adding", "giving"} /\ office'[d] = office[d] =>
            \A q \in office[d].roles : role'[q] = role[q]
    BY <1>a, <2>1, <2>3
  <2> QED BY <1>1, <1>b, <2>2, <2>4, QuietOnRoles
<1>8. ASSUME NEW c \in Client, Staff!Done(c), role' = role PROVE RolesInv'
  BY <1>2, <1>8, <1>b DEF Staff!Done
<1>9. ASSUME NEW c \in Client, Staff!LockPerson(c) \/ Staff!RevokeOpenTokens(c) PROVE RolesInv'
  <2>1. /\ [office[c] EXCEPT !.pc = "issuing"].pc = "issuing"
        /\ [office[c] EXCEPT !.pc = "issued", !.gone = Staff!OpenOf(office[c].who, office[c].why)].pc = "issued"
    BY <1>a DEF DeskRow
  <2> QED BY <1>2, <1>8, <1>9, <2>1 DEF Staff!LockPerson, Staff!RevokeOpenTokens, Staff!accounts
<1>10. ASSUME NEW c \in Client, NEW p \in Person, NEW why \in Staff!Purpose, Staff!RequestToken(c, p, why)
      PROVE  RolesInv'
  <2>1. [Staff!Idle EXCEPT !.pc = "asking", !.who = p, !.why = why, !.at = clock].pc = "asking"
    BY DEF Staff!Idle
  <2> QED BY <1>2, <1>10, <2>1 DEF Staff!RequestToken, Staff!accounts
<1>11. ASSUME NEW c \in Client, NEW p \in Person, Staff!CreateSession(c, p) PROVE RolesInv'
  <2>1. [Staff!Idle EXCEPT !.pc = "signing", !.who = p].pc = "signing"
    BY DEF Staff!Idle
  <2> QED BY <1>2, <1>11, <2>1 DEF Staff!CreateSession, Staff!accounts
<1>12. ASSUME NEW c \in Client, Staff!Redeem(c) \/ Staff!Victim(c) \/ Staff!WriteRoles(c) PROVE RolesInv'
  BY <1>8, <1>12 DEF Staff!Redeem, Staff!Victim, Staff!WriteRoles, Staff!accounts
<1>13. ASSUME NEW c \in Client, NEW s \in Session, Staff!OpenSession(c, s) \/ Staff!RevokeCurrent(c, s)
       PROVE  RolesInv'
  BY <1>8, <1>13 DEF Staff!OpenSession, Staff!RevokeCurrent
<1>14. ASSUME NEW c \in Client, NEW t \in Token, Staff!IssueToken(c, t) PROVE RolesInv'
  BY <1>8, <1>14 DEF Staff!IssueToken, Staff!accounts
<1>15. ASSUME NEW c \in Client, NEW k \in ApiKey,
              Staff!RevokeApiKey(c, k) \/ \E g \in SUBSET Grant : Staff!CreateApiKey(c, k, g)
       PROVE  RolesInv'
  BY <1>8, <1>15 DEF Staff!CreateApiKey, Staff!RevokeApiKey
<1>16. ASSUME NEW c \in Client, NEW p \in Person, NEW status \in {"active", "suspended"},
              Staff!UpdatePersonStatus(c, p, status)
       PROVE  RolesInv'
  BY <1>8, <1>16 DEF Staff!UpdatePersonStatus
<1>17. CASE Staff!Tick \/ UNCHANGED Staff!vars
  BY <1>3, <1>17 DEF Staff!Tick, Staff!vars, Staff!accounts
<1>18. ASSUME NEW c \in Client, NEW t \in Token, Staff!LockToken(c, t) PROVE RolesInv'
  <2>1. [Staff!Idle EXCEPT !.pc = "redeeming", !.t = t, !.who = token[t].of, !.why = token[t].why].pc
               = "redeeming"
    BY DEF Staff!Idle
  <2> QED BY <1>2, <1>18, <2>1 DEF Staff!LockToken, Staff!accounts
<1>19. ASSUME NEW c \in Client, NEW r \in Role, Staff!DeleteRole(c, r) PROVE RolesInv'
  <2>1. {} \in SUBSET Grant
    OBVIOUS
  <2> QED BY <1>7, <1>19, <2>1
<1>20. CASE Staff!Next
  BY <1>20, <1>11, <1>19, <1>4, <1>5, <1>6, <1>7, <1>9, <1>10, <1>12, <1>13, <1>14, <1>15, <1>16, <1>17, <1>18
     DEF Staff!Next
<1> QED BY <1>17, <1>20

LEMMA StaffMove ==
    ASSUME [SiteNext]_site, Is("staff") PROVE Is("staff")' /\ [Staff!Next]_(Staff!vars)
<1>1. part = "staff" /\ part' = part
  BY PartStays DEF Is
<1>2. CASE SiteNext
  <2>1. Staff!Next \/ UNCHANGED staff
    BY <1>1, <1>2 DEF SiteNext, Is, Others
  <2> QED BY <1>1, <2>1 DEF Is, staff, Staff!vars
<1>3. CASE UNCHANGED site
  BY <1>1, <1>3 DEF Is, site, staff, Staff!vars
<1> QED BY <1>2, <1>3

(* Roles are written as they were read, with no more than their giver was  *)
(* found to hold when it was authenticated.                                *)
THEOREM RolesHold == SiteSpec => []RolesAreGivenAsRead
<1> DEFINE I == Is("staff") => RolesInv
<1>0. Staff!IdentityAssumption
  BY SiteAssumption
<1>1. SiteInit => I
  BY <1>0, RolesInvInit DEF SiteInit, Is
<1>2. I /\ [SiteNext]_site => I'
  <2> SUFFICES ASSUME I, [SiteNext]_site, Is("staff") PROVE RolesInv'
    BY PartStays DEF Is
  <2> QED BY <1>0, StaffMove, RolesInvStep
<1>3. I => RolesAreGivenAsRead
  BY DEF RolesAreGivenAsRead, RolesInv
<1> HIDE DEF I
<1> QED BY <1>1, <1>2, <1>3, PTL DEF SiteSpec

-----------------------------------------------------------------------------
Issues(c)  == office[c].pc \in {"issuing", "issued"}
Redeems(c) == office[c].pc = "redeeming"

(* A token that works was never used; one that was issued is somebody's.   *)
TokensLive ==
    \A t \in Token :
        /\ token[t].state \in {"none", "open"} => token[t].uses = 0
        /\ token[t].uses <= 1
        /\ token[t].state # "none" => people[token[t].of].phase # "none"

OneWorks ==
    \A t, u \in Token :
        /\ token[t].state = "open" /\ token[u].state = "open"
        /\ token[t].of = token[u].of /\ token[t].why = token[u].why
        => t = u

(* The locks: of a person's row for an issuer, of a token's for a redeemer. *)
OneIssues  == \A c, d \in Client : Issues(c) /\ Issues(d) /\ office[c].who = office[d].who => c = d
OneRedeems == \A c, d \in Client : Redeems(c) /\ Redeems(d) /\ office[c].t = office[d].t => c = d

(* What a request read still holds while it has the lock it read it under: *)
(* the throttle lets it issue, what it has revoked are all the tokens that *)
(* work, and the token to redeem was not used.                             *)
RequestHolds(c) ==
    LET r == office[c]
    IN  /\ r.pc \in {"asking", "issuing", "issued", "redeeming"} => people[r.who].phase # "none"
        /\ Issues(c) => Staff!Allowed(throttle[<<r.who, r.why>>], r.at)
        /\ r.pc = "issued" => /\ Staff!OpenOf(r.who, r.why) \subseteq r.gone
                              /\ \A t \in r.gone : token[t].state # "none"
        /\ Redeems(c) => /\ r.t \in Token /\ token[r.t].state # "none" /\ token[r.t].uses = 0
                         /\ token[r.t].of = r.who /\ token[r.t].why = r.why

Issued == {t \in Token : token[t].state # "none"}

(* The throttle counts the tokens of its window, and those before it are   *)
(* from before its end.                                                    *)
WindowCounts(p, why) ==
    LET tally == throttle[<<p, why>>]
    IN  /\ tally.count <= MaxRequests
        /\ Cardinality(Staff!InWindow(p, why)) <= tally.count
        /\ \A t \in Issued : token[t].of = p /\ token[t].why = why =>
               tally.count > 0 /\ token[t].till - Lifetime < tally.start + Window

TokensInv ==
    /\ AccountsTyped /\ TokensLive /\ OneWorks /\ OneIssues /\ OneRedeems
    /\ \A c \in Client : RequestHolds(c)
    /\ IsFiniteSet(Issued)
    /\ \A p \in Person, why \in Staff!Purpose : WindowCounts(p, why)
    /\ Staff!SecretsCount

(* The same operator, whichever module it is taken from.                   *)
LEMMA Cardinals == ASSUME NEW S PROVE Staff!Cardinality(S) = Cardinality(S)
BY DEF Staff!Cardinality, Cardinality

LEMMA InWindowIsFinite ==
    ASSUME IsFiniteSet(Issued), NEW p, NEW why
    PROVE  IsFiniteSet(Staff!InWindow(p, why)) /\ Cardinality(Staff!InWindow(p, why)) \in Nat
<1>1. Staff!InWindow(p, why) \subseteq Issued
  BY DEF Staff!InWindow, Issued
<1> QED BY <1>1, FS_Subset, FS_CardinalityType

LEMMA TokensInvHolds == ASSUME Staff!IdentityAssumption, TokensInv PROVE Staff!TokensHold
<1>1. Staff!OneOpenToken
  <2> SUFFICES ASSUME NEW p \in Person, NEW why \in Staff!Purpose PROVE Cardinality(Staff!OpenOf(p, why)) <= 1
    BY Cardinals DEF Staff!OneOpenToken
  <2>1. CASE Staff!OpenOf(p, why) = {}
    BY <2>1, FS_EmptySet
  <2>2. CASE Staff!OpenOf(p, why) # {}
    <3> PICK t \in Staff!OpenOf(p, why) : TRUE
      BY <2>2
    <3>1. Staff!OpenOf(p, why) = {t}
      BY DEF Staff!OpenOf, TokensInv, OneWorks
    <3>2. Cardinality({t}) = 1
      BY FS_Singleton
    <3> QED BY <3>1, <3>2
  <2> QED BY <2>1, <2>2
<1>2. Staff!UsedOnce /\ Staff!SecretsCount
  BY DEF TokensInv, TokensLive, Staff!UsedOnce
<1>3. Staff!WindowHolds
  <2> SUFFICES ASSUME NEW p \in Person, NEW why \in Staff!Purpose
               PROVE  Cardinality(Staff!InWindow(p, why)) <= MaxRequests
    BY Cardinals DEF Staff!WindowHolds
  <2>1. throttle[<<p, why>>].count \in Nat /\ MaxRequests \in Nat
    BY DEF TokensInv, AccountsTyped, CountRow, Staff!IdentityAssumption
  <2>2. Cardinality(Staff!InWindow(p, why)) \in Nat
    BY InWindowIsFinite DEF TokensInv
  <2> QED BY <2>1, <2>2 DEF TokensInv, WindowCounts
<1> QED BY <1>1, <1>2, <1>3 DEF Staff!TokensHold

LEMMA TokensInvInit == ASSUME Staff!IdentityAssumption, Staff!Init PROVE TokensInv
<1>0. /\ AccountsTyped
      /\ \A t \in Token : token[t].state = "none" /\ token[t].uses = 0
      /\ \A c \in Client : office[c].pc = "idle"
      /\ \A p \in Person : people[p].secret = 0
      /\ \A p \in Person, why \in Staff!Purpose : throttle[<<p, why>>].count = 0
  <2>1. AccountsTyped
    BY AccountsTypedInit
  <2>2. \A t \in Token : token[t].state = "none" /\ token[t].uses = 0
    BY DEF Staff!Init, Staff!NoToken
  <2>3. \A c \in Client : office[c].pc = "idle"
    BY DEF Staff!Init, Staff!Idle
  <2>4. \A p \in Person : people[p].secret = 0
    <3>1. /\ Staff!NoPerson.secret = 0
          /\ [Staff!NoPerson EXCEPT !.phase = "active", !.verified = TRUE, !.roles = {Owner}].secret = 0
          /\ [Staff!NoPerson EXCEPT !.phase = "active", !.roles = {Owner}].secret = 0
      BY DEF Staff!NoPerson
    <3> QED BY <3>1 DEF Staff!Init
  <2>5. \A p \in Person, why \in Staff!Purpose : throttle[<<p, why>>].count = 0
    <3>1. throttle = [x \in Person \X Staff!Purpose |-> [start |-> 0, count |-> 0]]
      BY DEF Staff!Init
    <3> QED BY <3>1
  <2> QED BY <2>1, <2>2, <2>3, <2>4, <2>5
<1>1. TokensLive /\ OneWorks /\ OneIssues /\ OneRedeems /\ \A c \in Client : RequestHolds(c)
  BY <1>0 DEF TokensLive, OneWorks, OneIssues, OneRedeems, Issues, Redeems, RequestHolds
<1>2. Issued = {}
  BY <1>0 DEF Issued
<1>3. ASSUME NEW p \in Person, NEW why \in Staff!Purpose PROVE WindowCounts(p, why)
  <2>1. Staff!InWindow(p, why) = {}
    BY <1>0 DEF Staff!InWindow
  <2> QED BY <1>0, <1>2, <2>1, FS_EmptySet DEF WindowCounts, Staff!IdentityAssumption
<1>4. Staff!SecretsCount
  <2>1. ASSUME NEW p \in Person
        PROVE  {t \in Token : token[t].of = p /\ token[t].why = "reset" /\ token[t].uses > 0} = {}
    BY <1>0
  <2> QED BY <1>0, <2>1, FS_EmptySet, Cardinals DEF Staff!SecretsCount
<1> QED BY <1>0, <1>1, <1>2, <1>3, <1>4, FS_EmptySet DEF TokensInv
-----------------------------------------------------------------------------
(* Whoever is not there has changed no password.                           *)
LEMMA NobodyHasSecrets ==
    ASSUME TokensInv, NEW p \in Person, people[p].phase = "none" PROVE people[p].secret = 0
<1>1. {t \in Token : token[t].of = p /\ token[t].why = "reset" /\ token[t].uses > 0} = {}
  <2> SUFFICES ASSUME NEW t \in Token, token[t].of = p, token[t].uses > 0 PROVE FALSE
    OBVIOUS
  <2>1. token[t].state = "none"
    BY DEF TokensInv, TokensLive
  <2>2. token[t].uses = 0
    BY <2>1 DEF TokensInv, TokensLive
  <2> QED BY <2>2
<1> QED BY <1>1, FS_EmptySet, Cardinals DEF TokensInv, Staff!SecretsCount

(* A step that touches no token and no count of the throttle.              *)
LEMMA SameTokens ==
    ASSUME TokensInv, AccountsTyped', [Staff!Next]_(Staff!vars), UNCHANGED <<token, throttle>>,
           \A p \in Person : people'[p].secret = people[p].secret,
           \A c \in Client : RequestHolds(c)', OneIssues', OneRedeems'
    PROVE  TokensInv'
<1>1. TokensLive'
  <2> SUFFICES ASSUME NEW t \in Token, token[t].state # "none"
               PROVE  people'[token[t].of].phase # "none"
    BY DEF TokensInv, TokensLive
  <2>1. token[t].of \in Person
    BY DEF TokensInv, AccountsTyped, TokenRow
  <2> QED BY <2>1, PeopleStay DEF TokensInv, TokensLive
<1>2. OneWorks' /\ IsFiniteSet(Issued)'
  BY DEF TokensInv, OneWorks, Issued
<1>3. ASSUME NEW p \in Person, NEW why \in Staff!Purpose PROVE WindowCounts(p, why)'
  BY DEF TokensInv, WindowCounts, Staff!InWindow, Issued
<1>4. Staff!SecretsCount'
  BY DEF TokensInv, Staff!SecretsCount
<1> QED BY <1>1, <1>2, <1>3, <1>4 DEF TokensInv

(* A request that goes on, or ends, while the others wait.                 *)
LEMMA OneAtItsDesk ==
    ASSUME TokensInv, AccountsTyped', [Staff!Next]_(Staff!vars), UNCHANGED <<token, throttle>>,
           \A p \in Person : people'[p].secret = people[p].secret,
           NEW c \in Client, NEW r, Staff!Take(c, r), RequestHolds(c)',
           ASSUME NEW d \in Client, d # c, Issues(d), r.pc \in {"issuing", "issued"}
           PROVE  office[d].who # r.who,
           ASSUME NEW d \in Client, d # c, Redeems(d), r.pc = "redeeming"
           PROVE  office[d].t # r.t
    PROVE  TokensInv'
<1>0. \A d \in Client : office'[d] = IF d = c THEN r ELSE office[d]
  BY DEF Staff!Take, TokensInv, AccountsTyped
<1>1. ASSUME NEW d \in Client PROVE RequestHolds(d)'
  <2>1. CASE d = c
    BY <2>1
  <2>2. CASE d # c
    <3>1. office'[d] = office[d] /\ office[d].who \in Person
      BY <1>0, <2>2 DEF TokensInv, AccountsTyped, DeskRow
    <3>2. RequestHolds(d)
      BY DEF TokensInv
    <3>3. people[office[d].who].phase # "none" => people'[office[d].who].phase # "none"
      BY <3>1, PeopleStay DEF TokensInv
    <3> QED BY <3>1, <3>2, <3>3 DEF RequestHolds, Issues, Redeems, Staff!OpenOf, Staff!Allowed
  <2> QED BY <2>1, <2>2
<1>2. OneIssues'
  BY <1>0 DEF TokensInv, OneIssues, Issues
<1>3. OneRedeems'
  BY <1>0 DEF TokensInv, OneRedeems, Redeems
<1> QED BY <1>1, <1>2, <1>3, SameTokens

(* A request that needs no token, or no longer.                            *)
LEMMA NoTokenAtItsDesk ==
    ASSUME TokensInv, AccountsTyped', [Staff!Next]_(Staff!vars), UNCHANGED <<token, throttle>>,
           \A p \in Person : people'[p].secret = people[p].secret,
           NEW c \in Client, NEW r, Staff!Take(c, r),
           r.pc \notin {"asking", "issuing", "issued", "redeeming"}
    PROVE  TokensInv'
<1>1. office'[c] = r
  BY DEF Staff!Take, TokensInv, AccountsTyped
<1>2. RequestHolds(c)'
  BY <1>1 DEF RequestHolds, Issues, Redeems
<1> QED BY <1>2, OneAtItsDesk
(* A token is asked for, and its person's row locked.                      *)
LEMMA AskingSteps ==
    ASSUME Staff!IdentityAssumption, TokensInv, AccountsTyped', [Staff!Next]_(Staff!vars), NEW c \in Client,
           \/ \E p \in Person, why \in Staff!Purpose : Staff!RequestToken(c, p, why)
           \/ Staff!LockPerson(c) \/ Staff!RevokeOpenTokens(c)
           \/ \E t \in Token : Staff!LockToken(c, t)
    PROVE  TokensInv'
<1>0. /\ office \in [Client -> DeskRow] /\ office[c] \in DeskRow
      /\ RequestHolds(c) /\ Staff!Idle.pc = "idle"
      /\ \A d \in Client : Issues(d) /\ d # c /\ Issues(c) => office[d].who # office[c].who
  BY DEF TokensInv, AccountsTyped, Staff!Idle, OneIssues
<1>a. ASSUME NEW r, Staff!Take(c, r) PROVE office'[c] = r
  BY <1>0, <1>a DEF Staff!Take
<1>1. ASSUME NEW p \in Person, NEW why \in Staff!Purpose, Staff!RequestToken(c, p, why) PROVE TokensInv'
  <2> DEFINE r == [Staff!Idle EXCEPT !.pc = "asking", !.who = p, !.why = why, !.at = clock]
  <2>1. Staff!Take(c, r) /\ UNCHANGED <<Staff!accounts, token, throttle>> /\ people[p].phase # "none"
    BY <1>1 DEF Staff!RequestToken, Staff!Still
  <2>2. r.pc = "asking" /\ r.who = p
    BY DEF Staff!Idle
  <2> HIDE DEF r
  <2>3. office'[c] = r
    BY <1>a, <2>1
  <2>4. RequestHolds(c)'
    BY <2>1, <2>2, <2>3 DEF RequestHolds, Issues, Redeems, Staff!accounts
  <2> QED BY <2>1, <2>2, <2>4, OneAtItsDesk DEF Staff!accounts
<1>2. CASE Staff!LockPerson(c)
  <2> DEFINE q == office[c]
             r == [q EXCEPT !.pc = "issuing"]
  <2>1. UNCHANGED <<Staff!accounts, token, throttle>>
    BY <1>2 DEF Staff!LockPerson, Staff!Still
  <2>2. CASE Staff!Done(c)
    BY <1>0, <2>1, <2>2, NoTokenAtItsDesk DEF Staff!Done, Staff!accounts
  <2>3. CASE ~Staff!Done(c)
    <3>1. /\ Staff!Take(c, r) /\ Staff!PersonFree(c, q.who) /\ q.pc = "asking"
          /\ Staff!Allowed(throttle[<<q.who, q.why>>], q.at)
      BY <1>2, <2>3 DEF Staff!LockPerson
    <3>2. r.pc = "issuing" /\ r.who = q.who /\ r.why = q.why /\ r.at = q.at
      BY <1>0 DEF DeskRow
    <3>3. \A d \in Client : d # c /\ Issues(d) => office[d].who # q.who
      BY <3>1 DEF Staff!PersonFree, Issues
    <3>4. people[q.who].phase # "none"
      BY <1>0, <3>1 DEF RequestHolds
    <3> HIDE DEF r, q
    <3>5. office'[c] = r
      BY <1>a, <3>1
    <3>6. RequestHolds(c)'
      BY <2>1, <3>1, <3>2, <3>4, <3>5 DEF RequestHolds, Issues, Redeems, Staff!accounts, Staff!Allowed
    <3> QED BY <2>1, <3>1, <3>2, <3>3, <3>6, OneAtItsDesk DEF Staff!accounts
  <2> QED BY <2>2, <2>3
<1>3. CASE Staff!RevokeOpenTokens(c)
  <2> DEFINE q == office[c]
             r == [q EXCEPT !.pc = "issued", !.gone = Staff!OpenOf(q.who, q.why)]
  <2>1. UNCHANGED <<Staff!accounts, token, throttle>> /\ Staff!Take(c, r) /\ q.pc = "issuing"
    BY <1>3 DEF Staff!RevokeOpenTokens, Staff!Still
  <2>2. /\ r.pc = "issued" /\ r.who = q.who /\ r.why = q.why /\ r.at = q.at
        /\ r.gone = Staff!OpenOf(q.who, q.why)
    BY <1>0 DEF DeskRow
  <2>3. \A d \in Client : d # c /\ Issues(d) => office[d].who # q.who
    BY <1>0, <2>1 DEF Issues
  <2>4. people[q.who].phase # "none" /\ Staff!Allowed(throttle[<<q.who, q.why>>], q.at)
    BY <1>0, <2>1 DEF RequestHolds, Issues
  <2>5. \A t \in Staff!OpenOf(q.who, q.why) : token[t].state # "none"
    BY DEF Staff!OpenOf
  <2> HIDE DEF r, q
  <2>6. office'[c] = r
    BY <1>a, <2>1
  <2>7. RequestHolds(c)'
    BY <2>1, <2>2, <2>4, <2>5, <2>6 DEF RequestHolds, Issues, Redeems, Staff!accounts, Staff!Allowed, Staff!OpenOf
  <2> QED BY <2>1, <2>2, <2>3, <2>7, OneAtItsDesk DEF Staff!accounts
<1>4. ASSUME NEW t \in Token, Staff!LockToken(c, t) PROVE TokensInv'
  <2> DEFINE r == [Staff!Idle EXCEPT !.pc = "redeeming", !.t = t, !.who = token[t].of, !.why = token[t].why]
  <2>1. /\ Staff!Take(c, r) /\ UNCHANGED <<Staff!accounts, token, throttle>>
        /\ token[t].state = "open" /\ Staff!TokenFree(c, t)
    BY <1>4 DEF Staff!LockToken, Staff!Still
  <2>2. r.pc = "redeeming" /\ r.t = t /\ r.who = token[t].of /\ r.why = token[t].why
    BY DEF Staff!Idle
  <2>3. \A d \in Client : d # c /\ Redeems(d) => office[d].t # t
    BY <2>1 DEF Staff!TokenFree, Redeems
  <2>4. token[t].uses = 0 /\ people[token[t].of].phase # "none"
    BY <2>1 DEF TokensInv, TokensLive
  <2> HIDE DEF r
  <2>5. office'[c] = r
    BY <1>a, <2>1
  <2>6. RequestHolds(c)'
    BY <2>1, <2>2, <2>4, <2>5 DEF RequestHolds, Issues, Redeems, Staff!accounts
  <2> QED BY <2>1, <2>2, <2>3, <2>6, OneAtItsDesk DEF Staff!accounts
<1> QED BY <1>1, <1>2, <1>3, <1>4

(* The token that is issued replaces those that worked, and is counted.    *)
LEMMA IssueStep ==
    ASSUME Staff!IdentityAssumption, TokensInv, AccountsTyped', [Staff!Next]_(Staff!vars),
           NEW c \in Client, NEW t \in Token, Staff!IssueToken(c, t)
    PROVE  TokensInv'
<1> DEFINE r == office[c]
           tally == throttle[<<r.who, r.why>>]
           new == [state |-> "open", of |-> r.who, why |-> r.why, till |-> r.at + Lifetime, uses |-> 0]
<1>0. /\ office \in [Client -> DeskRow] /\ token \in [Token -> TokenRow]
      /\ throttle \in [Person \X Staff!Purpose -> CountRow] /\ people \in [Person -> PersonRow]
      /\ r.who \in Person /\ r.why \in Staff!Purpose /\ r.at \in Nat /\ tally \in CountRow
      /\ Lifetime \in Nat /\ Window \in Nat \ {0} /\ MaxRequests \in Nat \ {0}
  BY DEF TokensInv, AccountsTyped, DeskRow, Staff!IdentityAssumption
<1>1. /\ r.pc = "issued" /\ token[t].state = "none"
      /\ token' = [u \in Token |-> CASE u = t -> new
                                     [] u \in r.gone -> [token[u] EXCEPT !.state = "revoked"]
                                     [] OTHER -> token[u]]
      /\ throttle' = [throttle EXCEPT ![<<r.who, r.why>>] = Staff!Counted(tally, r.at)]
      /\ Staff!Done(c) /\ UNCHANGED people
  BY DEF Staff!IssueToken, Staff!accounts
<1>2. /\ Staff!OpenOf(r.who, r.why) \subseteq r.gone /\ \A u \in r.gone : token[u].state # "none"
      /\ Staff!Allowed(tally, r.at) /\ people[r.who].phase # "none"
  BY <1>1 DEF TokensInv, RequestHolds, Issues
<1>3. new.state = "open" /\ new.of = r.who /\ new.why = r.why /\ new.till = r.at + Lifetime /\ new.uses = 0
  OBVIOUS
<1>4. ASSUME NEW u \in Token
      PROVE  /\ u = t => token'[u] = new
             /\ u # t => /\ token'[u].of = token[u].of /\ token'[u].why = token[u].why
                         /\ token'[u].till = token[u].till /\ token'[u].uses = token[u].uses
                         /\ token'[u].state = "none" <=> token[u].state = "none"
                         /\ token'[u].state = "open" => token[u].state = "open" /\ u \notin r.gone
  BY <1>0, <1>1, <1>2 DEF TokenRow
<1>5. \A d \in Client : office'[d] = IF d = c THEN Staff!Idle ELSE office[d]
  BY <1>0, <1>1 DEF Staff!Done, Staff!Take
<1>6. Staff!Idle.pc = "idle"
  BY DEF Staff!Idle
<1> HIDE DEF new, r, tally
<1>7. TokensLive'
  BY <1>1, <1>2, <1>3, <1>4 DEF TokensInv, TokensLive
<1>8. OneWorks'
  <2>1. \A u \in Token : u # t /\ token'[u].state = "open" => ~(token[u].of = r.who /\ token[u].why = r.why)
    BY <1>2, <1>4 DEF Staff!OpenOf
  <2> QED BY <1>3, <1>4, <2>1 DEF TokensInv, OneWorks
<1>9. OneIssues' /\ OneRedeems'
  BY <1>5, <1>6 DEF TokensInv, OneIssues, OneRedeems, Issues, Redeems
<1>10. ASSUME NEW d \in Client PROVE RequestHolds(d)'
  <2>1. CASE d = c
    BY <1>5, <1>6, <2>1 DEF RequestHolds, Issues, Redeems
  <2>2. CASE d # c
    <3> DEFINE s == office[d]
    <3>1. office'[d] = s /\ RequestHolds(d) /\ s.who \in Person /\ s.why \in Staff!Purpose /\ s.gone \subseteq Token
      BY <1>0, <1>5, <2>2 DEF TokensInv, DeskRow
    <3>2. Issues(d) => s.who # r.who
      BY <1>1, <2>2 DEF TokensInv, OneIssues, Issues, r
    <3>3. Issues(d) => throttle'[<<s.who, s.why>>] = throttle[<<s.who, s.why>>]
      BY <1>0, <1>1, <3>1, <3>2
    <3>4. Issues(d) => Staff!OpenOf(s.who, s.why)' \subseteq Staff!OpenOf(s.who, s.why)
      BY <1>3, <1>4, <3>1, <3>2 DEF Staff!OpenOf
    <3>5. \A u \in Token : token[u].state # "none" => /\ token'[u].state # "none"
                                                     /\ token'[u].of = token[u].of
                                                     /\ token'[u].why = token[u].why
                                                     /\ token'[u].uses = token[u].uses
      BY <1>1, <1>4
    <3> HIDE DEF s
    <3> QED
      <4>1. s.pc \in {"asking", "issuing", "issued", "redeeming"} => people'[s.who].phase # "none"
        BY <1>1, <3>1 DEF RequestHolds, s
      <4>2. Issues(d) => Staff!Allowed(throttle'[<<s.who, s.why>>], s.at)
        BY <3>1, <3>3 DEF RequestHolds, s
      <4>3. s.pc = "issued" => /\ Staff!OpenOf(s.who, s.why)' \subseteq s.gone
                               /\ \A u \in s.gone : token'[u].state # "none"
        BY <3>1, <3>4, <3>5 DEF RequestHolds, s, Issues
      <4>4. Redeems(d) => /\ s.t \in Token /\ token'[s.t].state # "none" /\ token'[s.t].uses = 0
                          /\ token'[s.t].of = s.who /\ token'[s.t].why = s.why
        BY <3>1, <3>5 DEF RequestHolds, s
      <4> QED BY <3>1, <4>1, <4>2, <4>3, <4>4 DEF RequestHolds, s, Issues, Redeems, Staff!OpenOf
  <2> QED BY <2>1, <2>2
<1>11. Issued' = Issued \cup {t}
  BY <1>3, <1>4 DEF Issued
<1>12. IsFiniteSet(Issued)'
  BY <1>11, FS_AddElement DEF TokensInv
<1>13. ASSUME NEW p \in Person, NEW why \in Staff!Purpose PROVE WindowCounts(p, why)'
  <2>0. /\ WindowCounts(p, why) /\ throttle[<<p, why>>] \in CountRow
        /\ IsFiniteSet(Staff!InWindow(p, why)) /\ Cardinality(Staff!InWindow(p, why)) \in Nat
    BY <1>0, InWindowIsFinite DEF TokensInv
  <2>1. CASE ~(p = r.who /\ why = r.why)
    <3>1. throttle'[<<p, why>>] = throttle[<<p, why>>]
      BY <1>0, <1>1, <2>1
    <3>2. Staff!InWindow(p, why)' = Staff!InWindow(p, why)
      <4>1. ASSUME NEW u \in Token
            PROVE  u \in Staff!InWindow(p, why)' <=> u \in Staff!InWindow(p, why)
        <5>1. CASE u = t
          <6>1. u \notin Staff!InWindow(p, why)
            BY <1>1, <5>1 DEF Staff!InWindow
          <6>2. ~(token'[u].of = p /\ token'[u].why = why)
            BY <1>3, <1>4, <2>1, <5>1
          <6>3. u \notin Staff!InWindow(p, why)'
            BY <6>2 DEF Staff!InWindow
          <6> QED BY <6>1, <6>3
        <5>2. CASE u # t
          BY <1>4, <3>1, <5>2 DEF Staff!InWindow
        <5> QED BY <5>1, <5>2
      <4>2. Staff!InWindow(p, why)' \subseteq Token /\ Staff!InWindow(p, why) \subseteq Token
        BY DEF Staff!InWindow
      <4> QED BY <4>1, <4>2
    <3>3. \A u \in Issued' : token'[u].of = p /\ token'[u].why = why =>
             u \in Issued /\ token[u].of = p /\ token[u].why = why /\ token'[u].till = token[u].till
      BY <1>3, <1>4, <2>1 DEF Issued
    <3> QED BY <2>0, <3>1, <3>2, <3>3 DEF WindowCounts
  <2>2. CASE p = r.who /\ why = r.why
    <3>1. throttle'[<<p, why>>] = Staff!Counted(tally, r.at) /\ throttle[<<p, why>>] = tally
      BY <1>0, <1>1, <2>2 DEF tally
    <3>2. tally.start \in Nat /\ tally.count \in Nat
      BY <1>0 DEF CountRow
    <3>3. \A u \in Issued : token[u].of = p /\ token[u].why = why =>
              /\ tally.count > 0 /\ token[u].till - Lifetime < tally.start + Window
              /\ token[u].till \in Nat
      BY <1>0, <2>0, <3>1 DEF WindowCounts, Issued, TokenRow
    <3>4. \A u \in Issued' : token'[u].of = p /\ token'[u].why = why =>
              \/ u = t
              \/ u \in Issued /\ token[u].of = p /\ token[u].why = why /\ token'[u].till = token[u].till
      BY <1>4 DEF Issued
    <3>5. token'[t].till = r.at + Lifetime /\ t \notin Issued
      BY <1>1, <1>3, <1>4 DEF Issued
    <3>6. CASE tally.count = 0 \/ r.at - tally.start >= Window
      <4>1. Staff!Counted(tally, r.at).start = r.at /\ Staff!Counted(tally, r.at).count = 1
        BY <3>6 DEF Staff!Counted
      <4>2. Staff!InWindow(p, why)' \subseteq {t}
        <5> SUFFICES ASSUME NEW u \in Staff!InWindow(p, why)', u # t PROVE FALSE
          OBVIOUS
        <5>1. u \in Issued' /\ token'[u].of = p /\ token'[u].why = why
          BY DEF Staff!InWindow, Issued
        <5>2. u \in Issued /\ token[u].of = p /\ token[u].why = why /\ token'[u].till = token[u].till
          BY <3>4, <5>1
        <5>3. token'[u].till - Lifetime - r.at >= 0
          BY <1>0, <3>1, <3>3, <4>1, <5>2 DEF Staff!InWindow
        <5> QED BY <1>0, <3>2, <3>3, <3>6, <5>2, <5>3
      <4>3. Staff!InWindow(p, why)' = {} \/ Staff!InWindow(p, why)' = {t}
        BY <4>2
      <4>4. Cardinality(Staff!InWindow(p, why)') <= 1
        <5> DEFINE V == Staff!InWindow(p, why)'
        <5>1. V = {} \/ V = {t}
          BY <4>3
        <5> HIDE DEF V
        <5>2. Cardinality(V) = 0 \/ Cardinality(V) = 1
          BY <5>1, FS_EmptySet, FS_Singleton
        <5>3. Cardinality(V) <= 1
          BY <5>2
        <5> QED BY <5>3 DEF V
      <4>5. \A u \in Issued' : token'[u].of = p /\ token'[u].why = why =>
                token'[u].till - Lifetime < r.at + Window
        BY <1>0, <3>2, <3>3, <3>4, <3>5, <3>6
      <4> QED BY <1>0, <3>1, <4>1, <4>4, <4>5 DEF WindowCounts
    <3>7. CASE ~(tally.count = 0 \/ r.at - tally.start >= Window)
      <4>1. Staff!Counted(tally, r.at).start = tally.start /\ Staff!Counted(tally, r.at).count = tally.count + 1
        BY <1>0, <3>7 DEF Staff!Counted, CountRow
      <4>2. tally.count < MaxRequests
        BY <1>2, <3>7 DEF Staff!Allowed
      <4>3. Staff!InWindow(p, why)' \subseteq Staff!InWindow(p, why) \cup {t}
        BY <3>1, <3>4, <4>1 DEF Staff!InWindow, Issued
      <4>4. Cardinality(Staff!InWindow(p, why)') <= tally.count + 1
        <5>1. /\ IsFiniteSet(Staff!InWindow(p, why) \cup {t})
              /\ Cardinality(Staff!InWindow(p, why) \cup {t}) <= Cardinality(Staff!InWindow(p, why)) + 1
              /\ Cardinality(Staff!InWindow(p, why) \cup {t}) \in Nat
          <6> DEFINE V == Staff!InWindow(p, why)
          <6>1. IsFiniteSet(V) /\ Cardinality(V) \in Nat
            BY <2>0
          <6> HIDE DEF V
          <6>2. IsFiniteSet(V \cup {t}) /\ Cardinality(V \cup {t}) \in {Cardinality(V), Cardinality(V) + 1}
            BY <6>1, FS_AddElement
          <6>3. Cardinality(V \cup {t}) <= Cardinality(V) + 1 /\ Cardinality(V \cup {t}) \in Nat
            BY <6>1, <6>2
          <6> QED BY <6>2, <6>3 DEF V
        <5>2. /\ Cardinality(Staff!InWindow(p, why)') <= Cardinality(Staff!InWindow(p, why) \cup {t})
              /\ Cardinality(Staff!InWindow(p, why)') \in Nat
          BY <4>3, <5>1, FS_Subset, FS_CardinalityType
        <5>3. Cardinality(Staff!InWindow(p, why)) <= tally.count
          BY <2>0, <3>1 DEF WindowCounts
        <5> QED BY <2>0, <3>2, <5>1, <5>2, <5>3
      <4>5. \A u \in Issued' : token'[u].of = p /\ token'[u].why = why =>
                token'[u].till - Lifetime < tally.start + Window
        BY <1>0, <3>2, <3>3, <3>4, <3>5, <3>7
      <4> QED BY <1>0, <3>1, <3>2, <4>1, <4>2, <4>4, <4>5 DEF WindowCounts
    <3> QED BY <3>6, <3>7
  <2> QED BY <2>1, <2>2
<1>14. Staff!SecretsCount'
  <2>1. token[t].uses = 0
    BY <1>1 DEF TokensInv, TokensLive
  <2>2. ASSUME NEW p \in Person
        PROVE  {u \in Token : token'[u].of = p /\ token'[u].why = "reset" /\ token'[u].uses > 0}
                 = {u \in Token : token[u].of = p /\ token[u].why = "reset" /\ token[u].uses > 0}
    BY <1>3, <1>4, <2>1
  <2> QED BY <1>1, <2>2 DEF TokensInv, Staff!SecretsCount
<1> QED BY <1>7, <1>8, <1>9, <1>10, <1>12, <1>13, <1>14 DEF TokensInv
(* A redemption changes the password once, for a token that was not used.  *)
LEMMA RedeemStep ==
    ASSUME Staff!IdentityAssumption, TokensInv, AccountsTyped', [Staff!Next]_(Staff!vars),
           NEW c \in Client, Staff!Redeem(c)
    PROVE  TokensInv'
<1> DEFINE r == office[c]
           reset == r.why = "reset"
           U(p) == {t \in Token : token[t].of = p /\ token[t].why = "reset" /\ token[t].uses > 0}
<1>0. /\ office \in [Client -> DeskRow] /\ token \in [Token -> TokenRow]
      /\ people \in [Person -> PersonRow]
      /\ r.who \in Person /\ r.why \in Staff!Purpose
      /\ Redeems(c) /\ Staff!Done(c) /\ UNCHANGED throttle
  BY DEF TokensInv, AccountsTyped, DeskRow, Staff!Redeem, Redeems, Staff!Still
<1>1. /\ r.t \in Token /\ token[r.t].state # "none" /\ token[r.t].uses = 0
      /\ token[r.t].of = r.who /\ token[r.t].why = r.why
  BY <1>0 DEF TokensInv, RequestHolds
<1>2. \A d \in Client : office'[d] = IF d = c THEN Staff!Idle ELSE office[d]
  BY <1>0 DEF Staff!Done, Staff!Take
<1>3. Staff!Idle.pc = "idle"
  BY DEF Staff!Idle
<1>4. CASE ~Staff!Eligible(r.who, r.why)
  <2>1. UNCHANGED <<people, token>>
    BY <1>4 DEF Staff!Redeem
  <2> QED BY <1>0, <1>3, <2>1, NoTokenAtItsDesk DEF Staff!Done
<1>5. CASE Staff!Eligible(r.who, r.why)
  <2>1. /\ people' = [people EXCEPT ![r.who].secret = IF reset THEN @ + 1 ELSE @,
                                    ![r.who].verified = @ \/ ~reset]
        /\ token' = [t \in Token |->
                        CASE t = r.t -> [token[t] EXCEPT !.state = IF @ = "open" THEN "used" ELSE @,
                                                         !.uses = @ + 1]
                          [] t \in Staff!OpenOf(r.who, r.why) \ {r.t} -> [token[t] EXCEPT !.state = "revoked"]
                          [] OTHER -> token[t]]
    BY <1>5 DEF Staff!Redeem
  <2>2. ASSUME NEW p \in Person
        PROVE  people'[p].secret = IF reset /\ p = r.who THEN people[p].secret + 1 ELSE people[p].secret
    <3>1. \E v : people' = [people EXCEPT ![r.who].secret = IF reset THEN @ + 1 ELSE @,
                                          ![r.who].verified = v]
      BY <2>1
    <3> HIDE DEF r
    <3> QED BY <1>0, <3>1 DEF PersonRow
  <2>3. ASSUME NEW t \in Token
        PROVE  /\ token'[t].of = token[t].of /\ token'[t].why = token[t].why
               /\ token'[t].till = token[t].till
               /\ token'[t].uses = IF t = r.t THEN 1 ELSE token[t].uses
               /\ token'[t].state = "none" <=> token[t].state = "none"
               /\ token'[t].state = "open" => token[t].state = "open" /\ t # r.t
    <3>1. token[t] \in TokenRow /\ (t \in Staff!OpenOf(r.who, r.why) => token[t].state = "open")
      BY <1>0 DEF Staff!OpenOf
    <3>2. CASE t = r.t
      <4>1. token'[t] = [token[t] EXCEPT !.state = IF @ = "open" THEN "used" ELSE @, !.uses = @ + 1]
        BY <2>1, <3>2
      <4> HIDE DEF r
      <4> QED BY <1>1, <3>1, <3>2, <4>1 DEF TokenRow
    <3>3. CASE t # r.t
      <4>1. \/ token'[t] = token[t]
            \/ token'[t] = [token[t] EXCEPT !.state = "revoked"] /\ token[t].state = "open"
        BY <2>1, <3>1, <3>3
      <4> HIDE DEF r
      <4> QED BY <3>1, <3>3, <4>1 DEF TokenRow
    <3> QED BY <3>2, <3>3
  <2>4. \A t \in Token : token[t].of \in Person
    BY <1>0 DEF TokenRow
  <2> HIDE DEF r
  <2>5. TokensLive'
    BY <1>1, <2>3, <2>4, PeopleStay DEF TokensInv, TokensLive
  <2>6. OneWorks'
    BY <2>3 DEF TokensInv, OneWorks
  <2>7. OneIssues' /\ OneRedeems'
    BY <1>2, <1>3 DEF TokensInv, OneIssues, OneRedeems, Issues, Redeems
  <2>8. ASSUME NEW d \in Client PROVE RequestHolds(d)'
    <3>1. CASE d = c
      BY <1>2, <1>3, <3>1 DEF RequestHolds, Issues, Redeems
    <3>2. CASE d # c
      <4> DEFINE s == office[d]
      <4>1. office'[d] = s /\ RequestHolds(d) /\ s.who \in Person /\ s.gone \subseteq Token
        BY <1>0, <1>2, <3>2 DEF TokensInv, DeskRow
      <4>2. Redeems(d) => s.t # r.t
        BY <1>0, <3>2 DEF TokensInv, OneRedeems, r
      <4>3. people[s.who].phase # "none" => people'[s.who].phase # "none"
        BY <4>1, PeopleStay DEF TokensInv
      <4>4. Staff!OpenOf(s.who, s.why)' \subseteq Staff!OpenOf(s.who, s.why)
        BY <2>3, <4>1 DEF Staff!OpenOf
      <4>5. s.pc = "issued" => /\ Staff!OpenOf(s.who, s.why)' \subseteq s.gone
                               /\ \A u \in s.gone : token'[u].state # "none"
        BY <2>3, <4>1, <4>4 DEF RequestHolds
      <4>6. Redeems(d) => /\ s.t \in Token /\ token'[s.t].state # "none" /\ token'[s.t].uses = 0
                          /\ token'[s.t].of = s.who /\ token'[s.t].why = s.why
        BY <2>3, <4>1, <4>2 DEF RequestHolds
      <4> QED BY <1>0, <4>1, <4>3, <4>5, <4>6 DEF RequestHolds, Issues, Redeems, Staff!OpenOf, Staff!Allowed
    <3> QED BY <3>1, <3>2
  <2>9. IsFiniteSet(Issued)'
    <3>1. Issued' = Issued
      BY <2>3 DEF Issued
    <3> QED BY <3>1 DEF TokensInv
  <2>10. ASSUME NEW p \in Person, NEW why \in Staff!Purpose PROVE WindowCounts(p, why)'
    <3>1. Staff!InWindow(p, why)' = Staff!InWindow(p, why)
      BY <1>0, <2>3 DEF Staff!InWindow
    <3>2. Issued' = Issued /\ Issued \subseteq Token
      BY <2>3 DEF Issued
    <3> QED BY <1>0, <2>3, <3>1, <3>2 DEF TokensInv, WindowCounts
  <2>11. Staff!SecretsCount'
    <3> SUFFICES ASSUME NEW p \in Person PROVE people'[p].secret = Cardinality(U(p)')
      BY Cardinals DEF Staff!SecretsCount
    <3>0. /\ people[p].secret = Cardinality(U(p)) /\ IsFiniteSet(U(p)) /\ people[p].secret \in Nat
      <4>1. U(p) \subseteq Issued
        BY DEF TokensInv, TokensLive, Issued
      <4>2. IsFiniteSet(U(p))
        BY <4>1, FS_Subset DEF TokensInv
      <4>3. people[p].secret \in Nat
        BY <1>0 DEF PersonRow
      <4> QED BY <4>2, <4>3, Cardinals DEF TokensInv, Staff!SecretsCount
    <3>1. CASE reset /\ p = r.who
      <4>1. U(p)' = U(p) \cup {r.t} /\ r.t \notin U(p)
        BY <1>1, <2>3, <3>1
      <4> DEFINE V == U(p)
      <4>2. IsFiniteSet(V) /\ r.t \notin V
        BY <3>0, <4>1
      <4> HIDE DEF V
      <4>3. Cardinality(V \cup {r.t}) = Cardinality(V) + 1
        BY <4>2, FS_AddElement
      <4> QED BY <2>2, <3>0, <3>1, <4>1, <4>3 DEF V
    <3>2. CASE ~(reset /\ p = r.who)
      <4>1. U(p)' = U(p)
        BY <1>1, <2>3, <3>2
      <4> QED BY <2>2, <3>0, <3>2, <4>1
    <3> QED BY <3>1, <3>2
  <2> QED BY <2>5, <2>6, <2>7, <2>8, <2>9, <2>10, <2>11 DEF TokensInv
<1> QED BY <1>4, <1>5
(* Adding people, their roles and their status change nobody's password.   *)
LEMMA OtherPeopleSteps ==
    ASSUME Staff!IdentityAssumption, TokensInv, NEW c \in Client,
           \/ Staff!Initialize(c) \/ Staff!WriteRoles(c)
           \/ \E q \in Person, status \in {"active", "suspended"} : Staff!UpdatePersonStatus(c, q, status),
           NEW p \in Person
    PROVE  people'[p].secret = people[p].secret
<1>0. /\ people \in [Person -> PersonRow] /\ office[c].who \in Person /\ Founder \in Person
      /\ Staff!NoPerson.secret = 0
  BY DEF TokensInv, AccountsTyped, DeskRow, Staff!IdentityAssumption, Staff!NoPerson
<1>1. CASE Staff!Initialize(c)
  <2>1. people[p].secret = 0
    BY <1>1, NobodyHasSecrets DEF Staff!Initialize
  <2>2. /\ people' = [people EXCEPT ![Founder] = [Staff!NoPerson EXCEPT !.phase = "active", !.verified = TRUE,
                                                                !.roles = {Owner}]]
        /\ [Staff!NoPerson EXCEPT !.phase = "active", !.verified = TRUE, !.roles = {Owner}].secret = 0
    BY <1>1 DEF Staff!Initialize, Staff!NoPerson
  <2> QED BY <1>0, <2>1, <2>2
<1>2. CASE Staff!WriteRoles(c)
  <2> DEFINE r == office[c]
             new == [Staff!NoPerson EXCEPT !.phase = "active", !.roles = r.roles]
  <2>1. \/ people[r.who].phase = "none" /\ people' = [people EXCEPT ![r.who] = new]
        \/ people' = [people EXCEPT ![r.who].roles = r.roles]
        \/ people' = people
    BY <1>2 DEF Staff!WriteRoles
  <2>2. new.secret = 0
    BY DEF Staff!NoPerson
  <2> HIDE DEF new, r
  <2>3. people[p].phase = "none" => people[p].secret = 0
    BY NobodyHasSecrets
  <2> QED BY <1>0, <2>1, <2>2, <2>3 DEF PersonRow
<1>3. ASSUME NEW q \in Person, NEW status \in {"active", "suspended"}, Staff!UpdatePersonStatus(c, q, status)
      PROVE  people'[p].secret = people[p].secret
  BY <1>0, <1>3 DEF Staff!UpdatePersonStatus, PersonRow
<1> QED BY <1>1, <1>2, <1>3

LEMMA TokensInvStep ==
    ASSUME Staff!IdentityAssumption, TokensInv, [Staff!Next]_(Staff!vars) PROVE TokensInv'
<1>0. AccountsTyped' /\ Staff!Idle.pc = "idle"
  BY AccountsTypedStep DEF TokensInv, Staff!Idle
<1>a. ASSUME NEW c \in Client, Staff!Done(c), UNCHANGED <<token, throttle>>,
             \A p \in Person : people'[p].secret = people[p].secret
      PROVE  TokensInv'
  BY <1>0, <1>a, NoTokenAtItsDesk DEF Staff!Done
<1>b. ASSUME UNCHANGED <<token, throttle, office>>,
             \A p \in Person : people'[p].secret = people[p].secret
      PROVE  TokensInv'
  <2>1. ASSUME NEW c \in Client PROVE RequestHolds(c)'
    <3>1. RequestHolds(c) /\ office[c].who \in Person
      BY DEF TokensInv, AccountsTyped, DeskRow
    <3>2. people[office[c].who].phase # "none" => people'[office[c].who].phase # "none"
      BY <3>1, PeopleStay DEF TokensInv
    <3> QED BY <1>b, <3>1, <3>2 DEF RequestHolds, Issues, Redeems, Staff!OpenOf, Staff!Allowed
  <2>2. OneIssues' /\ OneRedeems'
    BY <1>b DEF TokensInv, OneIssues, OneRedeems, Issues, Redeems
  <2> QED BY <1>0, <1>b, <2>1, <2>2, SameTokens
<1>c. ASSUME NEW c \in Client, NEW r, Staff!Take(c, r), r.pc \in {"signing", "in", "adding", "giving"},
             UNCHANGED <<people, token, throttle>>
      PROVE  TokensInv'
  BY <1>0, <1>c, NoTokenAtItsDesk
<1> USE DEF Staff!Still
<1>1. CASE Staff!Tick \/ UNCHANGED Staff!vars
  BY <1>1, <1>b DEF Staff!Tick, Staff!vars, Staff!accounts
<1>2. ASSUME NEW c \in Client, Staff!Initialize(c) PROVE TokensInv'
  BY <1>2, <1>b, OtherPeopleSteps DEF Staff!Initialize
<1>3. ASSUME NEW c \in Client, Staff!LockPerson(c) \/ Staff!RevokeOpenTokens(c) PROVE TokensInv'
  BY <1>0, <1>3, AskingSteps
<1>4. ASSUME NEW c \in Client, Staff!Redeem(c) PROVE TokensInv'
  BY <1>0, <1>4, RedeemStep
<1>5. ASSUME NEW c \in Client, Staff!Victim(c) PROVE TokensInv'
  BY <1>5, <1>a DEF Staff!Victim, Staff!accounts
<1>6. ASSUME NEW c \in Client, Staff!WriteRoles(c) PROVE TokensInv'
  BY <1>6, <1>a, OtherPeopleSteps DEF Staff!WriteRoles
<1>7. ASSUME NEW c \in Client, NEW s \in Session, Staff!OpenSession(c, s) \/ Staff!RevokeCurrent(c, s)
      PROVE  TokensInv'
  BY <1>7, <1>a DEF Staff!OpenSession, Staff!RevokeCurrent
<1>8. ASSUME NEW c \in Client, NEW t \in Token, Staff!IssueToken(c, t) PROVE TokensInv'
  BY <1>0, <1>8, IssueStep
<1>9. ASSUME NEW c \in Client, NEW t \in Token, Staff!LockToken(c, t) PROVE TokensInv'
  BY <1>0, <1>9, AskingSteps
<1>10. ASSUME NEW c \in Client, NEW k \in ApiKey,
              Staff!RevokeApiKey(c, k) \/ \E g \in SUBSET Grant : Staff!CreateApiKey(c, k, g)
       PROVE  TokensInv'
  BY <1>10, <1>a DEF Staff!CreateApiKey, Staff!RevokeApiKey
<1>11. ASSUME NEW c \in Client, NEW r \in Role, Staff!DeleteRole(c, r) PROVE TokensInv'
  BY <1>11, <1>a DEF Staff!DeleteRole
<1>12. ASSUME NEW c \in Client, NEW r \in Role, NEW g \in SUBSET Grant,
              Staff!CreateRole(c, r, g) \/ Staff!ReplaceRoleGrants(c, r, g)
       PROVE  TokensInv'
  BY <1>12, <1>a DEF Staff!CreateRole, Staff!ReplaceRoleGrants
<1>13. ASSUME NEW c \in Client, NEW p \in Person, Staff!CreateSession(c, p) \/ Staff!AuthenticateBearer(c, p)
       PROVE  TokensInv'
  <2>1. /\ [Staff!Idle EXCEPT !.pc = "signing", !.who = p].pc = "signing"
        /\ \A by, grants : [Staff!Idle EXCEPT !.pc = "in", !.by = by, !.as = p, !.held = grants].pc = "in"
    BY DEF Staff!Idle
  <2>2. CASE Staff!CreateSession(c, p)
    BY <1>c, <2>1, <2>2 DEF Staff!CreateSession, Staff!accounts
  <2>3. CASE Staff!AuthenticateBearer(c, p)
    <3>1. PICK by, grants : Staff!Caller(c, p, by, grants)
      BY <2>3 DEF Staff!AuthenticateBearer
    <3> DEFINE r == [Staff!Idle EXCEPT !.pc = "in", !.by = by, !.as = p, !.held = grants]
    <3>2. Staff!Take(c, r) /\ r.pc = "in"
      BY <2>1, <3>1 DEF Staff!Caller
    <3> HIDE DEF r
    <3>3. UNCHANGED <<people, token, throttle>>
      BY <2>3 DEF Staff!AuthenticateBearer, Staff!accounts
    <3> QED BY <1>c, <3>2, <3>3
  <2> QED BY <1>13, <2>2, <2>3
<1>14. ASSUME NEW c \in Client, NEW p \in Person, NEW why \in Staff!Purpose, Staff!RequestToken(c, p, why)
       PROVE  TokensInv'
  BY <1>0, <1>14, AskingSteps
<1>15. ASSUME NEW c \in Client, NEW p \in Person, NEW given \in SUBSET Role,
              Staff!CreatePerson(c, p, given) \/ Staff!ReplacePersonRoles(c, p, given)
       PROVE  TokensInv'
  <2>1. office[c] \in DeskRow
    BY DEF TokensInv, AccountsTyped
  <2>2. /\ [office[c] EXCEPT !.pc = "adding", !.who = p, !.roles = given].pc = "adding"
        /\ [office[c] EXCEPT !.pc = "giving", !.who = p, !.roles = given].pc = "giving"
    BY <2>1 DEF DeskRow
  <2> QED BY <1>15, <1>c, <2>2 DEF Staff!CreatePerson, Staff!ReplacePersonRoles, Staff!accounts
<1>16. ASSUME NEW c \in Client, NEW p \in Person, NEW status \in {"active", "suspended"},
              Staff!UpdatePersonStatus(c, p, status)
       PROVE  TokensInv'
  BY <1>16, <1>a, OtherPeopleSteps DEF Staff!UpdatePersonStatus
<1>17. CASE Staff!Next
  BY <1>17, <1>1, <1>2, <1>3, <1>4, <1>5, <1>6, <1>7, <1>8, <1>9, <1>10, <1>11, <1>12, <1>13,
     <1>14, <1>15, <1>16
     DEF Staff!Next
<1> QED BY <1>1, <1>17

(* One token works, so many in a window, each used once, and a password    *)
(* changes once for each reset that was redeemed.                          *)
THEOREM TokensAreSafe == SiteSpec => []TokensHold
<1> DEFINE I == Is("staff") => TokensInv
<1>0. Staff!IdentityAssumption
  BY SiteAssumption
<1>1. SiteInit => I
  BY <1>0, TokensInvInit DEF SiteInit, Is
<1>2. I /\ [SiteNext]_site => I'
  <2> SUFFICES ASSUME I, [SiteNext]_site, Is("staff") PROVE TokensInv'
    BY PartStays DEF Is
  <2> QED BY <1>0, StaffMove, TokensInvStep
<1>3. I => TokensHold
  BY <1>0, TokensInvHolds DEF TokensHold
<1> HIDE DEF I
<1> QED BY <1>1, <1>2, <1>3, PTL DEF SiteSpec

-----------------------------------------------------------------------------
(* What a request under way found, and holds while it has the course.      *)
Lawful(r) ==
    /\ r.pc \in {"idle", "editing", "naming", "signing", "enrolling", "learning"}
    /\ r.pc = "editing"   => course.phase = "live" /\ course.state # "closed"
    /\ r.pc = "enrolling" => course.phase = "live" /\ course.state = "open"
    /\ r.pc = "learning"  => r.s \in Student /\ r.l \in Lesson

IsLesson(l)  == l \in [phase : {l.phase}, in : {l.in}, pos : {l.pos}, text : {l.text}]
IsStudent(s) == s \in [phase : {s.phase}, standing : {s.standing}, invited : {s.invited}]

SchoolRows ==
    /\ course \in [state : {"draft", "open", "closed"}, phase : {"live", "trash", "gone"}]
    /\ lesson = [l \in Lesson |-> lesson[l]] /\ \A l \in Lesson : IsLesson(lesson[l])
    /\ student = [s \in Student |-> student[s]] /\ \A s \in Student : IsStudent(student[s])

Recorded ==
    /\ progress \subseteq Student \X Lesson
    /\ \A p \in progress : student[p[1]].phase # "gone" /\ lesson[p[2]].phase = "live"

CoursesInv ==
    /\ SchoolRows /\ Recorded
    /\ class = [c \in Client |-> class[c]] /\ \A c \in Client : Lawful(class[c])

Settles == School!SettledStays /\ School!EntersLearning

LEMMA CoursesInvInit == ASSUME School!Init PROVE CoursesInv
<1> USE DEF School!Init
<1>1. SchoolRows
  BY DEF SchoolRows, IsLesson, IsStudent
<1>2. Recorded
  BY DEF Recorded
<1>3. class = [c \in Client |-> class[c]] /\ \A c \in Client : Lawful(class[c])
  BY DEF School!None, Lawful
<1> QED BY <1>1, <1>2, <1>3 DEF CoursesInv

LEMMA NoneIsLawful == Lawful(School!None) /\ Lawful(School!None)' /\ School!None.pc = "idle"
BY DEF Lawful, School!None

(* A request moves, and its course and learners stay.                      *)
LEMMA RequestStep ==
    ASSUME CoursesInv, UNCHANGED <<course, School!curriculum, student, enrolled, progress>>,
           class' = class \/ \E c \in Client : \E r : Lawful(r) /\ class' = [class EXCEPT ![c] = r]
    PROVE  CoursesInv' /\ Settles
<1>1. SchoolRows' /\ Recorded'
  BY DEF CoursesInv, SchoolRows, Recorded, School!curriculum
<1>2. class' = [c \in Client |-> class'[c]] /\ \A c \in Client : Lawful(class'[c])
  BY DEF CoursesInv
<1>3. \A r : Lawful(r)' <=> Lawful(r)
  BY DEF Lawful
<1>4. \A c \in Client : Lawful(class[c])'
  BY <1>2 DEF Lawful
<1>5. Settles
  BY DEF Settles, School!SettledStays, School!EntersLearning, School!curriculum
<1> QED BY <1>1, <1>2, <1>4, <1>5 DEF CoursesInv

(* The course changes while no request has it.                             *)
LEMMA CourseStep ==
    ASSUME CoursesInv, NEW c \in Client,
           \/ \E state \in {"open", "closed"} : School!UpdateCourse(c, state)
           \/ School!DeleteCourse(c) \/ School!RestoreCourse(c) \/ School!PurgeCourse(c)
    PROVE  CoursesInv' /\ Settles
<1>1. /\ class' = class
      /\ \A d \in Client : class[d].pc \notin {"editing", "enrolling"}
  BY DEF School!UpdateCourse, School!DeleteCourse, School!RestoreCourse, School!PurgeCourse, School!Begin, School!CourseFree
<1>2. class' = [d \in Client |-> class'[d]] /\ \A d \in Client : Lawful(class[d])'
  BY <1>1 DEF CoursesInv, Lawful
<1>3. course' \in [state : {"draft", "open", "closed"}, phase : {"live", "trash", "gone"}]
  BY DEF CoursesInv, SchoolRows, School!UpdateCourse, School!DeleteCourse, School!RestoreCourse, School!PurgeCourse
<1>4. CASE School!PurgeCourse(c)
  <2>1. /\ lesson' = [l \in Lesson |-> [lesson[l] EXCEPT !.phase = "gone"]] /\ UNCHANGED student
        /\ enrolled' = {} /\ progress' = {} /\ course' = [course EXCEPT !.phase = "gone"]
    BY <1>4 DEF School!PurgeCourse
  <2>2. \A l \in Lesson : IsLesson([lesson[l] EXCEPT !.phase = "gone"])
    BY DEF CoursesInv, SchoolRows, IsLesson
  <2>3. SchoolRows'
    BY <1>3, <2>1, <2>2 DEF CoursesInv, SchoolRows
  <2>4. course'.phase = "gone"
    BY <2>1 DEF CoursesInv, SchoolRows
  <2>5. Settles
    BY <2>1, <2>4 DEF Settles, School!SettledStays, School!EntersLearning
  <2> QED BY <1>2, <2>1, <2>3, <2>5 DEF CoursesInv, Recorded
<1>5. CASE ~School!PurgeCourse(c)
  <2>1. UNCHANGED <<School!curriculum, student, enrolled, progress>>
    BY <1>5 DEF School!UpdateCourse, School!DeleteCourse, School!RestoreCourse, School!learners
  <2>2. SchoolRows' /\ Recorded' /\ Settles
    BY <1>3, <2>1 DEF CoursesInv, SchoolRows, Recorded, Settles, School!SettledStays, School!EntersLearning, School!curriculum
  <2> QED BY <1>2, <2>2 DEF CoursesInv
<1> QED BY <1>4, <1>5

(* The curriculum changes by who has the course, which takes the progress  *)
(* of a lesson with it.                                                    *)
LEMMA CurriculumStep ==
    ASSUME CoursesInv, NEW c \in Client, School!Editing(c), enrolled' = enrolled,
           lesson' = [l \in Lesson |-> lesson'[l]], \A l \in Lesson : IsLesson(lesson'[l]),
           progress' \subseteq progress, \A p \in progress' : lesson'[p[2]].phase = "live"
    PROVE  CoursesInv' /\ Settles
<1>1. /\ class' = [class EXCEPT ![c] = School!None] /\ UNCHANGED <<course, student>>
      /\ course.phase = "live" /\ course.state # "closed"
  BY DEF School!Editing, School!Done, School!Take, CoursesInv, Lawful
<1>2. \A d \in Client : Lawful(class[d])'
  BY <1>1, NoneIsLawful DEF CoursesInv, Lawful
<1>3. SchoolRows' /\ Recorded' /\ Settles
  BY <1>1 DEF CoursesInv, SchoolRows, Recorded, Settles, School!SettledStays, School!EntersLearning
<1> QED BY <1>1, <1>2, <1>3 DEF CoursesInv

LEMMA EditStep ==
    ASSUME CoursesInv, NEW c \in Client,
           \/ \E m \in Module : \/ School!CreateModule(c, m) \/ School!DeleteModule(c, m) \/ School!ReorderLessons(c, m)
                                \/ \E l \in Lesson : School!CreateLesson(c, m, l)
           \/ School!ReorderModules(c) \/ \E l \in Lesson : School!UpdateLesson(c, l) \/ School!DeleteLesson(c, l)
    PROVE  CoursesInv' /\ Settles
<1>0. /\ lesson = [l \in Lesson |-> lesson[l]] /\ \A l \in Lesson : IsLesson(lesson[l])
      /\ progress \subseteq Student \X Lesson
      /\ \A p \in progress : lesson[p[2]].phase = "live"
  BY DEF CoursesInv, SchoolRows, Recorded
<1>1. ASSUME NEW m \in Module, School!CreateModule(c, m) PROVE CoursesInv' /\ Settles
  BY <1>0, <1>1, CurriculumStep DEF School!CreateModule
<1>2. CASE School!ReorderModules(c)
  BY <1>0, <1>2, CurriculumStep DEF School!ReorderModules
<1>3. ASSUME NEW m \in Module, School!DeleteModule(c, m) PROVE CoursesInv' /\ Settles
  <2>1. /\ School!Editing(c) /\ enrolled' = enrolled /\ progress' = {p \in progress : p[2] \notin School!InIt(m)}
        /\ lesson' = [l \in Lesson |-> IF l \in School!InIt(m) THEN [lesson[l] EXCEPT !.phase = "gone"]
                                       ELSE lesson[l]]
    BY <1>3 DEF School!DeleteModule
  <2>2. \A l \in Lesson : IsLesson(lesson'[l])
    BY <1>0, <2>1 DEF IsLesson
  <2>3. \A p \in progress' : lesson'[p[2]].phase = "live"
    BY <1>0, <2>1
  <2> QED BY <2>1, <2>2, <2>3, CurriculumStep
<1>4. ASSUME NEW m \in Module, School!ReorderLessons(c, m) PROVE CoursesInv' /\ Settles
  <2>1. PICK order : lesson' = [l \in Lesson |-> IF l \in School!InIt(m) THEN [lesson[l] EXCEPT !.pos = order[l]]
                                                 ELSE lesson[l]]
    BY <1>4 DEF School!ReorderLessons
  <2>2. \A l \in Lesson : IsLesson(lesson'[l]) /\ lesson'[l].phase = lesson[l].phase
    BY <1>0, <2>1 DEF IsLesson
  <2>3. School!Editing(c) /\ enrolled' = enrolled /\ progress' = progress
    BY <1>4 DEF School!ReorderLessons
  <2> QED BY <1>0, <2>1, <2>2, <2>3, CurriculumStep
<1>5. ASSUME NEW l \in Lesson, NEW mine, IsLesson(mine), lesson' = [lesson EXCEPT ![l] = mine], School!Editing(c),
             enrolled' = enrolled, progress' \subseteq progress,
             mine.phase # "live" => \A p \in progress' : p[2] # l
      PROVE  CoursesInv' /\ Settles
  BY <1>0, <1>5, CurriculumStep
<1>6. ASSUME NEW m \in Module, NEW l \in Lesson, School!CreateLesson(c, m, l) PROVE CoursesInv' /\ Settles
  <2> DEFINE at == School!Behind({lesson[k].pos : k \in School!InIt(m)})
             mine == [phase |-> "live", in |-> m, text |-> 0, pos |-> at]
  <2>1. lesson' = [lesson EXCEPT ![l] = mine] /\ School!Editing(c) /\ enrolled' = enrolled /\ progress' = progress
    BY <1>6 DEF School!CreateLesson
  <2> HIDE DEF at
  <2>2. IsLesson(mine) /\ mine.phase = "live"
    BY DEF IsLesson
  <2> HIDE DEF mine
  <2> QED BY <1>5, <2>1, <2>2
<1>7. ASSUME NEW l \in Lesson, School!UpdateLesson(c, l) PROVE CoursesInv' /\ Settles
  <2> DEFINE mine == [lesson[l] EXCEPT !.text = 1 - @]
  <2>1. lesson' = [lesson EXCEPT ![l] = mine] /\ School!Editing(c) /\ enrolled' = enrolled /\ progress' = progress
    BY <1>7 DEF School!UpdateLesson
  <2>2. IsLesson(mine) /\ mine.phase = "live"
    BY <1>0, <1>7 DEF IsLesson, School!UpdateLesson
  <2> HIDE DEF mine
  <2> QED BY <1>5, <2>1, <2>2
<1>8. ASSUME NEW l \in Lesson, School!DeleteLesson(c, l) PROVE CoursesInv' /\ Settles
  <2> DEFINE mine == [lesson[l] EXCEPT !.phase = "gone"]
  <2>1. /\ lesson' = [lesson EXCEPT ![l] = mine] /\ School!Editing(c) /\ enrolled' = enrolled
        /\ progress' = {p \in progress : p[2] # l}
    BY <1>8 DEF School!DeleteLesson
  <2>2. IsLesson(mine)
    BY <1>0 DEF IsLesson
  <2> HIDE DEF mine
  <2> QED BY <1>5, <2>1, <2>2
<1> QED BY <1>1, <1>2, <1>3, <1>4, <1>6, <1>7, <1>8

(* A student's row changes, and what it had goes with it.                  *)
LEMMA StudentStep ==
    ASSUME CoursesInv, NEW s \in Student, NEW mine, IsStudent(mine), student' = [student EXCEPT ![s] = mine],
           UNCHANGED <<course, School!curriculum, class>>, enrolled' \subseteq enrolled,
           progress' \subseteq progress, mine.phase = "gone" => \A p \in progress' : p[1] # s
    PROVE  CoursesInv' /\ Settles
<1>1. SchoolRows' /\ Recorded'
  BY DEF CoursesInv, SchoolRows, Recorded, School!curriculum
<1>2. class' = [c \in Client |-> class'[c]] /\ \A c \in Client : Lawful(class[c])'
  BY DEF CoursesInv, Lawful
<1>3. Settles
  BY DEF Settles, School!SettledStays, School!EntersLearning
<1> QED BY <1>1, <1>2, <1>3 DEF CoursesInv

LEMMA LearnerStep ==
    ASSUME CoursesInv, NEW c \in Client, NEW s \in Student,
           \/ School!ReissueInvitation(c, s) \/ School!DeleteStudent(c, s) \/ School!RestoreStudent(c, s) \/ School!PurgeStudent(c, s)
           \/ \E n \in {1, 2} : School!ActivateStudent(c, s, n)
           \/ \E standing \in {"learning", "stopped"} : School!UpdateStudent(c, s, standing)
    PROVE  CoursesInv' /\ Settles
<1>0. IsStudent(student[s])
  BY DEF CoursesInv, SchoolRows
<1>1. CASE School!PurgeStudent(c, s)
  <2> DEFINE mine == [student[s] EXCEPT !.phase = "gone"]
  <2>1. /\ student' = [student EXCEPT ![s] = mine] /\ UNCHANGED <<course, School!curriculum, class>>
        /\ enrolled' \subseteq enrolled /\ progress' = {p \in progress : p[1] # s}
    BY <1>1 DEF School!PurgeStudent
  <2>2. IsStudent(mine)
    BY <1>0 DEF IsStudent
  <2> HIDE DEF mine
  <2> QED BY <2>1, <2>2, StudentStep
<1>2. CASE ~School!PurgeStudent(c, s)
  <2>1. /\ UNCHANGED <<course, School!curriculum, class>> /\ UNCHANGED <<enrolled, progress>>
        /\ student[s].phase # "gone"
    BY <1>2 DEF School!ReissueInvitation, School!DeleteStudent, School!RestoreStudent, School!ActivateStudent, School!UpdateStudent, School!OnStudent
  <2>2. PICK mine \in {[student[s] EXCEPT !.invited = @ + 1],
                      [student[s] EXCEPT !.phase = "trash", !.invited = 0],
                      [student[s] EXCEPT !.phase = "live"],
                      [student[s] EXCEPT !.standing = "learning", !.invited = 0],
                      [student[s] EXCEPT !.standing = "learning"],
                      [student[s] EXCEPT !.standing = "stopped"]} :
               student' = [student EXCEPT ![s] = mine]
    BY <1>2 DEF School!ReissueInvitation, School!DeleteStudent, School!RestoreStudent, School!ActivateStudent, School!UpdateStudent
  <2>3. IsStudent(mine) /\ mine.phase # "gone"
    BY <1>0, <2>1 DEF IsStudent
  <2> QED BY <2>1, <2>2, <2>3, StudentStep
<1> QED BY <1>1, <1>2

LEMMA EnrollStep ==
    ASSUME CoursesInv, NEW c \in Client,
           School!Enroll(c) \/ \E s \in Student : School!Unenroll(c, s)
    PROVE  CoursesInv' /\ Settles
<1>1. /\ UNCHANGED <<course, School!curriculum, student, progress>>
      /\ class' = class \/ class' = [class EXCEPT ![c] = School!None]
  BY DEF School!Enroll, School!Unenroll, School!Done, School!Take
<1>2. Settles
  <2>1. CASE School!Enroll(c)
    <3>1. course.phase = "live" /\ course.state = "open"
      BY <2>1 DEF School!Enroll, CoursesInv, Lawful
    <3> QED BY <1>1, <2>1, <3>1 DEF School!Enroll, Settles, School!SettledStays, School!EntersLearning
  <2>2. CASE \E s \in Student : School!Unenroll(c, s)
    BY <1>1, <2>2 DEF School!Unenroll, Settles, School!SettledStays, School!EntersLearning
  <2> QED BY <2>1, <2>2
<1>3. SchoolRows' /\ Recorded'
  BY <1>1 DEF CoursesInv, SchoolRows, Recorded, School!curriculum
<1>4. class' = [d \in Client |-> class'[d]] /\ \A d \in Client : Lawful(class[d])'
  BY <1>1, NoneIsLawful DEF CoursesInv, Lawful
<1> QED BY <1>2, <1>3, <1>4 DEF CoursesInv

LEMMA CompleteStep == ASSUME CoursesInv, NEW c \in Client, School!CompleteLesson(c) PROVE CoursesInv' /\ Settles
<1>1. /\ UNCHANGED <<course, School!curriculum, student, enrolled>> /\ class' = [class EXCEPT ![c] = School!None]
  BY DEF School!CompleteLesson, School!Done, School!Take
<1>2. class[c].s \in Student /\ class[c].l \in Lesson
  BY DEF School!CompleteLesson, CoursesInv, Lawful
<1>3. Recorded'
  BY <1>1, <1>2 DEF School!CompleteLesson, CoursesInv, Recorded, School!curriculum
<1>4. SchoolRows' /\ Settles
  BY <1>1 DEF CoursesInv, SchoolRows, School!curriculum, Settles, School!SettledStays, School!EntersLearning
<1>5. class' = [d \in Client |-> class'[d]] /\ \A d \in Client : Lawful(class[d])'
  BY <1>1, NoneIsLawful DEF CoursesInv, Lawful
<1> QED BY <1>3, <1>4, <1>5 DEF CoursesInv

LEMMA CoursesInvStep == ASSUME CoursesInv, [School!Next]_(School!vars) PROVE CoursesInv' /\ (Settles \/ UNCHANGED School!vars)
<1>1. ASSUME NEW c \in Client,
             \/ \E state \in {"open", "closed"} : School!UpdateCourse(c, state)
             \/ School!DeleteCourse(c) \/ School!RestoreCourse(c) \/ School!PurgeCourse(c)
      PROVE  CoursesInv' /\ Settles
  BY <1>1, CourseStep
<1>2. ASSUME NEW c \in Client,
             \/ \E m \in Module : \/ School!CreateModule(c, m) \/ School!DeleteModule(c, m) \/ School!ReorderLessons(c, m)
                                  \/ \E l \in Lesson : School!CreateLesson(c, m, l)
             \/ School!ReorderModules(c) \/ \E l \in Lesson : School!UpdateLesson(c, l) \/ School!DeleteLesson(c, l)
      PROVE  CoursesInv' /\ Settles
  BY <1>2, EditStep
<1>3. ASSUME NEW c \in Client, NEW s \in Student,
             \/ School!ReissueInvitation(c, s) \/ School!DeleteStudent(c, s) \/ School!RestoreStudent(c, s) \/ School!PurgeStudent(c, s)
             \/ \E n \in {1, 2} : School!ActivateStudent(c, s, n)
             \/ \E standing \in {"learning", "stopped"} : School!UpdateStudent(c, s, standing)
      PROVE  CoursesInv' /\ Settles
  BY <1>3, LearnerStep
<1>4. ASSUME NEW c \in Client, School!Enroll(c) \/ School!CompleteLesson(c) \/ \E s \in Student : School!Unenroll(c, s)
      PROVE  CoursesInv' /\ Settles
  BY <1>4, EnrollStep, CompleteStep
<1>5. ASSUME NEW c \in Client, School!EnsureCourseEditable(c) PROVE CoursesInv' /\ Settles
  <2> DEFINE r == [pc |-> "editing"]
  <2>1. Lawful(r) /\ class' = [class EXCEPT ![c] = r]
    BY <1>5 DEF School!EnsureCourseEditable, School!Take, Lawful
  <2> HIDE DEF r
  <2> QED BY <1>5, <2>1, RequestStep DEF School!EnsureCourseEditable, School!learners
<1>6. ASSUME NEW c \in Client, NEW i \in Instructor, NEW g \in Grants, School!EnsureCourse(c, i, g)
      PROVE  CoursesInv' /\ Settles
  <2> DEFINE r == [pc |-> "naming", i |-> i, grants |-> g]
  <2>1. Lawful(r) /\ class' = [class EXCEPT ![c] = r]
    BY <1>6 DEF School!EnsureCourse, School!Take, Lawful
  <2> HIDE DEF r
  <2> QED BY <1>6, <2>1, RequestStep DEF School!EnsureCourse, School!learners
<1>7. ASSUME NEW c \in Client, NEW s \in Student, School!LoginStudent(c, s) \/ School!EnsureCourseOpen(c, s)
      PROVE  CoursesInv' /\ Settles
  <2>1. PICK pc \in {"signing", "enrolling"} :
               /\ class' = [class EXCEPT ![c] = [pc |-> pc, s |-> s]]
               /\ pc = "enrolling" => course.phase = "live" /\ course.state = "open"
    BY <1>7 DEF School!LoginStudent, School!EnsureCourseOpen, School!Take
  <2> DEFINE r == [pc |-> pc, s |-> s]
  <2>2. Lawful(r) /\ class' = [class EXCEPT ![c] = r]
    BY <2>1 DEF Lawful
  <2> HIDE DEF r
  <2> QED BY <1>7, <2>2, RequestStep DEF School!LoginStudent, School!EnsureCourseOpen, School!learners
<1>8. ASSUME NEW c \in Client, NEW s \in Student, NEW l \in Lesson, School!GetLearningLesson(c, s, l)
      PROVE  CoursesInv' /\ Settles
  <2> DEFINE r == [pc |-> "learning", s |-> s, l |-> l]
  <2>1. Lawful(r) /\ class' = [class EXCEPT ![c] = r]
    BY <1>8 DEF School!GetLearningLesson, School!Take, Lawful
  <2> HIDE DEF r
  <2> QED BY <1>8, <2>1, RequestStep DEF School!GetLearningLesson, School!learners
<1>9. ASSUME NEW c \in Client,
             \/ School!ReplaceInstructor(c) \/ School!CreateSession(c)
             \/ \E i \in Instructor : School!RemoveInstructor(c, i)
             \/ \E s \in Student : School!LogoutStudent(c, s)
      PROVE  CoursesInv' /\ Settles
  <2>1. UNCHANGED <<course, School!curriculum, student, enrolled, progress>>
    BY <1>9 DEF School!ReplaceInstructor, School!CreateSession, School!RemoveInstructor, School!LogoutStudent, School!OnStudent
  <2>2. class' = class \/ class' = [class EXCEPT ![c] = School!None]
    BY <1>9 DEF School!ReplaceInstructor, School!CreateSession, School!RemoveInstructor, School!LogoutStudent, School!OnStudent, School!Done, School!Take
  <2> QED BY <2>1, <2>2, NoneIsLawful, RequestStep
<1>10. CASE UNCHANGED School!vars
  BY <1>10, RequestStep DEF School!vars, School!curriculum
<1> QED BY <1>1, <1>2, <1>3, <1>4, <1>5, <1>6, <1>7, <1>8, <1>9, <1>10 DEF School!Next

LEMMA WhatIsRecordedIsThere == ASSUME CoursesInv' PROVE School!ProgressIsOfSomething
BY DEF CoursesInv, Recorded, School!ProgressIsOfSomething

LEMMA CoursesMove ==
    ASSUME [SiteNext]_site, Is("courses") PROVE Is("courses")' /\ [School!Next]_(School!vars)
<1>1. part = "courses" /\ part' = part
  BY PartStays DEF Is
<1>2. CASE SiteNext
  <2>1. School!Next \/ UNCHANGED courses
    BY <1>1, <1>2 DEF SiteNext, Is, Others
  <2> QED BY <1>1, <2>1 DEF Is, courses, School!vars, School!curriculum
<1>3. CASE UNCHANGED site
  BY <1>1, <1>3 DEF Is, site, courses, School!vars, School!curriculum
<1> QED BY <1>2, <1>3

(* A closed course changes no more and takes nobody, and no progress is    *)
(* left without its lesson and student, however edits, removals and        *)
(* completions overlap.                                                    *)
THEOREM CoursesAreSettled == SiteSpec => CoursesSettle
<1> DEFINE I == Is("courses") => CoursesInv
<1>0. School!CoursesAssumption
  BY SiteAssumption
<1>1. SiteInit => I
  BY <1>0, CoursesInvInit DEF SiteInit, Is
<1>2. I /\ [SiteNext]_site => I' /\ [Is("courses") => School!SettledStays /\ School!EntersLearning /\ School!ProgressIsOfSomething]_courses
  <2> SUFFICES ASSUME I, [SiteNext]_site
               PROVE  I' /\ [Is("courses") => School!SettledStays /\ School!EntersLearning /\ School!ProgressIsOfSomething]_courses
    OBVIOUS
  <2>1. CASE Is("courses")
    <3>1. Is("courses")' /\ [School!Next]_(School!vars)
      BY <2>1, CoursesMove
    <3>2. CoursesInv' /\ (Settles \/ UNCHANGED School!vars)
      BY <1>0, <2>1, <3>1, CoursesInvStep
    <3>3. UNCHANGED School!vars => UNCHANGED courses
      BY DEF School!vars, courses
    <3>4. Settles => School!SettledStays /\ School!EntersLearning /\ School!ProgressIsOfSomething
      BY <3>2, WhatIsRecordedIsThere DEF Settles
    <3> QED BY <3>2, <3>3, <3>4
  <2>2. CASE ~Is("courses")
    BY <2>2, PartStays DEF Is
  <2> QED BY <2>1, <2>2
<1> HIDE DEF I
<1> QED BY <1>1, <1>2, PTL DEF SiteSpec, CoursesSettle

-----------------------------------------------------------------------------
(* What the rows look like; the text of a letter is left open.             *)
IsReader(r) ==
    /\ r \in [phase : {r.phase}, standing : {r.standing}, member : {r.member}]
    /\ r.phase \in {"none", "live", "gone"}

IsLetter(l) ==
    l \in [status : {l.status}, text : {l.text}, used : {l.used}, excused : {l.excused}]

IsForm(f) ==
    /\ f \in [kind : {f.kind}, id : {f.id}, known : {f.known}, again : {f.again}, key : {f.key},
               left : {f.left}, texts : {f.texts}]
    /\ f.kind = "add" => f.id \in Reader

ReaderRows ==
    /\ reader = [r \in Reader |-> reader[r]] /\ \A r \in Reader : IsReader(reader[r])
    /\ letter = [m \in Campaign \X Reader |-> letter[m]]
    /\ \A m \in Campaign \X Reader : IsLetter(letter[m])
    /\ call = [c \in Client |-> call[c]] /\ \A c \in Client : IsForm(call[c])

(* An address is one live reader's, and who never was one is not withheld. *)
OneReaderOfAnAddress ==
    /\ \A r, s \in Reader : Post!Live(r) /\ Post!Live(s) /\ Email[r] = Email[s] => r = s
    /\ \A r \in Reader : reader[r].phase = "none" => reader[r].standing \notin Post!Suppressed

(* A letter that is being sent may yet be tried again, so it counts too.   *)
NoneIsOnItsWay ==
    \A m \in Campaign \X Reader : \A r \in Reader :
        /\ Post!Live(r) /\ Email[r] = Email[m[2]] /\ reader[r].standing \in Post!Suppressed
        /\ letter[m].status \in {"queued", "retry", "sending"}
        => letter[m].excused

SuppressionInv == ReaderRows /\ OneReaderOfAnAddress /\ NoneIsOnItsWay

LEMMA SuppressionInvInit == ASSUME Post!ReadersAssumption, Post!Init PROVE SuppressionInv
<1> USE DEF Post!Init
<1>1. ReaderRows
  BY DEF ReaderRows, IsReader, IsLetter, IsForm, Post!NoReader, Post!NoLetter, Post!NoForm
<1>2. OneReaderOfAnAddress
  BY DEF OneReaderOfAnAddress, Post!ReadersAssumption, Post!Live, Post!NoReader, Post!Suppressed
<1>3. NoneIsOnItsWay
  BY DEF NoneIsOnItsWay, Post!NoLetter
<1> QED BY <1>1, <1>2, <1>3 DEF SuppressionInv

LEMMA LettersAreWithheld == ASSUME SuppressionInv' PROVE Post!Withheld'
BY DEF SuppressionInv, ReaderRows, NoneIsOnItsWay, Post!Withheld

LEMMA NoFormIsForm ==
    /\ IsForm(Post!NoForm) /\ Post!NoForm.kind = "none"
    /\ \A k, z : IsForm([Post!NoForm EXCEPT !.kind = "campaign", !.key = k, !.left = z])
    /\ \A r \in Reader : \A x, y : IsForm([Post!NoForm EXCEPT !.kind = "add", !.id = r, !.known = x, !.again = y])
<1>1. /\ Post!NoForm \in [kind : {"none"}, id : {Post!NoForm.id}, known : {FALSE}, again : {FALSE},
                     key : {Post!NoForm.key}, left : {{}}, texts : {<<>>}]
      /\ Post!NoForm.kind = "none"
  BY DEF Post!NoForm
<1>2. ASSUME NEW k, NEW z PROVE IsForm([Post!NoForm EXCEPT !.kind = "campaign", !.key = k, !.left = z])
  BY <1>1 DEF IsForm
<1>3. ASSUME NEW r \in Reader, NEW x, NEW y
      PROVE  IsForm([Post!NoForm EXCEPT !.kind = "add", !.id = r, !.known = x, !.again = y])
  BY <1>1 DEF IsForm
<1> QED BY <1>1, <1>2, <1>3 DEF IsForm

(* Only requests move: the rows stay.                                      *)
LEMMA FormStep ==
    ASSUME SuppressionInv, NEW c \in Client, NEW f, IsForm(f), Post!Fill(c, f), UNCHANGED <<reader, letter>>
    PROVE  SuppressionInv' /\ Post!Sticks
<1>1. ReaderRows'
  BY DEF SuppressionInv, ReaderRows, Post!Fill
<1>2. OneReaderOfAnAddress' /\ NoneIsOnItsWay'
  BY DEF SuppressionInv, OneReaderOfAnAddress, NoneIsOnItsWay, Post!Live
<1>3. Post!Sticks
  BY DEF Post!Sticks
<1> QED BY <1>1, <1>2, <1>3 DEF SuppressionInv

(* One reader's row is written, and no letter but for its link.            *)
LEMMA ReaderStep ==
    ASSUME SuppressionInv, NEW r \in Reader, NEW mine, IsReader(mine),
           reader' = [reader EXCEPT ![r] = mine],
           mine.phase = "live" => \A s \in Reader \ {r} : Post!Live(s) => Email[s] # Email[r],
           mine.phase = "none" => mine.standing \notin Post!Suppressed,
           mine.phase = "live" /\ mine.standing \in Post!Suppressed => Post!Live(r) /\ reader[r].standing = mine.standing,
           letter' = [m \in Campaign \X Reader |-> letter'[m]],
           \A m \in Campaign \X Reader :
               /\ IsLetter(letter'[m])
               /\ letter'[m].status = letter[m].status /\ letter'[m].excused = letter[m].excused,
           ReaderRows => (call' = [c \in Client |-> call'[c]] /\ \A c \in Client : IsForm(call'[c]))
    PROVE  SuppressionInv'
<1> USE DEF SuppressionInv
<1>1. reader' = [s \in Reader |-> IF s = r THEN mine ELSE reader[s]]
  BY DEF ReaderRows
<1>2. ReaderRows'
  BY <1>1 DEF ReaderRows
<1>3. OneReaderOfAnAddress'
  BY <1>1 DEF OneReaderOfAnAddress, Post!Live, Post!Suppressed
<1>4. NoneIsOnItsWay'
  BY <1>1 DEF NoneIsOnItsWay, Post!Live, Post!Suppressed
<1> QED BY <1>2, <1>3, <1>4

(* One letter's row is written, and no reader.                             *)
LEMMA LetterStep ==
    ASSUME SuppressionInv, NEW m \in Campaign \X Reader, NEW mine, IsLetter(mine),
           letter' = [letter EXCEPT ![m] = mine],
           mine.status \in {"queued", "retry", "sending"} =>
               mine.excused \/ (/\ letter[m].status \in {"queued", "retry", "sending"}
                               /\ mine.excused = letter[m].excused),
           UNCHANGED <<reader, call>>
    PROVE  SuppressionInv' /\ Post!Sticks
<1> USE DEF SuppressionInv
<1>1. letter' = [n \in Campaign \X Reader |-> IF n = m THEN mine ELSE letter[n]]
  BY DEF ReaderRows
<1>2. ReaderRows'
  BY <1>1 DEF ReaderRows
<1>3. OneReaderOfAnAddress'
  BY DEF OneReaderOfAnAddress, Post!Live
<1>4. NoneIsOnItsWay'
  BY <1>1 DEF NoneIsOnItsWay, Post!Live
<1>5. Post!Sticks
  BY DEF Post!Sticks
<1> QED BY <1>2, <1>3, <1>4, <1>5

LEMMA AddStep ==
    ASSUME SuppressionInv, NEW c \in Client, Post!Add(c) PROVE SuppressionInv' /\ Post!Sticks
<1> DEFINE r == call[c].id
           mine == [phase |-> "live", standing |-> Post!Standing(c), member |-> TRUE]
<1>1. r \in Reader /\ IsForm(Post!NoForm) /\ call = [d \in Client |-> call[d]] /\ call[c].kind = "add"
  BY NoFormIsForm DEF Post!Add, SuppressionInv, ReaderRows, IsForm
<1>2. call' = [call EXCEPT ![c] = Post!NoForm] /\ UNCHANGED letter
  BY DEF Post!Add, Post!Fill
<1>3. CASE reader' = reader
  BY <1>1, <1>2, <1>3, FormStep DEF Post!Fill
<1>4. CASE /\ reader' = [reader EXCEPT ![r] = mine]
           /\ IF call[c].known THEN Post!Live(r)
              ELSE reader[r].phase = "none" /\ \A s \in Reader : Email[s] = Email[r] => ~Post!Live(s)
  <2>1. mine.standing \in {"subscribed", reader[r].standing} /\ mine.phase = "live" /\ IsReader(mine)
    BY DEF Post!Standing, IsReader
  <2> HIDE DEF mine
  <2>2. \A s \in Reader \ {r} : Post!Live(s) => Email[s] # Email[r]
    BY <1>1, <1>4 DEF SuppressionInv, OneReaderOfAnAddress
  <2>3. mine.standing \in Post!Suppressed => Post!Live(r) /\ reader[r].standing = mine.standing
    BY <1>1, <1>4, <2>1 DEF SuppressionInv, OneReaderOfAnAddress, Post!Suppressed
  <2>4. call' = [d \in Client |-> call'[d]] /\ \A d \in Client : ReaderRows => IsForm(call'[d])
    BY <1>1, <1>2 DEF ReaderRows
  <2>5. letter' = [m \in Campaign \X Reader |-> letter'[m]] /\ \A m \in Campaign \X Reader : IsLetter(letter'[m])
    BY <1>2 DEF SuppressionInv, ReaderRows
  <2>6. SuppressionInv'
    BY <1>1, <1>2, <1>4, <2>1, <2>2, <2>3, <2>4, <2>5, ReaderStep
  <2>7. Post!Overlapping(r)
    BY <1>1, <1>2, NoFormIsForm DEF Post!Overlapping
  <2>8. \A s \in Reader \ {r} : reader'[s] = reader[s]
    BY <1>4 DEF SuppressionInv, ReaderRows
  <2> QED BY <2>6, <2>7, <2>8 DEF Post!Sticks
<1> QED BY <1>3, <1>4 DEF Post!Add

LEMMA ReaderLeaves ==
    ASSUME SuppressionInv, NEW r \in Reader, Post!DeleteReader(r) \/ Post!UnsubscribeReader(r)
    PROVE  SuppressionInv' /\ Post!Sticks
<1> DEFINE gone == [reader[r] EXCEPT !.phase = "gone"]
           off  == [reader[r] EXCEPT !.standing = "unsubscribed"]
<1>1. IsReader(reader[r]) /\ reader[r].phase = "live" /\ reader = [s \in Reader |-> reader[s]]
  BY DEF SuppressionInv, ReaderRows, Post!DeleteReader, Post!UnsubscribeReader, Post!Live
<1>2. UNCHANGED <<letter, call>> /\ Post!Live(r)
  BY DEF Post!DeleteReader, Post!UnsubscribeReader
<1>3. PICK mine \in {gone, off} : reader' = [reader EXCEPT ![r] = mine]
  BY <1>1 DEF Post!DeleteReader, Post!UnsubscribeReader
<1>4. /\ IsReader(mine) /\ mine.phase # "none"
      /\ mine.phase = "live" => mine.standing = "unsubscribed"
  BY <1>1 DEF IsReader
<1>5. \A s \in Reader \ {r} : Post!Live(s) => Email[s] # Email[r]
  BY <1>2 DEF SuppressionInv, OneReaderOfAnAddress
<1>6. SuppressionInv'
  BY <1>2, <1>3, <1>4, <1>5, ReaderStep DEF SuppressionInv, ReaderRows, Post!Suppressed
<1>7. Post!Sticks
  BY <1>1, <1>3, <1>4 DEF Post!Sticks
<1> QED BY <1>6, <1>7

LEMMA LinkStep ==
    ASSUME SuppressionInv, NEW m \in Campaign \X Reader, Post!UnsubscribeLetter(m)
    PROVE  SuppressionInv' /\ Post!Sticks
<1> DEFINE r == m[2]
           mine == [reader[r] EXCEPT !.standing = "unsubscribed"]
           used == [letter[m] EXCEPT !.used = TRUE]
<1>1. /\ letter' = [letter EXCEPT ![m] = used] /\ UNCHANGED call
      /\ IsLetter(used) /\ used.status = letter[m].status /\ used.excused = letter[m].excused
  BY DEF Post!UnsubscribeLetter, SuppressionInv, ReaderRows, IsLetter
<1> HIDE DEF used
<1>2. /\ letter' = [n \in Campaign \X Reader |-> letter'[n]]
      /\ \A n \in Campaign \X Reader :
               /\ IsLetter(letter'[n])
               /\ letter'[n].status = letter[n].status /\ letter'[n].excused = letter[n].excused
  BY <1>1 DEF SuppressionInv, ReaderRows
<1>3. r \in Reader
  OBVIOUS
<1>4. CASE ~Post!Live(r)
  <2>1. UNCHANGED reader
    BY <1>4 DEF Post!UnsubscribeLetter
  <2> QED BY <1>1, <1>2, <2>1
          DEF SuppressionInv, ReaderRows, OneReaderOfAnAddress, NoneIsOnItsWay, Post!Live, Post!Sticks
<1>5. CASE Post!Live(r)
  <2>1. reader' = [reader EXCEPT ![r] = mine]
    BY <1>5 DEF Post!UnsubscribeLetter
  <2>2. IsReader(mine) /\ mine.phase = "live" /\ mine.standing = "unsubscribed"
    BY <1>3, <1>5 DEF SuppressionInv, ReaderRows, IsReader, Post!Live
  <2> HIDE DEF mine, r
  <2>3. \A s \in Reader \ {r} : Post!Live(s) => Email[s] # Email[r]
    BY <1>3, <1>5 DEF SuppressionInv, OneReaderOfAnAddress
  <2>4. SuppressionInv'
    BY <1>1, <1>2, <1>3, <2>1, <2>2, <2>3, ReaderStep DEF SuppressionInv, ReaderRows, Post!Suppressed
  <2>5. Post!Sticks
    BY <1>3, <2>1, <2>2 DEF Post!Sticks, SuppressionInv, ReaderRows
  <2> QED BY <2>4, <2>5
<1> QED BY <1>4, <1>5

LEMMA EventStep ==
    ASSUME SuppressionInv, NEW v \in Incident, NEW r \in Reader,
           NEW kind \in {"delivered", "bounced", "complained"}, Post!ReceiveProviderEvent(v, r, kind)
    PROVE  SuppressionInv' /\ Post!Sticks
<1> DEFINE hit(s) == Email[s] = Email[r] /\ Post!Live(s)
<1>1. CASE kind = "delivered"
  BY <1>1 DEF Post!ReceiveProviderEvent, SuppressionInv, ReaderRows, OneReaderOfAnAddress, NoneIsOnItsWay,
              Post!Live, Post!Sticks
<1>2. CASE kind # "delivered"
  <2>1. /\ reader' = [s \in Reader |-> IF hit(s) THEN [reader[s] EXCEPT !.standing = Post!After(@, kind)]
                                       ELSE reader[s]]
        /\ letter' = Post!Cancelled(Email[r]) /\ UNCHANGED call
    BY <1>2 DEF Post!ReceiveProviderEvent
  <2>2. ASSUME NEW s \in Reader
        PROVE  /\ IsReader(reader'[s]) /\ reader'[s].phase = reader[s].phase
               /\ ~hit(s) => reader'[s] = reader[s]
               /\ hit(s) => reader'[s].standing \in Post!Suppressed
    <3>1. IsReader(reader[s])
      BY DEF SuppressionInv, ReaderRows
    <3>2. CASE hit(s)
      <4>1. reader'[s] = [reader[s] EXCEPT !.standing = Post!After(@, kind)]
        BY <2>1, <3>2
      <4>2. Post!After(reader[s].standing, kind) \in Post!Suppressed
        BY <1>2 DEF Post!After, Post!Suppressed
      <4> QED BY <3>1, <3>2, <4>1, <4>2 DEF IsReader
    <3>3. CASE ~hit(s)
      BY <2>1, <3>1, <3>3
    <3> QED BY <3>2, <3>3
  <2>3. ASSUME NEW m \in Campaign \X Reader
        PROVE  /\ IsLetter(letter'[m])
               /\ Email[m[2]] # Email[r] => letter'[m] = letter[m]
               /\ Email[m[2]] = Email[r] /\ letter'[m].status \in {"queued", "retry", "sending"}
                  => letter'[m].excused
    <3>1. IsLetter(letter[m]) /\ DOMAIN letter = Campaign \X Reader
      BY DEF SuppressionInv, ReaderRows
    <3>2. CASE Email[m[2]] # Email[r]
      BY <2>1, <3>1, <3>2 DEF Post!Cancelled
    <3>3. CASE Email[m[2]] = Email[r] /\ letter[m].status \in {"queued", "retry"}
      BY <2>1, <3>1, <3>3 DEF Post!Cancelled, IsLetter
    <3>4. CASE Email[m[2]] = Email[r] /\ letter[m].status = "sending"
      <4>1. letter'[m] = [letter[m] EXCEPT !.excused = TRUE]
        BY <2>1, <3>1, <3>4 DEF Post!Cancelled
      <4> QED BY <3>1, <3>4, <4>1 DEF IsLetter
    <3>5. CASE Email[m[2]] = Email[r] /\ letter[m].status \notin {"queued", "retry", "sending"}
      <4>1. letter'[m] = letter[m]
        BY <2>1, <3>1, <3>5 DEF Post!Cancelled
      <4> QED BY <3>1, <3>5, <4>1
    <3> QED BY <3>2, <3>3, <3>4, <3>5
  <2>4. ReaderRows'
    BY <2>1, <2>2, <2>3 DEF SuppressionInv, ReaderRows, Post!Cancelled
  <2>5. OneReaderOfAnAddress'
    BY <2>2 DEF SuppressionInv, OneReaderOfAnAddress, Post!Live
  <2>6. NoneIsOnItsWay'
    BY <2>2, <2>3 DEF SuppressionInv, NoneIsOnItsWay, Post!Live
  <2>7. Post!Sticks
    BY <2>2 DEF Post!Sticks
  <2> HIDE DEF hit
  <2> QED BY <2>4, <2>5, <2>6, <2>7 DEF SuppressionInv
<1> QED BY <1>1, <1>2

(* A campaign's letters are for recipients by then, or they are excused.   *)
LEMMA CampaignStep ==
    ASSUME SuppressionInv, NEW c \in Client, Post!CommitCampaign(c) PROVE SuppressionInv' /\ Post!Sticks
<1>1. UNCHANGED reader /\ Post!Fill(c, Post!NoForm) /\ IsForm(Post!NoForm)
  BY NoFormIsForm DEF Post!CommitCampaign
<1>2. letter' = [m \in Campaign \X Reader |-> letter'[m]]
  BY DEF Post!CommitCampaign, SuppressionInv, ReaderRows
<1>3. ASSUME NEW m \in Campaign \X Reader
      PROVE  /\ IsLetter(letter'[m])
             /\ \/ letter'[m] = letter[m]
                \/ letter'[m].excused = (m[2] \notin Post!Recipients)
  <2>1. DOMAIN letter = Campaign \X Reader /\ IsLetter(letter[m])
    BY DEF SuppressionInv, ReaderRows
  <2> DEFINE new == [Post!NoLetter EXCEPT !.status = "queued", !.text = call[c].texts[m[2]],
                                     !.excused = m[2] \notin Post!Recipients]
  <2>2. letter'[m] = letter[m] \/ letter'[m] = new
    BY <2>1 DEF Post!CommitCampaign
  <2>3. IsLetter(new) /\ new.excused = (m[2] \notin Post!Recipients)
    <3>1. new \in [status : {"queued"}, text : {call[c].texts[m[2]]}, used : {FALSE},
                   excused : {m[2] \notin Post!Recipients}]
      BY DEF Post!NoLetter
    <3> HIDE DEF new
    <3> QED BY <3>1 DEF IsLetter
  <2> HIDE DEF new
  <2> QED BY <2>1, <2>2, <2>3
<1>4. ReaderRows'
  BY <1>1, <1>2, <1>3 DEF SuppressionInv, ReaderRows, Post!Fill
<1>5. OneReaderOfAnAddress'
  BY <1>1 DEF SuppressionInv, OneReaderOfAnAddress, Post!Live
<1>6. NoneIsOnItsWay'
  <2> SUFFICES ASSUME NEW m \in Campaign \X Reader, NEW r \in Reader,
                      Post!Live(r), Email[r] = Email[m[2]], reader[r].standing \in Post!Suppressed,
                      letter'[m].status \in {"queued", "retry", "sending"}
               PROVE  letter'[m].excused
    BY <1>1 DEF NoneIsOnItsWay, Post!Live
  <2>1. m[2] \notin Post!Recipients
    BY DEF Post!Recipients, SuppressionInv, OneReaderOfAnAddress, Post!Suppressed
  <2> QED BY <1>3, <2>1 DEF SuppressionInv, NoneIsOnItsWay
<1>7. Post!Sticks
  BY <1>1 DEF Post!Sticks
<1> QED BY <1>4, <1>5, <1>6, <1>7 DEF SuppressionInv

LEMMA DeliveryStep ==
    ASSUME SuppressionInv, NEW m \in Campaign \X Reader,
           Post!Claim(m) \/ Post!MarkSent(m) \/ Post!MarkFailed(m) \/ Post!RetryDelivery(m)
    PROVE  SuppressionInv' /\ Post!Sticks
<1>1. /\ letter = [n \in Campaign \X Reader |-> letter[n]] /\ IsLetter(letter[m])
  BY DEF SuppressionInv, ReaderRows
<1>2. CASE Post!RetryDelivery(m)
  <2> DEFINE mine == [letter[m] EXCEPT !.status = "queued", !.excused = TRUE]
  <2>1. letter' = [letter EXCEPT ![m] = mine] /\ UNCHANGED <<reader, call>>
    BY <1>1, <1>2 DEF Post!RetryDelivery
  <2>2. IsLetter(mine) /\ mine.excused
    BY <1>1 DEF IsLetter
  <2> HIDE DEF mine
  <2> QED BY <2>1, <2>2, LetterStep
<1>3. ASSUME NEW from \in {{"queued", "retry"}, {"sending"}}, NEW to, Post!Move(m, from, to)
      PROVE  SuppressionInv' /\ Post!Sticks
  <2> DEFINE mine == [letter[m] EXCEPT !.status = to]
  <2>1. letter' = [letter EXCEPT ![m] = mine] /\ UNCHANGED <<reader, call>>
    BY <1>1, <1>3 DEF Post!Move
  <2>2. IsLetter(mine) /\ mine.excused = letter[m].excused
    BY <1>1 DEF IsLetter
  <2>3. letter[m].status \in {"queued", "retry", "sending"}
    BY <1>3 DEF Post!Move
  <2> HIDE DEF mine
  <2> QED BY <2>1, <2>2, <2>3, LetterStep
<1> QED BY <1>2, <1>3 DEF Post!Claim, Post!MarkSent, Post!MarkFailed

LEMMA SuppressionInvStep ==
    ASSUME SuppressionInv, [Post!Next]_(Post!vars)
    PROVE  SuppressionInv' /\ (Post!Sticks \/ UNCHANGED Post!vars)
<1>0. \A c \in Client : IsForm(call[c])
  BY DEF SuppressionInv, ReaderRows
<1>1. ASSUME NEW c \in Client, NEW r \in Reader, Post!RenderNext(c, r) PROVE SuppressionInv' /\ Post!Sticks
  <2>1. PICK texts, f : Post!Fill(c, f) /\ f \in {Post!NoForm, [call[c] EXCEPT !.left = @ \ {r}, !.texts = texts]}
    BY <1>1 DEF Post!RenderNext
  <2>2. call[c].kind = "campaign" /\ UNCHANGED <<reader, letter>>
    BY <1>1 DEF Post!RenderNext
  <2>3. IsForm([call[c] EXCEPT !.left = @ \ {r}, !.texts = texts])
    BY <1>0, <2>2 DEF IsForm
  <2>4. IsForm(f)
    BY <2>1, <2>3, NoFormIsForm
  <2> QED BY <2>1, <2>2, <2>4, FormStep
<1>2. ASSUME NEW c \in Client, NEW r \in Reader, NEW again \in BOOLEAN, Post!LookUp(c, r, again)
      PROVE  SuppressionInv' /\ Post!Sticks
  <2> DEFINE f == [Post!NoForm EXCEPT !.kind = "add", !.id = r, !.known = Post!Live(r), !.again = again]
  <2>1. IsForm(f)
    BY NoFormIsForm
  <2>2. Post!Fill(c, f) /\ UNCHANGED <<reader, letter>>
    BY <1>2 DEF Post!LookUp
  <2> QED BY <2>1, <2>2, FormStep
<1>3. ASSUME NEW c \in Client, NEW k \in Campaign, Post!SendCampaign(c, k) PROVE SuppressionInv' /\ Post!Sticks
  <2> DEFINE f == [Post!NoForm EXCEPT !.kind = "campaign", !.key = k, !.left = Post!Recipients]
  <2>1. IsForm(f)
    BY NoFormIsForm
  <2>2. Post!Fill(c, f) /\ UNCHANGED <<reader, letter>>
    BY <1>3 DEF Post!SendCampaign
  <2> QED BY <2>1, <2>2, FormStep
<1>4. ASSUME NEW c \in Client, Post!Add(c) \/ Post!CommitCampaign(c) PROVE SuppressionInv' /\ Post!Sticks
  BY <1>4, AddStep, CampaignStep
<1>5. ASSUME NEW r \in Reader, Post!DeleteReader(r) \/ Post!UnsubscribeReader(r) PROVE SuppressionInv' /\ Post!Sticks
  BY <1>5, ReaderLeaves
<1>6. ASSUME NEW r \in Reader, NEW v \in Incident, NEW kind \in {"delivered", "bounced", "complained"},
             Post!ReceiveProviderEvent(v, r, kind)
      PROVE  SuppressionInv' /\ Post!Sticks
  BY <1>6, EventStep
<1>7. ASSUME NEW m \in DOMAIN letter,
             \/ Post!UnsubscribeLetter(m) \/ Post!Claim(m) \/ Post!MarkSent(m) \/ Post!MarkFailed(m) \/ Post!RetryDelivery(m)
      PROVE  SuppressionInv' /\ Post!Sticks
  <2>1. m \in Campaign \X Reader
    BY DEF SuppressionInv, ReaderRows
  <2> QED BY <1>7, <2>1, LinkStep, DeliveryStep
<1>8. CASE Post!UpdateTemplate \/ Post!DeleteTemplate \/ Post!DeleteList \/ UNCHANGED Post!vars
  <2>1. UNCHANGED <<reader, letter, call>>
    BY <1>8 DEF Post!UpdateTemplate, Post!DeleteTemplate, Post!DeleteList, Post!vars
  <2> QED BY <2>1 DEF SuppressionInv, ReaderRows, OneReaderOfAnAddress, NoneIsOnItsWay, Post!Live, Post!Sticks
<1> QED BY <1>1, <1>2, <1>3, <1>4, <1>5, <1>6, <1>7, <1>8 DEF Post!Next

LEMMA ReadersMove ==
    ASSUME [SiteNext]_site, Is("readers") PROVE Is("readers")' /\ [Post!Next]_(Post!vars)
<1>1. part = "readers" /\ part' = part
  BY PartStays DEF Is
<1>2. CASE SiteNext
  <2>1. Post!Next \/ UNCHANGED readers
    BY <1>1, <1>2 DEF SiteNext, Is, Others
  <2> QED BY <1>1, <2>1 DEF Is, readers, Post!vars
<1>3. CASE UNCHANGED site
  BY <1>1, <1>3 DEF Is, site, readers, Post!vars
<1> QED BY <1>2, <1>3

(* Who bounced or complained gets no campaign and is not subscribed again, *)
(* however requests, sends and the provider's events overlap.              *)
THEOREM SuppressionIsKept == SiteSpec => SuppressionHolds
<1> DEFINE I == Is("readers") => SuppressionInv
<1>0. Post!ReadersAssumption
  BY SiteAssumption
<1>1. SiteInit => I
  BY <1>0, SuppressionInvInit DEF SiteInit, Is
<1>2. I /\ [SiteNext]_site => I' /\ [Is("readers") => Post!Withheld' /\ Post!Sticks]_readers
  <2> SUFFICES ASSUME I, [SiteNext]_site
               PROVE  I' /\ [Is("readers") => Post!Withheld' /\ Post!Sticks]_readers
    OBVIOUS
  <2>1. CASE Is("readers")
    <3>1. Is("readers")' /\ [Post!Next]_(Post!vars)
      BY <2>1, ReadersMove
    <3>2. SuppressionInv' /\ (Post!Sticks \/ UNCHANGED Post!vars)
      BY <1>0, <2>1, <3>1, SuppressionInvStep
    <3>3. UNCHANGED Post!vars => UNCHANGED readers
      BY DEF Post!vars, readers
    <3>4. Post!Sticks => Post!Withheld' /\ Post!Sticks
      BY <3>2, LettersAreWithheld
    <3> QED BY <3>2, <3>3, <3>4
  <2>2. CASE ~Is("readers")
    BY <2>2, PartStays DEF Is
  <2> QED BY <2>1, <2>2
<1> HIDE DEF I
<1> QED BY <1>1, <1>2, PTL DEF SiteSpec, SuppressionHolds

-----------------------------------------------------------------------------
IsSheet(f) == f \in [phase : {"live", "trash", "gone"}, open : {f.open}, fields : {f.fields}, kept : Days]
IsInboxRow(r) ==
    /\ r \in [phase : {"none", "live", "deleted", "purged"}, answers : {r.answers}, born : Int, seen : {r.seen}]
    /\ r.phase # "live" => r.answers = <<>>

(* Who is under way has a row of its own that nobody has inserted, so what *)
(* was redacted or purged is never inserted again.                         *)
AnswersInv ==
    /\ IsSheet(form)
    /\ inbox = [s \in Submission |-> inbox[s]] /\ \A s \in Submission : IsInboxRow(inbox[s])
    /\ visit = [v \in Visitor |-> visit[v]]
    /\ \A v \in Visitor : visit[v].pc # "away" =>
          /\ visit[v].s \in Submission /\ visit[v].born \in Int
          /\ inbox[visit[v].s].phase = "none"
          /\ \A w \in Visitor \ {v} : visit[w].pc # "away" => visit[w].s # visit[v].s
    /\ today \in Int
    /\ pass = [d \in 0 .. FormDays |-> pass[d]]
    /\ form.phase = "gone" => \A s \in Submission : ~Inbox!Answered(s)

KeptInTime == Inbox!AnswersStayAway /\ Inbox!NothingOutlives /\ Inbox!PassLeavesNothingOld

NoPassEnds == \A d \in 0 .. FormDays : pass[d].state = "running" => pass'[d].state # "completed"

LEMMA AnswersInvInit == ASSUME Inbox!FormsAssumption, Inbox!Init PROVE AnswersInv
<1>1. IsSheet(form)
  BY DEF Inbox!Init, IsSheet
<1>2. inbox = [s \in Submission |-> Inbox!NoAnswers] /\ IsInboxRow(Inbox!NoAnswers)
  BY DEF Inbox!Init, IsInboxRow, Inbox!NoAnswers
<1>3. visit = [v \in Visitor |-> visit[v]] /\ \A v \in Visitor : visit[v].pc = "away"
  BY DEF Inbox!Init, Inbox!Away
<1>4. today \in Int /\ pass = [d \in 0 .. FormDays |-> pass[d]] /\ form.phase = "live"
  BY DEF Inbox!Init
<1> QED BY <1>1, <1>2, <1>3, <1>4 DEF AnswersInv

(* Rows go away, or nothing happens to them.                               *)
LEMMA RowsStep ==
    ASSUME AnswersInv, IsSheet(form'), form.phase = "gone" => form'.phase = "gone",
           form'.phase = "gone" /\ form.phase # "gone" => \A s \in Submission : inbox'[s].answers = <<>>,
           inbox' = [s \in Submission |-> inbox'[s]],
           \A s \in Submission : /\ IsInboxRow(inbox'[s])
                                 /\ inbox'[s].phase = "none" <=> inbox[s].phase = "none"
                                 /\ \/ inbox'[s].answers = inbox[s].answers \/ inbox'[s].answers = <<>>,
           UNCHANGED visit, today' \in Int, pass' = [d \in 0 .. FormDays |-> pass'[d]]
    PROVE  AnswersInv' /\ Inbox!AnswersStayAway /\ Inbox!NothingOutlives
<1>1. \A s \in Submission : inbox[s].answers = <<>> => inbox'[s].answers = <<>>
  OBVIOUS
<1>2. AnswersInv'
  BY <1>1 DEF AnswersInv, Inbox!Answered
<1>3. Inbox!AnswersStayAway
  BY <1>1 DEF AnswersInv, Inbox!AnswersStayAway, Inbox!Answered, IsInboxRow
<1>4. Inbox!NothingOutlives
  BY <1>1 DEF AnswersInv, Inbox!NothingOutlives, Inbox!Answered
<1> QED BY <1>2, <1>3, <1>4

LEMMA InsertStep ==
    ASSUME AnswersInv, NEW v \in Visitor, Inbox!InsertSubmission(v) PROVE AnswersInv' /\ KeptInTime
<1> DEFINE r == visit[v]
           new == [phase |-> "live", answers |-> r.answers, born |-> r.born, seen |-> FALSE]
<1>1. /\ r.pc = "checked" /\ visit' = [visit EXCEPT ![v] = Inbox!Away]
      /\ inbox' = IF form.phase = "gone" THEN inbox ELSE [inbox EXCEPT ![r.s] = new]
      /\ UNCHANGED <<form, today, pass>>
  BY DEF Inbox!InsertSubmission
<1>2. r.s \in Submission /\ r.born \in Int /\ inbox[r.s].phase = "none"
  BY <1>1 DEF AnswersInv
<1>3. IsInboxRow(new)
  BY <1>2 DEF IsInboxRow
<1> DEFINE s == r.s
<1> HIDE DEF new
<1>4. /\ inbox' = [t \in Submission |-> inbox'[t]]
      /\ \A t \in Submission \ {s} : inbox'[t] = inbox[t]
      /\ inbox'[s] = IF form.phase = "gone" THEN inbox[s] ELSE new
  BY <1>1, <1>2 DEF AnswersInv
<1>5. visit' = [w \in Visitor |-> visit'[w]] /\ visit'[v].pc = "away" /\ \A w \in Visitor \ {v} : visit'[w] = visit[w]
  BY <1>1 DEF AnswersInv, Inbox!Away
<1>6. \A w \in Visitor \ {v} : visit[w].pc # "away" => visit[w].s # s
  BY <1>1 DEF AnswersInv
<1>7. \A w \in Visitor : visit'[w].pc # "away" =>
          /\ visit'[w].s \in Submission /\ visit'[w].born \in Int
          /\ inbox'[visit'[w].s].phase = "none"
          /\ \A u \in Visitor \ {w} : visit'[u].pc # "away" => visit'[u].s # visit'[w].s
  BY <1>4, <1>5, <1>6 DEF AnswersInv
<1>8. \A t \in Submission : IsInboxRow(inbox'[t])
  BY <1>3, <1>4 DEF AnswersInv
<1>9. form.phase = "gone" => inbox' = inbox
  BY <1>1
<1>10. AnswersInv'
  BY <1>1, <1>4, <1>5, <1>7, <1>8, <1>9 DEF AnswersInv, Inbox!Answered
<1>11. Inbox!AnswersStayAway
  BY <1>2, <1>4 DEF AnswersInv, Inbox!AnswersStayAway, Inbox!Answered, IsInboxRow
<1>12. Inbox!NothingOutlives
  BY <1>9 DEF AnswersInv, Inbox!NothingOutlives, Inbox!Answered
<1>13. Inbox!PassLeavesNothingOld
  BY <1>1 DEF Inbox!PassLeavesNothingOld
<1> QED BY <1>10, <1>11, <1>12, <1>13 DEF KeptInTime

LEMMA SubmitStep ==
    ASSUME AnswersInv, NEW v \in Visitor, NEW s \in Submission, NEW a \in Answers, Inbox!Submit(v, s, a)
    PROVE  AnswersInv' /\ KeptInTime
<1> DEFINE r == [pc |-> "checked", s |-> s, answers |-> a, born |-> today]
<1>1. /\ visit' = [visit EXCEPT ![v] = r] /\ UNCHANGED <<form, inbox, today, pass>>
      /\ inbox[s].phase = "none" /\ \A w \in Visitor : visit[w].pc # "away" => visit[w].s # s
  BY DEF Inbox!Submit
<1>2. r.s = s /\ r.born = today
  OBVIOUS
<1> HIDE DEF r
<1>3. AnswersInv'
  BY <1>1, <1>2 DEF AnswersInv, Inbox!Answered
<1>4. KeptInTime
  BY <1>1 DEF AnswersInv, KeptInTime, Inbox!AnswersStayAway, Inbox!NothingOutlives, Inbox!PassLeavesNothingOld, Inbox!Answered, IsInboxRow
<1> QED BY <1>3, <1>4

(* A pass by today's clock takes every row that is older than the form     *)
(* keeps.                                                                  *)
LEMMA PruneStep ==
    ASSUME Inbox!FormsAssumption, AnswersInv, NEW d \in 0 .. FormDays, Inbox!PruneExpiredSubmissions(d)
    PROVE  AnswersInv' /\ KeptInTime
<1>1. /\ inbox' = [s \in Submission |-> IF Inbox!Expired(s, pass[d].clock) THEN Inbox!Redacted(inbox[s]) ELSE inbox[s]]
      /\ pass' = [pass EXCEPT ![d] = [state |-> "completed", clock |-> 0]]
      /\ pass[d].state = "running" /\ UNCHANGED <<form, visit, today>>
  BY DEF Inbox!PruneExpiredSubmissions
<1>2. ASSUME NEW s \in Submission
      PROVE  /\ IsInboxRow(Inbox!Redacted(inbox[s])) /\ Inbox!Redacted(inbox[s]).phase = "deleted"
             /\ Inbox!Redacted(inbox[s]).answers = <<>>
  BY DEF AnswersInv, IsInboxRow, Inbox!Redacted
<1>3. ASSUME NEW s \in Submission
      PROVE  /\ IsInboxRow(inbox'[s])
             /\ inbox'[s].phase = "none" <=> inbox[s].phase = "none"
             /\ inbox'[s].answers = inbox[s].answers \/ inbox'[s].answers = <<>>
             /\ inbox'[s].answers # <<>> => ~Inbox!Expired(s, pass[d].clock) /\ inbox'[s] = inbox[s]
  BY <1>1, <1>2 DEF AnswersInv, Inbox!Expired
<1>4. pass' = [e \in 0 .. FormDays |-> pass'[e]] /\ \A e \in 0 .. FormDays : e # d => pass'[e] = pass[e]
  BY <1>1 DEF AnswersInv
<1>5. AnswersInv' /\ Inbox!AnswersStayAway /\ Inbox!NothingOutlives
  BY <1>1, <1>3, <1>4, RowsStep DEF AnswersInv
<1>6. Inbox!PassLeavesNothingOld
  <2> SUFFICES ASSUME pass[d].clock = today, NEW s \in Submission, inbox'[s].answers # <<>>
               PROVE  today - inbox'[s].born <= form.kept
    BY <1>4 DEF Inbox!PassLeavesNothingOld, Inbox!Answered
  <2>1. inbox'[s] = inbox[s] /\ inbox[s].phase = "live" /\ ~(inbox[s].born < today - form.kept)
    BY <1>3 DEF AnswersInv, IsInboxRow, Inbox!Expired
  <2>2. inbox[s].born \in Int /\ form.kept \in Int /\ today \in Int
    BY DEF AnswersInv, IsInboxRow, IsSheet, Inbox!FormsAssumption
  <2> QED BY <2>1, <2>2
<1> QED BY <1>5, <1>6 DEF KeptInTime

LEMMA SheetStep ==
    ASSUME AnswersInv,
           \/ \E fields \in Asked, open \in BOOLEAN, kept \in Days : Inbox!UpdateForm(fields, open, kept)
           \/ Inbox!DeleteForm \/ Inbox!RestoreForm \/ Inbox!PurgeForm
    PROVE  AnswersInv' /\ KeptInTime
<1>0. IsSheet(form) /\ today \in Int /\ pass = [d \in 0 .. FormDays |-> pass[d]]
  BY DEF AnswersInv
<1>1. UNCHANGED <<visit, today, pass>>
  BY DEF Inbox!UpdateForm, Inbox!DeleteForm, Inbox!RestoreForm, Inbox!PurgeForm
<1>2. IsSheet(form') /\ form.phase # "gone" /\ (~Inbox!PurgeForm => form'.phase # "gone")
  <2>1. ASSUME NEW fields, NEW open, NEW kept \in Days, Inbox!UpdateForm(fields, open, kept)
        PROVE  IsSheet(form') /\ form.phase # "gone" /\ form'.phase # "gone"
    BY <1>0, <2>1 DEF Inbox!UpdateForm, IsSheet
  <2>2. CASE Inbox!DeleteForm \/ Inbox!RestoreForm
    BY <1>0, <2>2 DEF Inbox!DeleteForm, Inbox!RestoreForm, IsSheet
  <2>3. CASE Inbox!PurgeForm
    BY <1>0, <2>3 DEF Inbox!PurgeForm, IsSheet
  <2> QED BY <2>1, <2>2, <2>3
<1>3. ASSUME NEW s \in Submission
      PROVE  /\ IsInboxRow(inbox'[s])
             /\ inbox'[s].phase = "none" <=> inbox[s].phase = "none"
             /\ inbox'[s].answers = inbox[s].answers \/ inbox'[s].answers = <<>>
             /\ Inbox!PurgeForm => inbox'[s].answers = <<>>
  <2>1. CASE Inbox!PurgeForm
    <3> DEFINE n == [Inbox!NoAnswers EXCEPT !.phase = "purged"]
    <3>1. n \in [phase : {"purged"}, answers : {<<>>}, born : {0}, seen : {FALSE}]
      BY DEF Inbox!NoAnswers
    <3>2. inbox'[s] = IF inbox[s].phase = "none" THEN inbox[s] ELSE n
      BY <2>1 DEF Inbox!PurgeForm
    <3> HIDE DEF n
    <3>3. IsInboxRow(n) /\ n.phase = "purged" /\ n.answers = <<>>
      BY <3>1 DEF IsInboxRow
    <3> QED BY <3>2, <3>3 DEF AnswersInv, IsInboxRow
  <2>2. CASE ~Inbox!PurgeForm
    BY <2>2 DEF Inbox!UpdateForm, Inbox!DeleteForm, Inbox!RestoreForm, AnswersInv
  <2> QED BY <2>1, <2>2
<1>4. inbox' = [s \in Submission |-> inbox'[s]]
  BY DEF Inbox!UpdateForm, Inbox!DeleteForm, Inbox!RestoreForm, Inbox!PurgeForm, AnswersInv
<1>5. AnswersInv' /\ Inbox!AnswersStayAway /\ Inbox!NothingOutlives
  BY <1>0, <1>1, <1>2, <1>3, <1>4, RowsStep
<1>6. Inbox!PassLeavesNothingOld
  BY <1>1 DEF Inbox!PassLeavesNothingOld
<1> QED BY <1>5, <1>6 DEF KeptInTime

LEMMA DeskStep ==
    ASSUME AnswersInv, Inbox!MarkRead \/ \E s \in Submission : Inbox!DeleteSubmission(s) PROVE AnswersInv' /\ KeptInTime
<1>1. UNCHANGED <<form, visit, today, pass>>
  BY DEF Inbox!MarkRead, Inbox!DeleteSubmission
<1>2. ASSUME NEW s \in Submission
      PROVE  /\ IsInboxRow(inbox'[s])
             /\ inbox'[s].phase = "none" <=> inbox[s].phase = "none"
             /\ inbox'[s].answers = inbox[s].answers \/ inbox'[s].answers = <<>>
  <2>0. IsInboxRow(inbox[s])
    BY DEF AnswersInv
  <2>1. CASE Inbox!MarkRead
    <3>1. inbox'[s] = inbox[s] \/ inbox'[s] = [inbox[s] EXCEPT !.seen = TRUE]
      BY <2>1 DEF Inbox!MarkRead
    <3>2. LET n == [inbox[s] EXCEPT !.seen = TRUE]
          IN  IsInboxRow(n) /\ n.phase = inbox[s].phase /\ n.answers = inbox[s].answers
      BY <2>0 DEF IsInboxRow
    <3> QED BY <2>0, <3>1, <3>2
  <2>2. ASSUME NEW t \in Submission, Inbox!DeleteSubmission(t)
        PROVE  \/ inbox'[s] = inbox[s]
               \/ inbox'[s] = Inbox!Redacted(inbox[s]) /\ inbox[s].phase = "live"
    <3>1. inbox' = [inbox EXCEPT ![t] = Inbox!Redacted(inbox[t])] /\ inbox[t].phase = "live"
      BY <2>2 DEF Inbox!DeleteSubmission
    <3> QED BY <3>1 DEF AnswersInv
  <2>3. /\ IsInboxRow(Inbox!Redacted(inbox[s])) /\ Inbox!Redacted(inbox[s]).phase = "deleted"
        /\ Inbox!Redacted(inbox[s]).answers = <<>>
    BY <2>0 DEF IsInboxRow, Inbox!Redacted
  <2> QED BY <2>0, <2>1, <2>2, <2>3
<1>3. inbox' = [s \in Submission |-> inbox'[s]]
  BY DEF Inbox!MarkRead, Inbox!DeleteSubmission, AnswersInv
<1>4. AnswersInv' /\ Inbox!AnswersStayAway /\ Inbox!NothingOutlives
  BY <1>1, <1>2, <1>3, RowsStep DEF AnswersInv
<1>5. Inbox!PassLeavesNothingOld
  BY <1>1 DEF Inbox!PassLeavesNothingOld
<1> QED BY <1>4, <1>5 DEF KeptInTime

LEMMA AnswersInvStep ==
    ASSUME Inbox!FormsAssumption, AnswersInv, [Inbox!Next]_(Inbox!vars) PROVE AnswersInv' /\ (KeptInTime \/ UNCHANGED Inbox!vars)
<1>1. ASSUME UNCHANGED <<form, inbox, visit>>, today' \in Int, pass' = [d \in 0 .. FormDays |-> pass'[d]],
             NoPassEnds
      PROVE  AnswersInv' /\ KeptInTime
  <2>1. AnswersInv' /\ Inbox!AnswersStayAway /\ Inbox!NothingOutlives
    BY <1>1 DEF AnswersInv, Inbox!Answered, Inbox!AnswersStayAway, Inbox!NothingOutlives, IsInboxRow
  <2>2. Inbox!PassLeavesNothingOld
    BY <1>1 DEF NoPassEnds, Inbox!PassLeavesNothingOld
  <2> QED BY <2>1, <2>2 DEF KeptInTime
<1>2. CASE Inbox!EnqueueRetentionJob
  <2>1. /\ pass' = [pass EXCEPT ![today].state = "queued"] /\ pass[today].state = "none"
        /\ UNCHANGED <<form, inbox, visit, today>>
    BY <1>2 DEF Inbox!EnqueueRetentionJob
  <2>2. NoPassEnds
    BY <2>1 DEF NoPassEnds, AnswersInv
  <2> QED BY <1>1, <2>1, <2>2 DEF AnswersInv
<1>3. ASSUME NEW d \in 0 .. FormDays, Inbox!StartPass(d) PROVE AnswersInv' /\ KeptInTime
  <2>1. /\ pass' = [pass EXCEPT ![d] = [state |-> "running", clock |-> today]]
        /\ UNCHANGED <<form, inbox, visit, today>>
    BY <1>3 DEF Inbox!StartPass
  <2>2. NoPassEnds /\ pass' = [e \in 0 .. FormDays |-> pass'[e]]
    BY <2>1 DEF NoPassEnds, AnswersInv
  <2> QED BY <1>1, <2>1, <2>2 DEF AnswersInv
<1>4. CASE Inbox!NextDay
  <2>1. today' = today + 1 /\ UNCHANGED <<form, inbox, visit, pass>>
    BY <1>4 DEF Inbox!NextDay
  <2> QED BY <1>1, <2>1 DEF AnswersInv, NoPassEnds
<1>5. CASE UNCHANGED Inbox!vars
  <2>1. UNCHANGED <<form, inbox, visit, today, pass>>
    BY <1>5 DEF Inbox!vars
  <2> QED BY <1>1, <2>1 DEF AnswersInv, NoPassEnds
<1> QED BY <1>2, <1>3, <1>4, <1>5, SubmitStep, InsertStep, PruneStep, SheetStep, DeskStep DEF Inbox!Next

LEMMA FormsMove ==
    ASSUME [SiteNext]_site, Is("forms") PROVE Is("forms")' /\ [Inbox!Next]_(Inbox!vars)
<1>1. part = "forms" /\ part' = part
  BY PartStays DEF Is
<1>2. CASE SiteNext
  <2>1. Inbox!Next \/ UNCHANGED forms
    BY <1>1, <1>2 DEF SiteNext, Is, Others
  <2> QED BY <1>1, <2>1 DEF Is, forms, Inbox!vars
<1>3. CASE UNCHANGED site
  BY <1>1, <1>3 DEF Is, site, forms, Inbox!vars
<1> QED BY <1>2, <1>3

(* A pass leaves no answers that are too old, none outlive their form, and *)
(* what was redacted does not come back.                                   *)
THEOREM AnswersAreKept == SiteSpec => AnswersAreKeptInTime
<1> DEFINE I == Is("forms") => AnswersInv
<1>0. Inbox!FormsAssumption
  BY SiteAssumption
<1>1. SiteInit => I
  BY <1>0, AnswersInvInit DEF SiteInit, Is
<1>2. I /\ [SiteNext]_site => I' /\ [Is("forms") => Inbox!AnswersStayAway /\ Inbox!NothingOutlives /\ Inbox!PassLeavesNothingOld]_forms
  <2> SUFFICES ASSUME I, [SiteNext]_site
               PROVE  I' /\ [Is("forms") => Inbox!AnswersStayAway /\ Inbox!NothingOutlives /\ Inbox!PassLeavesNothingOld]_forms
    OBVIOUS
  <2>1. CASE Is("forms")
    <3>1. Is("forms")' /\ [Inbox!Next]_(Inbox!vars)
      BY <2>1, FormsMove
    <3>2. AnswersInv' /\ (KeptInTime \/ UNCHANGED Inbox!vars)
      BY <1>0, <2>1, <3>1, AnswersInvStep
    <3>3. UNCHANGED Inbox!vars => UNCHANGED forms
      BY DEF Inbox!vars, forms
    <3>4. KeptInTime => Inbox!AnswersStayAway /\ Inbox!NothingOutlives /\ Inbox!PassLeavesNothingOld
      BY <3>2 DEF KeptInTime
    <3> QED BY <3>2, <3>3, <3>4
  <2>2. CASE ~Is("forms")
    BY <2>2, PartStays DEF Is
  <2> QED BY <2>1, <2>2
<1> HIDE DEF I
<1> QED BY <1>1, <1>2, PTL DEF SiteSpec, AnswersAreKeptInTime

-----------------------------------------------------------------------------
LEMMA FigureSizes ==
    ASSUME NEW S
    PROVE  Counting!Cardinality(S) = Cardinality(S) /\ (Counting!IsFiniteSet(S) <=> IsFiniteSet(S))
BY DEF Counting!Cardinality, Cardinality, Counting!IsFiniteSet, IsFiniteSet

RollupSets == UNION {[D -> Counting!Tally] : D \in SUBSET Rollup}

RecorderTask == [phase : {"idle", "recording", "pruning", "dropping"}, number : Nat, began : Int,
         left : Seq([row : Rollup, value : Nat]), stored : SUBSET Counting!Event, rows : RollupSets,
         todo : SUBSET Rollup, drops : SUBSET Rollup, days : Nat]

FigureRows ==
    /\ events \subseteq Counting!Event /\ IsFiniteSet(events)
    /\ rollup \in [Rollup -> {Null} \cup Counting!Tally]
    /\ recorder \in [Client -> RecorderTask]
    /\ \A c \in Client : IsFiniteSet(recorder[c].stored)
    /\ date \in Int /\ FirstDate <= date /\ recordsLeft \in Nat

(* What a set of events adds to a roll-up.                                 *)
AddedUp(a, E, b) ==
    /\ b \in Counting!Tally
    /\ b.count = Cardinality(E) + (IF a = Null THEN 0 ELSE a.count)
    /\ b.sum = Counting!Total(E) + (IF a = Null THEN 0 ELSE a.sum)
    /\ \A e \in E : b.min <= e.value /\ e.value <= b.max
    /\ a # Null => b.min <= a.min /\ a.max <= b.max
    /\ (\E e \in E : e.value = b.min) \/ (a # Null /\ b.min = a.min)
    /\ (\E e \in E : e.value = b.max) \/ (a # Null /\ b.max = a.max)

OwnEvents(t, r) == {e \in t.stored : e.row = r}

(* A batch that records: its events are new, and its roll-ups add them to  *)
(* those there are.                                                        *)
Recording(t, counted, rollups) ==
    /\ t.drops = {} /\ t.todo = {}
    /\ \A e \in counted : e.id[1] # t.number
    /\ \A e \in t.stored : e.id[1] = t.number /\ e.id[2] > Len(t.left)
    /\ \A r \in Rollup :
         /\ r \in DOMAIN t.rows <=> OwnEvents(t, r) # {}
         /\ r \in DOMAIN t.rows => AddedUp(rollups[r], OwnEvents(t, r), t.rows[r])

(* A prune: what it takes is old enough for its policy.                    *)
Pruning(t) ==
    /\ t.rows = <<>> /\ (t.phase = "pruning" => t.todo = {} /\ t.drops = {})
    /\ \E p \in Policies : /\ \A e \in t.stored : e.born < t.began - p.raw
                           /\ \A r \in t.todo \cup t.drops : RollupDays[r] < t.began - p.aggregate
                           /\ t.days = p.aggregate

TasksHold ==
    \A c \in Client :
        LET t == recorder[c]
        IN  /\ t.phase # "idle" => FirstDate <= t.began /\ t.began <= date
            /\ t.phase = "idle" => t = Counting!Idle
            /\ t.phase = "recording" => Recording(t, events, rollup)
            /\ t.phase \in {"pruning", "dropping"} => Pruning(t)
            /\ \A e \in t.stored : FirstDate <= e.born

(* A number is of one batch.                                               *)
NumbersDiffer ==
    \A c \in Client : recorder[c].phase = "recording" =>
        /\ recorder[c].number > recordsLeft
        /\ \A d \in Client \ {c} :
              recorder[d].phase = "recording" => recorder[d].number # recorder[c].number

LocksHold == \A c, d \in Client : c # d => Counting!Holds(c) \cap Counting!Holds(d) = {}

EventsHold == \A e \in events : e.id[1] > recordsLeft /\ FirstDate <= e.born

FiguresInv == FigureRows /\ TasksHold /\ NumbersDiffer /\ LocksHold /\ EventsHold /\ Counting!RollupsHold

LEMMA IdleTask == ASSUME Counting!AnalyticsAssumption PROVE Counting!Idle \in RecorderTask /\ Counting!Idle.stored = {} /\ Counting!Idle.phase = "idle" /\ DOMAIN Counting!Idle.rows = {} /\ Counting!Idle.drops = {} /\ Counting!Idle.todo = {} /\ Counting!Idle.rows = <<>>
<1>1. <<>> \in [{} -> Counting!Tally] /\ DOMAIN <<>> = {}
  OBVIOUS
<1>2. <<>> \in RollupSets
  BY <1>1 DEF RollupSets
<1> QED BY <1>1, <1>2 DEF Counting!Idle, RecorderTask, Counting!AnalyticsAssumption

LEMMA FiguresInvInit == ASSUME Counting!AnalyticsAssumption, Counting!Init PROVE FiguresInv
<1>1. /\ events = {} /\ \A r \in Rollup : rollup[r] = Null
      /\ \A c \in Client : recorder[c] = Counting!Idle
  BY DEF Counting!Init
<1>2. FigureRows
  <2>1. IsFiniteSet({})
    BY FS_EmptySet
  <2>2. date \in Int /\ FirstDate <= date /\ recordsLeft \in Nat
    BY DEF Counting!Init, Counting!AnalyticsAssumption
  <2> QED BY <1>1, <2>1, <2>2, IdleTask DEF Counting!Init, FigureRows
<1>3. TasksHold /\ NumbersDiffer /\ LocksHold /\ EventsHold
  BY <1>1, IdleTask DEF TasksHold, NumbersDiffer, LocksHold, EventsHold, Counting!Holds
<1>4. Counting!RollupsHold
  BY <1>1 DEF Counting!RollupsHold, Counting!Covers, Counting!Exact, Counting!Stored
<1> QED BY <1>2, <1>3, <1>4 DEF FiguresInv

----------------------------------------------------------------------------
(* The sum of values.                                                      *)

(* One event has as many units as its value says.                          *)
LEMMA OneTotal ==
    ASSUME NEW e \in Counting!Event
    PROVE  Counting!Units({e}) = {e} \X (1 .. e.value) /\ IsFiniteSet(Counting!Units({e})) /\ Counting!Total({e}) = e.value
<1>1. Counting!Units({e}) = {e} \X (1 .. e.value)
  BY DEF Counting!Units
<1>2. e.value \in Nat
  BY DEF Counting!Event
<1>3. IsFiniteSet(1 .. e.value) /\ Cardinality(1 .. e.value) = e.value
  <2> DEFINE n == e.value
  <2>1. n \in Nat
    BY <1>2
  <2> HIDE DEF n
  <2>2. /\ IsFiniteSet(1 .. n)
        /\ Cardinality(1 .. n) = IF 1 > n THEN 0 ELSE n - 1 + 1
    BY <2>1, FS_Interval
  <2>3. (IF 1 > n THEN 0 ELSE n - 1 + 1) = n
    BY <2>1
  <2> QED BY <2>2, <2>3 DEF n
<1>4. IsFiniteSet({e}) /\ Cardinality({e}) = 1
  BY FS_Singleton
<1>5. IsFiniteSet({e} \X (1 .. e.value)) /\ Cardinality({e} \X (1 .. e.value)) = e.value
  <2> DEFINE I == 1 .. e.value
             O == {e}
             n == e.value
  <2>1. IsFiniteSet(I) /\ Cardinality(I) = n /\ IsFiniteSet(O) /\ Cardinality(O) = 1 /\ n \in Nat
    BY <1>2, <1>3, <1>4
  <2> HIDE DEF I, O, n
  <2>2. IsFiniteSet(O \X I) /\ Cardinality(O \X I) = Cardinality(O) * Cardinality(I)
    BY <2>1, FS_Product
  <2>3. Cardinality(O) * Cardinality(I) = n
    <3>1. 1 * n = n
      BY <2>1
    <3> QED BY <2>1, <3>1
  <2> QED BY <2>2, <2>3 DEF I, O, n
<1> QED BY <1>1, <1>5, FigureSizes DEF Counting!Total

(* The units of finitely many events are finitely many.                    *)
LEMMA UnitsAreFinite ==
    ASSUME NEW E \in SUBSET Counting!Event, IsFiniteSet(E)
    PROVE  IsFiniteSet(Counting!Units(E)) /\ Counting!Total(E) \in Nat
<1> DEFINE each == [e \in E |-> {e} \X (1 .. e.value)]
           all == {{e} \X (1 .. e.value) : e \in E}
<1>1. \A s \in all : IsFiniteSet(s)
  BY OneTotal
<1>2. each \in Surjection(E, all)
  BY DEF Surjection
<1>3. IsFiniteSet(all)
  BY <1>2, FS_Surjection
<1>4. IsFiniteSet(UNION all)
  BY <1>1, <1>3, FS_UNION
<1> QED BY <1>4, FS_CardinalityType, FigureSizes DEF Counting!Units, Counting!Total

LEMMA MoreTotal ==
    ASSUME NEW E \in SUBSET Counting!Event, NEW F \in SUBSET Counting!Event, IsFiniteSet(E), IsFiniteSet(F)
    PROVE  /\ E \subseteq F => Counting!Total(E) <= Counting!Total(F) /\ Cardinality(E) <= Cardinality(F)
           /\ E \cap F = {} => /\ Counting!Total(E \cup F) = Counting!Total(E) + Counting!Total(F)
                               /\ Cardinality(E \cup F) = Cardinality(E) + Cardinality(F)
           /\ Cardinality(E) \in Nat /\ Counting!Total(E) \in Nat
           /\ IsFiniteSet(E \cup F)
<1>1. IsFiniteSet(Counting!Units(E)) /\ IsFiniteSet(Counting!Units(F)) /\ Counting!Total(E) \in Nat /\ Counting!Total(F) \in Nat
  BY UnitsAreFinite
<1>2. ASSUME E \subseteq F PROVE Counting!Total(E) <= Counting!Total(F) /\ Cardinality(E) <= Cardinality(F)
  <2>1. Counting!Units(E) \subseteq Counting!Units(F)
    BY <1>2 DEF Counting!Units
  <2> QED BY <1>1, <1>2, <2>1, FS_Subset, FigureSizes DEF Counting!Total
<1>3. ASSUME E \cap F = {}
      PROVE  /\ Counting!Total(E \cup F) = Counting!Total(E) + Counting!Total(F)
             /\ Cardinality(E \cup F) = Cardinality(E) + Cardinality(F)
  <2>1. Counting!Units(E \cup F) = Counting!Units(E) \cup Counting!Units(F)
    BY DEF Counting!Units
  <2>2. Counting!Units(E) \cap Counting!Units(F) = {}
    BY <1>3 DEF Counting!Units
  <2>3. Cardinality({}) = 0
    BY FS_EmptySet
  <2>4. Cardinality(Counting!Units(E) \cup Counting!Units(F)) = Cardinality(Counting!Units(E)) + Cardinality(Counting!Units(F)) - Cardinality(Counting!Units(E) \cap Counting!Units(F))
    BY <1>1, FS_Union
  <2>5. Cardinality(E \cup F) = Cardinality(E) + Cardinality(F) - Cardinality(E \cap F)
    BY FS_Union
  <2>6. Cardinality(E) \in Nat /\ Cardinality(F) \in Nat
    BY FS_CardinalityType
  <2>7. Cardinality(Counting!Units(E)) \in Nat /\ Cardinality(Counting!Units(F)) \in Nat
    BY <1>1, FS_CardinalityType
  <2>8. /\ Cardinality(Counting!Units(E) \cup Counting!Units(F)) = Cardinality(Counting!Units(E)) + Cardinality(Counting!Units(F))
        /\ Cardinality(E \cup F) = Cardinality(E) + Cardinality(F)
    <3>1. Cardinality(Counting!Units(E) \cap Counting!Units(F)) = 0 /\ Cardinality(E \cap F) = 0
      BY <1>3, <2>2, <2>3
    <3>2. \A m, n \in Nat : m + n - 0 = m + n
      OBVIOUS
    <3> QED BY <2>4, <2>5, <2>6, <2>7, <3>1, <3>2
  <2> QED BY <2>1, <2>8, FigureSizes DEF Counting!Total
<1> QED BY <1>1, <1>2, <1>3, FS_CardinalityType, FS_Union, FigureSizes

----------------------------------------------------------------------------
(* A roll-up with one event more.                                          *)

LEMMA UpsertAdds ==
    ASSUME Counting!AnalyticsAssumption, NEW a \in {Null} \cup Counting!Tally, NEW b \in {Null} \cup Counting!Tally, NEW E \in SUBSET Counting!Event, IsFiniteSet(E),
           NEW e \in Counting!Event, e \notin E, IF E = {} THEN b = a ELSE AddedUp(a, E, b)
    PROVE  AddedUp(a, E \cup {e}, Counting!Upserted(b, e.value))
<1> DEFINE v == e.value
           u == Counting!Upserted(b, v)
           n == Cardinality(E)
           t == Counting!Total(E)
<1>1. v \in Nat
  BY DEF Counting!Event
<1>2. IsFiniteSet({e}) /\ Cardinality({e}) = 1 /\ Counting!Total({e}) = v
  BY FS_Singleton, OneTotal
<1>3. /\ n \in Nat /\ t \in Nat
      /\ Cardinality(E \cup {e}) = n + 1 /\ Counting!Total(E \cup {e}) = t + v
  <2> DEFINE one == {e}
  <2>1. /\ one \in SUBSET Counting!Event /\ E \cap one = {} /\ IsFiniteSet(one)
        /\ Cardinality(one) = 1 /\ Counting!Total(one) = v
    BY <1>2
  <2> HIDE DEF one, v
  <2>2. /\ Cardinality(E) \in Nat /\ Counting!Total(E) \in Nat
        /\ Cardinality(E \cup one) = Cardinality(E) + Cardinality(one)
        /\ Counting!Total(E \cup one) = Counting!Total(E) + Counting!Total(one)
    BY <2>1, MoreTotal
  <2> QED BY <2>1, <2>2 DEF one
<1>4. E = {} => n = 0 /\ t = 0
  <2>1. Counting!Units({}) = {}
    BY DEF Counting!Units
  <2> QED BY <2>1, FS_EmptySet, FigureSizes DEF Counting!Total
<1>5. /\ b = Null => u = [count |-> 1, sum |-> v, min |-> v, max |-> v]
      /\ b # Null => u = [count |-> b.count + 1, sum |-> b.sum + v,
                         min |-> IF v < b.min THEN v ELSE b.min, max |-> IF v > b.max THEN v ELSE b.max]
  BY DEF Counting!Upserted
<1>6. \A x \in Counting!Tally : x.count \in Nat \ {0} /\ x.sum \in Nat /\ x.min \in Nat /\ x.max \in Nat /\ x # Null
  BY DEF Counting!Tally, Counting!AnalyticsAssumption
<1>7. u \in Counting!Tally
  BY <1>1, <1>5, <1>6 DEF Counting!Tally
<1>8. \A x \in E : x.value \in Nat
  BY DEF Counting!Event
<1> HIDE DEF u, n, t
<1>9. CASE E = {}
  <2>1. \A x \in E \cup {e} : x.value = v
    BY <1>9
  <2>2. (\E x \in E \cup {e} : x.value = v) /\ Cardinality(E \cup {e}) = 1 /\ Counting!Total(E \cup {e}) = v
    BY <1>1, <1>3, <1>4, <1>9
  <2>3. CASE b = Null
    <3>1. a = Null /\ u.count = 1 /\ u.sum = v /\ u.min = v /\ u.max = v
      BY <1>5, <1>9, <2>3
    <3> QED BY <1>1, <1>7, <2>1, <2>2, <3>1 DEF AddedUp, u
  <2>4. CASE b # Null
    <3>1. b \in Counting!Tally /\ a = b
      BY <1>9, <2>4
    <3>2. b.count \in Nat /\ b.sum \in Nat /\ b.min \in Nat /\ b.max \in Nat
      BY <1>6, <3>1
    <3>3. /\ u.count = b.count + 1 /\ u.sum = b.sum + v
          /\ u.min = IF v < b.min THEN v ELSE b.min
          /\ u.max = IF v > b.max THEN v ELSE b.max
      BY <1>5, <2>4
    <3>4. /\ u.count = 1 + b.count /\ u.sum = v + b.sum
          /\ u.min <= v /\ v <= u.max /\ u.min <= b.min /\ b.max <= u.max
          /\ u.min = v \/ u.min = b.min
          /\ u.max = v \/ u.max = b.max
      BY <1>1, <3>2, <3>3
    <3> QED BY <1>7, <2>1, <2>2, <2>4, <3>1, <3>4 DEF AddedUp, u
  <2> QED BY <2>3, <2>4
<1>10. CASE E # {}
  <2>1. AddedUp(a, E, b) /\ b \in Counting!Tally /\ b # Null
    BY <1>6, <1>10 DEF AddedUp
  <2>2. b.count \in Nat /\ b.sum \in Nat /\ b.min \in Nat /\ b.max \in Nat
    BY <1>6, <2>1
  <2>3. a # Null => a.count \in Nat /\ a.sum \in Nat /\ a.min \in Nat /\ a.max \in Nat
    BY <1>6
  <2>4. /\ u.count = b.count + 1 /\ u.sum = b.sum + v
        /\ u.min = IF v < b.min THEN v ELSE b.min
        /\ u.max = IF v > b.max THEN v ELSE b.max
    BY <1>5, <2>1
  <2>5. /\ u.count = Cardinality(E \cup {e}) + (IF a = Null THEN 0 ELSE a.count)
        /\ u.sum = Counting!Total(E \cup {e}) + (IF a = Null THEN 0 ELSE a.sum)
    BY <1>1, <1>3, <2>1, <2>2, <2>3, <2>4 DEF AddedUp, n, t
  <2>6. \A x \in E \cup {e} : u.min <= x.value /\ x.value <= u.max
    BY <1>1, <1>8, <2>1, <2>2, <2>4 DEF AddedUp
  <2>7. a # Null => u.min <= a.min /\ a.max <= u.max
    BY <1>1, <2>1, <2>2, <2>3, <2>4 DEF AddedUp
  <2>8. (\E x \in E \cup {e} : x.value = u.min) \/ (a # Null /\ u.min = a.min)
    BY <2>1, <2>4 DEF AddedUp
  <2>9. (\E x \in E \cup {e} : x.value = u.max) \/ (a # Null /\ u.max = a.max)
    BY <2>1, <2>4 DEF AddedUp
  <2> QED BY <1>7, <2>5, <2>6, <2>7, <2>8, <2>9 DEF AddedUp, u
<1> QED BY <1>9, <1>10 DEF u

(* What has been added to a roll-up that covers its events covers them all,*)
(* and exactly what was counted exactly before.                            *)
LEMMA AddsCover ==
    ASSUME Counting!AnalyticsAssumption, FigureRows, NEW r \in Rollup, NEW E \in SUBSET Counting!Event, IsFiniteSet(E), E # {},
           E \cap events = {}, Counting!Stored(r)' = Counting!Stored(r) \cup E, AddedUp(rollup[r], E, rollup'[r]), Counting!Covers(r)
    PROVE  Counting!Covers(r)' /\ (Counting!Exact(r) => Counting!Exact(r)')
<1> DEFINE S == Counting!Stored(r)
           a == rollup[r]
           b == rollup'[r]
<1>1. S \subseteq Counting!Event /\ IsFiniteSet(S) /\ S \cap E = {}
  <2>1. S \subseteq events
    BY DEF Counting!Stored
  <2> QED BY <2>1, FS_Subset, FigureSizes DEF FigureRows
<1>2. /\ Cardinality(S) \in Nat /\ Counting!Total(S) \in Nat /\ Cardinality(E) \in Nat /\ Counting!Total(E) \in Nat
      /\ Counting!Total(S \cup E) = Counting!Total(S) + Counting!Total(E)
      /\ Cardinality(S \cup E) = Cardinality(S) + Cardinality(E)
  BY <1>1, MoreTotal
<1>3. \A x \in Counting!Tally : x.count \in Nat \ {0} /\ x.sum \in Nat /\ x.min \in Nat /\ x.max \in Nat /\ x # Null
  BY DEF Counting!Tally, Counting!AnalyticsAssumption
<1>4. b # Null /\ b.count \in Nat /\ b.sum \in Nat /\ b.min \in Nat /\ b.max \in Nat
  BY <1>3 DEF AddedUp
<1>5. a \in {Null} \cup Counting!Tally
  BY DEF FigureRows
<1>6. a # Null => a.count \in Nat /\ a.sum \in Nat /\ a.min \in Nat /\ a.max \in Nat
  BY <1>3, <1>5
<1>7. \A x \in S \cup E : x.value \in Nat
  BY <1>1 DEF Counting!Event
<1>8. S = {} => Cardinality(S) = 0 /\ Counting!Total(S) = 0
  <2>1. Counting!Units({}) = {}
    BY DEF Counting!Units
  <2> QED BY <2>1, FS_EmptySet, FigureSizes DEF Counting!Total
<1>9. AddedUp(a, E, b) /\ (S # {} => /\ a # Null
        /\ a.count >= Cardinality(S) /\ a.sum >= Counting!Total(S)
        /\ \A e \in S : a.min <= e.value /\ e.value <= a.max)
  BY FigureSizes DEF Counting!Covers
<1>10. Counting!Stored(r)' = S \cup E
  OBVIOUS
<1> HIDE DEF S, a, b
<1>11. /\ b # Null
       /\ b.count >= Cardinality(S \cup E) /\ b.sum >= Counting!Total(S \cup E)
       /\ \A e \in S \cup E : b.min <= e.value /\ e.value <= b.max
  <2>1. CASE S = {}
    <3>1. CASE a = Null
      BY <1>2, <1>4, <1>7, <1>8, <1>9, <2>1, <3>1 DEF AddedUp
    <3>2. CASE a # Null
      BY <1>2, <1>4, <1>6, <1>7, <1>8, <1>9, <2>1, <3>2 DEF AddedUp
    <3> QED BY <3>1, <3>2
  <2>2. CASE S # {}
    BY <1>2, <1>4, <1>6, <1>7, <1>9, <2>2 DEF AddedUp
  <2> QED BY <2>1, <2>2
<1>12. Counting!Covers(r)'
  BY <1>10, <1>11, FigureSizes DEF Counting!Covers, b
<1>13. ASSUME Counting!Exact(r) PROVE Counting!Exact(r)'
  <2>1. a # Null => /\ a.count = Cardinality(S) /\ a.sum = Counting!Total(S)
                    /\ \E e \in S : e.value = a.min
                    /\ \E e \in S : e.value = a.max
    BY <1>13, FigureSizes DEF Counting!Exact, a, S
  <2>2. a = Null => S = {}
    BY <1>9
  <2>3. b.count = Cardinality(S \cup E) /\ b.sum = Counting!Total(S \cup E)
    BY <1>2, <1>4, <1>6, <1>8, <1>9, <2>1, <2>2 DEF AddedUp
  <2>4. \E e \in S \cup E : e.value = b.min
    BY <1>9, <2>1 DEF AddedUp
  <2>5. \E e \in S \cup E : e.value = b.max
    BY <1>9, <2>1 DEF AddedUp
  <2> QED BY <1>10, <2>3, <2>4, <2>5, FigureSizes DEF Counting!Exact, b
<1> QED BY <1>12, <1>13

----------------------------------------------------------------------------
(* What a step of one transaction that commits nothing has to keep.        *)
LEMMA RecorderMoves ==
    ASSUME Counting!AnalyticsAssumption, FiguresInv, NEW c \in Client, NEW t \in RecorderTask,
           recorder' = [recorder EXCEPT ![c] = t], UNCHANGED <<events, rollup, date>>,
           recordsLeft' \in Nat, recordsLeft' <= recordsLeft,
           IsFiniteSet(t.stored),
           t.phase # "idle" => FirstDate <= t.began /\ t.began <= date,
           t.phase = "idle" => t = Counting!Idle,
           t.phase = "recording" => Recording(t, events, rollup) /\ t.number > recordsLeft',
           t.phase \in {"pruning", "dropping"} => Pruning(t),
           \A e \in t.stored : FirstDate <= e.born,
           \A d \in Client \ {c} :
               t.phase = "recording" /\ recorder[d].phase = "recording" => recorder[d].number # t.number,
           \A d \in Client \ {c} : (DOMAIN t.rows \cup t.drops) \cap Counting!Holds(d) = {}
    PROVE  FiguresInv'
<1>1. recorder'[c] = t /\ \A d \in Client \ {c} : recorder'[d] = recorder[d]
  BY DEF FiguresInv, FigureRows
<1>2. recorder' \in [Client -> RecorderTask]
  BY DEF FiguresInv, FigureRows
<1>3. FigureRows'
  BY <1>1, <1>2, FigureSizes DEF FiguresInv, FigureRows
<1>5. TasksHold'
  <2> SUFFICES ASSUME NEW d \in Client
               PROVE  LET s == recorder'[d]
                      IN  /\ s.phase # "idle" => FirstDate <= s.began /\ s.began <= date'
                          /\ s.phase = "idle" => s = Counting!Idle
                          /\ s.phase = "recording" => Recording(s, events', rollup')
                          /\ s.phase \in {"pruning", "dropping"} => Pruning(s)
                          /\ \A e \in s.stored : FirstDate <= e.born
    BY DEF TasksHold
  <2>1. CASE d = c
    BY <1>1, <2>1
  <2>2. CASE d # c
    <3>1. recorder'[d] = recorder[d]
      BY <1>1, <2>2
    <3> QED BY <3>1 DEF FiguresInv, TasksHold
  <2> QED BY <2>1, <2>2
<1>6. NumbersDiffer'
  <2> SUFFICES ASSUME NEW d \in Client, recorder'[d].phase = "recording"
               PROVE  /\ recorder'[d].number > recordsLeft'
                      /\ \A b \in Client \ {d} :
                           recorder'[b].phase = "recording" => recorder'[b].number # recorder'[d].number
    BY DEF NumbersDiffer
  <2>1. CASE d = c
    BY <1>1, <2>1
  <2>2. CASE d # c
    <3>1. recorder[d].number > recordsLeft /\ recorder[d].number \in Nat /\ recordsLeft \in Nat
      BY <1>1, <2>2 DEF FiguresInv, NumbersDiffer, FigureRows, RecorderTask
    <3>2. recorder'[d].number > recordsLeft'
      BY <1>1, <2>2, <3>1
    <3> QED BY <1>1, <2>2, <3>2 DEF FiguresInv, NumbersDiffer
  <2> QED BY <2>1, <2>2
<1>7. LocksHold'
  <2>1. Counting!Holds(c)' = DOMAIN t.rows \cup t.drops
    BY <1>1 DEF Counting!Holds
  <2>2. \A d \in Client \ {c} : Counting!Holds(d)' = Counting!Holds(d)
    BY <1>1 DEF Counting!Holds
  <2> QED BY <2>1, <2>2 DEF FiguresInv, LocksHold
<1>8. EventsHold'
  <2>1. \A e \in events : e.id[1] \in Nat
    BY DEF FiguresInv, FigureRows, Counting!Event
  <2> QED BY <2>1 DEF FiguresInv, EventsHold, FigureRows
<1>9. Counting!RollupsHold'
  BY DEF FiguresInv, Counting!RollupsHold, Counting!Covers, Counting!Exact, Counting!Stored, Counting!InEveryWindow, Counting!NothingIsOld
<1> QED BY <1>3, <1>5, <1>6, <1>7, <1>8, <1>9 DEF FiguresInv

(* What is known of one transaction.                                       *)
LEMMA OneRecorder ==
    ASSUME Counting!AnalyticsAssumption, FiguresInv, NEW c \in Client
    PROVE  /\ recorder[c] \in RecorderTask /\ IsFiniteSet(recorder[c].stored)
           /\ recorder \in [Client -> RecorderTask]
           /\ date \in Int /\ FirstDate <= date /\ recordsLeft \in Nat
           /\ recorder[c].phase # "idle" => FirstDate <= recorder[c].began /\ recorder[c].began <= date
           /\ recorder[c].phase = "recording" =>
                 Recording(recorder[c], events, rollup) /\ recorder[c].number > recordsLeft
           /\ recorder[c].phase \in {"pruning", "dropping"} => Pruning(recorder[c])
           /\ \A e \in recorder[c].stored : FirstDate <= e.born
           /\ \A d \in Client \ {c} : Counting!Holds(c) \cap Counting!Holds(d) = {}
           /\ \A d \in Client \ {c} :
                 recorder[c].phase = "recording" /\ recorder[d].phase = "recording" =>
                     recorder[d].number # recorder[c].number
BY DEF FiguresInv, FigureRows, TasksHold, NumbersDiffer, LocksHold

LEMMA AbortStep == ASSUME Counting!AnalyticsAssumption, FiguresInv, NEW c \in Client, Counting!Abort(c) PROVE FiguresInv'
<1>1. /\ recorder' = [recorder EXCEPT ![c] = Counting!Idle] /\ UNCHANGED <<events, rollup, date>>
      /\ recordsLeft' = recordsLeft
  BY DEF Counting!Abort, Counting!End
<1>2. IsFiniteSet(Counting!Idle.stored)
  BY IdleTask, FS_EmptySet, FigureSizes
<1>3. recordsLeft \in Nat /\ recordsLeft <= recordsLeft
  BY OneRecorder
<1> QED BY <1>1, <1>2, <1>3, IdleTask, RecorderMoves

LEMMA BeginBatchStep ==
    ASSUME Counting!AnalyticsAssumption, FiguresInv, NEW c \in Client, NEW b \in Batches, Counting!BeginBatch(c, b)
    PROVE  FiguresInv'
<1> DEFINE t == [Counting!Idle EXCEPT !.phase = "recording", !.number = recordsLeft, !.began = date, !.left = b]
<1>1. /\ recorder' = [recorder EXCEPT ![c] = t] /\ UNCHANGED <<events, rollup, date>>
      /\ recordsLeft > 0 /\ recordsLeft' = recordsLeft - 1
  BY DEF Counting!BeginBatch, Counting!Begin
<1>2. recordsLeft \in Nat /\ date \in Int
  BY OneRecorder
<1>3. recordsLeft' \in Nat /\ recordsLeft' <= recordsLeft /\ recordsLeft > recordsLeft'
  BY <1>1, <1>2
<1>4. b \in Seq([row : Rollup, value : Nat])
  BY DEF Counting!AnalyticsAssumption
<1>5. DOMAIN <<>> = {} /\ <<>> \in RollupSets
  BY IdleTask DEF Counting!Idle, RecorderTask
<1>6. /\ t \in RecorderTask
      /\ t.phase = "recording" /\ t.began = date /\ t.number = recordsLeft /\ t.left = b
      /\ t.stored = {} /\ t.rows = <<>> /\ t.drops = {} /\ t.todo = {}
  BY <1>2, <1>4, IdleTask DEF RecorderTask
<1> HIDE DEF t
<1>7. Recording(t, events, rollup)
  <2>1. \A e \in events : e.id[1] # recordsLeft
    <3>1. \A e \in events : e.id[1] \in Nat /\ e.id[1] > recordsLeft
      BY DEF FiguresInv, FigureRows, EventsHold, Counting!Event
    <3> QED BY <1>2, <3>1
  <2> QED BY <1>5, <1>6, <2>1 DEF Recording, OwnEvents
<1>8. \A d \in Client \ {c} : recorder[d].phase = "recording" => recorder[d].number # recordsLeft
  <2>1. \A d \in Client : recorder[d].phase = "recording" => recorder[d].number \in Nat /\ recorder[d].number > recordsLeft
    BY OneRecorder DEF RecorderTask
  <2> QED BY <1>2, <2>1
<1>9. IsFiniteSet(t.stored) /\ t.phase = "recording" /\ t.began = date /\ t.number = recordsLeft
      /\ t.stored = {} /\ DOMAIN t.rows \cup t.drops = {}
  BY <1>5, <1>6, FS_EmptySet, FigureSizes
<1>10. FirstDate <= date /\ date <= date
  BY OneRecorder
<1> QED BY <1>1, <1>3, <1>6, <1>7, <1>8, <1>9, <1>10, RecorderMoves

LEMMA PruneFiguresStep ==
    ASSUME Counting!AnalyticsAssumption, FiguresInv, NEW c \in Client, NEW p \in Policies, Counting!Prune(c, p)
    PROVE  FiguresInv'
<1> DEFINE old == {e \in events : e.born < date - p.raw}
           t == [Counting!Idle EXCEPT !.phase = "pruning", !.began = date, !.days = p.aggregate, !.stored = old]
<1>1. /\ recorder' = [recorder EXCEPT ![c] = t] /\ UNCHANGED <<events, rollup, date>>
      /\ recordsLeft > 0 /\ recordsLeft' = recordsLeft - 1
  BY DEF Counting!Prune, Counting!Begin
<1>2. recordsLeft \in Nat /\ date \in Int
  BY OneRecorder
<1>3. recordsLeft' \in Nat /\ recordsLeft' <= recordsLeft
  BY <1>1, <1>2
<1>4. p.raw \in Nat /\ p.aggregate \in Nat
  BY DEF Counting!AnalyticsAssumption
<1>5. DOMAIN <<>> = {} /\ <<>> \in RollupSets
  BY IdleTask DEF Counting!Idle, RecorderTask
<1>6. old \subseteq Counting!Event /\ IsFiniteSet(old)
  BY FS_Subset, FigureSizes DEF FiguresInv, FigureRows
<1>7. /\ t \in RecorderTask
      /\ t.phase = "pruning" /\ t.began = date /\ t.stored = old /\ t.days = p.aggregate
      /\ t.rows = <<>> /\ t.drops = {} /\ t.todo = {}
  BY <1>2, <1>4, <1>6, IdleTask DEF RecorderTask
<1> HIDE DEF t
<1>8. Pruning(t)
  BY <1>7 DEF Pruning
<1>9. \A e \in t.stored : FirstDate <= e.born
  BY <1>7 DEF FiguresInv, EventsHold
<1>10. IsFiniteSet(t.stored) /\ t.phase = "pruning" /\ t.began = date
       /\ DOMAIN t.rows \cup t.drops = {} /\ FirstDate <= date /\ date <= date
  BY <1>2, <1>5, <1>6, <1>7, OneRecorder
<1> QED BY <1>1, <1>3, <1>7, <1>8, <1>9, <1>10, RecorderMoves

LEMMA ReadDailyStep ==
    ASSUME Counting!AnalyticsAssumption, FiguresInv, NEW c \in Client, Counting!ReadDaily(c) PROVE FiguresInv'
<1> DEFINE k == recorder[c]
           old == {r \in Rollup : rollup[r] # Null /\ RollupDays[r] < k.began - k.days}
           t == [k EXCEPT !.phase = "dropping", !.todo = old]
<1>1. /\ recorder' = [recorder EXCEPT ![c] = t] /\ UNCHANGED <<events, rollup, date>>
      /\ recordsLeft' = recordsLeft /\ k.phase = "pruning"
  BY DEF Counting!ReadDaily
<1>2. recordsLeft \in Nat /\ recordsLeft <= recordsLeft /\ k \in RecorderTask
  BY OneRecorder
<1>3. t \in RecorderTask
  BY <1>2 DEF RecorderTask
<1>4. /\ t.phase = "dropping" /\ t.began = k.began /\ t.stored = k.stored /\ t.rows = k.rows
      /\ t.drops = k.drops /\ t.todo = old /\ t.days = k.days
  BY <1>2 DEF RecorderTask
<1>5. Pruning(t)
  <2>1. Pruning(k) /\ k.drops = {}
    BY <1>1, OneRecorder DEF Pruning
  <2> QED BY <1>4, <2>1 DEF Pruning
<1>6. DOMAIN t.rows \cup t.drops = Counting!Holds(c)
  BY <1>4 DEF Counting!Holds
<1>7. /\ IsFiniteSet(t.stored) /\ FirstDate <= t.began /\ t.began <= date
      /\ \A e \in t.stored : FirstDate <= e.born
      /\ \A d \in Client \ {c} : (DOMAIN t.rows \cup t.drops) \cap Counting!Holds(d) = {}
  BY <1>1, <1>4, <1>6, OneRecorder
<1> HIDE DEF t, k
<1> QED BY <1>1, <1>2, <1>3, <1>4, <1>5, <1>7, RecorderMoves

LEMMA DropDailyStep ==
    ASSUME Counting!AnalyticsAssumption, FiguresInv, NEW c \in Client, NEW r \in Rollup, Counting!DropDaily(c, r)
    PROVE  FiguresInv'
<1> DEFINE k == recorder[c]
           gone == IF rollup[r] = Null THEN k.drops ELSE k.drops \cup {r}
           t == [k EXCEPT !.todo = @ \ {r}, !.drops = IF rollup[r] = Null THEN @ ELSE @ \cup {r}]
<1>1. /\ recorder' = [recorder EXCEPT ![c] = t] /\ UNCHANGED <<events, rollup, date>>
      /\ recordsLeft' = recordsLeft /\ k.phase = "dropping" /\ r \in k.todo /\ Counting!RowFree(c, r)
  BY DEF Counting!DropDaily
<1>2. recordsLeft \in Nat /\ recordsLeft <= recordsLeft /\ k \in RecorderTask
  BY OneRecorder
<1>3. t \in RecorderTask
  BY <1>2 DEF RecorderTask
<1>4. /\ t.phase = k.phase /\ t.began = k.began /\ t.stored = k.stored /\ t.rows = k.rows
      /\ t.drops = gone /\ t.todo = k.todo \ {r} /\ t.days = k.days
  BY <1>2 DEF RecorderTask
<1>5. Pruning(t)
  <2>1. Pruning(k)
    BY <1>1, OneRecorder
  <2>2. t.todo \cup t.drops \subseteq k.todo \cup k.drops
    BY <1>1, <1>4
  <2> QED BY <1>1, <1>4, <2>1, <2>2 DEF Pruning
<1>6. DOMAIN t.rows \cup t.drops \subseteq Counting!Holds(c) \cup {r}
  BY <1>4 DEF Counting!Holds
<1>7. /\ IsFiniteSet(t.stored) /\ FirstDate <= t.began /\ t.began <= date
      /\ \A e \in t.stored : FirstDate <= e.born
      /\ \A d \in Client \ {c} : Counting!Holds(c) \cap Counting!Holds(d) = {} /\ r \notin Counting!Holds(d)
  BY <1>1, <1>4, OneRecorder DEF Counting!RowFree
<1>8. \A d \in Client \ {c} : (DOMAIN t.rows \cup t.drops) \cap Counting!Holds(d) = {}
  BY <1>6, <1>7
<1> HIDE DEF t, k
<1> QED BY <1>1, <1>2, <1>3, <1>4, <1>5, <1>7, <1>8, RecorderMoves

LEMMA RecordEventStep ==
    ASSUME Counting!AnalyticsAssumption, FiguresInv, NEW c \in Client, Counting!RecordEvent(c) PROVE FiguresInv'
<1> DEFINE k == recorder[c]
           e == Head(k.left)
           seen == IF e.row \in DOMAIN k.rows THEN k.rows[e.row] ELSE rollup[e.row]
           one == [r \in {e.row} |-> Counting!Upserted(seen, e.value)]
           new == [id |-> <<k.number, Len(k.left)>>, row |-> e.row, value |-> e.value, born |-> k.began]
           t == [k EXCEPT !.left = Tail(@), !.rows = Counting!Over(one, @), !.stored = @ \cup {new}]
<1>1. /\ recorder' = [recorder EXCEPT ![c] = t] /\ UNCHANGED <<events, rollup, date>>
      /\ recordsLeft' = recordsLeft /\ k.phase = "recording" /\ k.left # <<>> /\ Counting!RowFree(c, e.row)
  BY DEF Counting!RecordEvent
<1>2. /\ k \in RecorderTask /\ IsFiniteSet(k.stored) /\ Recording(k, events, rollup)
      /\ k.number > recordsLeft /\ recordsLeft \in Nat /\ FirstDate <= k.began /\ k.began <= date
      /\ \A x \in k.stored : FirstDate <= x.born
  BY <1>1, OneRecorder
<1>3. /\ k.number \in Nat /\ k.began \in Int /\ k.left \in Seq([row : Rollup, value : Nat])
      /\ k.rows \in RollupSets /\ k.stored \subseteq Counting!Event
  BY <1>2 DEF RecorderTask
<1>4. /\ e \in [row : Rollup, value : Nat] /\ Len(k.left) \in Nat
      /\ Tail(k.left) \in Seq([row : Rollup, value : Nat]) /\ Len(Tail(k.left)) = Len(k.left) - 1
  <2> DEFINE l == k.left
  <2>1. l \in Seq([row : Rollup, value : Nat]) /\ l # <<>>
    BY <1>1, <1>3
  <2> HIDE DEF l
  <2>2. Head(l) \in [row : Rollup, value : Nat] /\ Len(l) \in Nat
        /\ Tail(l) \in Seq([row : Rollup, value : Nat]) /\ Len(Tail(l)) = Len(l) - 1
    BY <2>1, HeadTailProperties, LenProperties
  <2> QED BY <2>2 DEF l
<1>5. e.row \in Rollup /\ e.value \in Nat
  BY <1>4
<1> HIDE DEF e
<1>6. new \in Counting!Event
  BY <1>3, <1>4, <1>5 DEF Counting!Event
<1>7. /\ new.id[1] = k.number /\ new.id[2] = Len(k.left) /\ new.row = e.row /\ new.value = e.value
      /\ new.born = k.began
  OBVIOUS
<1> HIDE DEF new
<1>8. new \notin k.stored
  BY <1>2, <1>4, <1>7 DEF Recording
<1>9. DOMAIN k.rows \subseteq Rollup /\ \A r \in DOMAIN k.rows : k.rows[r] \in Counting!Tally
  BY <1>3 DEF RollupSets
<1> DEFINE E == OwnEvents(k, e.row)
<1>10. E \subseteq Counting!Event /\ IsFiniteSet(E) /\ new \notin E
  BY <1>2, <1>3, <1>8, FS_Subset, FigureSizes DEF OwnEvents
<1>11. /\ rollup[e.row] \in {Null} \cup Counting!Tally /\ seen \in {Null} \cup Counting!Tally
       /\ IF E = {} THEN seen = rollup[e.row] ELSE AddedUp(rollup[e.row], E, seen)
  BY <1>2, <1>5, <1>9 DEF FiguresInv, FigureRows, Recording
<1> HIDE DEF E, seen
<1>12. AddedUp(rollup[e.row], E \cup {new}, Counting!Upserted(seen, e.value))
  BY <1>6, <1>7, <1>10, <1>11, UpsertAdds
<1>13. Counting!Upserted(seen, e.value) \in Counting!Tally
  BY <1>12 DEF AddedUp
<1> DEFINE rows == Counting!Over(one, k.rows)
<1>14. /\ DOMAIN rows = {e.row} \cup DOMAIN k.rows
       /\ rows[e.row] = Counting!Upserted(seen, e.value)
       /\ \A r \in DOMAIN k.rows \ {e.row} : rows[r] = k.rows[r]
       /\ rows \in [{e.row} \cup DOMAIN k.rows -> Counting!Tally]
  BY <1>9, <1>13 DEF Counting!Over
<1>15. rows \in RollupSets
  BY <1>5, <1>9, <1>14 DEF RollupSets
<1> HIDE DEF rows, one
<1>16. /\ t \in RecorderTask
       /\ t.phase = "recording" /\ t.number = k.number /\ t.began = k.began /\ t.left = Tail(k.left)
       /\ t.stored = k.stored \cup {new} /\ t.rows = rows /\ t.todo = k.todo /\ t.drops = k.drops
  BY <1>1, <1>2, <1>4, <1>6, <1>15 DEF RecorderTask, rows
<1> HIDE DEF t
<1>17. \A r \in Rollup : OwnEvents(t, r) = IF r = e.row THEN E \cup {new} ELSE OwnEvents(k, r)
  BY <1>7, <1>16 DEF OwnEvents, E
<1>18. Recording(t, events, rollup)
  <2>1. t.drops = {} /\ t.todo = {} /\ \A x \in events : x.id[1] # t.number
    BY <1>2, <1>16 DEF Recording
  <2>2. \A x \in t.stored : x.id[1] = t.number /\ x.id[2] > Len(t.left)
    <3>1. \A x \in k.stored : x.id[2] \in Nat
      BY <1>3 DEF Counting!Event
    <3> QED BY <1>2, <1>4, <1>7, <1>16, <3>1 DEF Recording
  <2>3. \A r \in Rollup :
          /\ r \in DOMAIN t.rows <=> OwnEvents(t, r) # {}
          /\ r \in DOMAIN t.rows => AddedUp(rollup[r], OwnEvents(t, r), t.rows[r])
    <3> SUFFICES ASSUME NEW r \in Rollup
                 PROVE  /\ r \in DOMAIN t.rows <=> OwnEvents(t, r) # {}
                        /\ r \in DOMAIN t.rows => AddedUp(rollup[r], OwnEvents(t, r), t.rows[r])
      OBVIOUS
    <3>1. CASE r = e.row
      <4>1. OwnEvents(t, r) = E \cup {new} /\ t.rows[r] = Counting!Upserted(seen, e.value) /\ r \in DOMAIN t.rows
        BY <1>14, <1>16, <1>17, <3>1
      <4> QED BY <1>12, <3>1, <4>1
    <3>2. CASE r # e.row
      <4>1. OwnEvents(t, r) = OwnEvents(k, r) /\ (r \in DOMAIN t.rows <=> r \in DOMAIN k.rows)
            /\ (r \in DOMAIN k.rows => t.rows[r] = k.rows[r])
        BY <1>14, <1>16, <1>17, <3>2
      <4> QED BY <1>2, <4>1 DEF Recording
    <3> QED BY <3>1, <3>2
  <2> QED BY <2>1, <2>2, <2>3 DEF Recording
<1>19. DOMAIN t.rows \cup t.drops \subseteq Counting!Holds(c) \cup {e.row}
  BY <1>14, <1>16 DEF Counting!Holds
<1>20. \A d \in Client \ {c} : /\ Counting!Holds(c) \cap Counting!Holds(d) = {} /\ e.row \notin Counting!Holds(d)
                               /\ recorder[d].phase = "recording" => recorder[d].number # k.number
  BY <1>1, OneRecorder DEF Counting!RowFree
<1>21. \A d \in Client \ {c} : (DOMAIN t.rows \cup t.drops) \cap Counting!Holds(d) = {}
  BY <1>19, <1>20
<1>22. IsFiniteSet(t.stored)
  <2>1. IsFiniteSet({new})
    BY FS_Singleton
  <2> QED BY <1>2, <1>16, <2>1, FS_Union, FigureSizes
<1>23. \A x \in t.stored : FirstDate <= x.born
  BY <1>2, <1>7, <1>16
<1>24. recordsLeft <= recordsLeft
  BY <1>2
<1> HIDE DEF k
<1> QED BY <1>1, <1>2, <1>16, <1>18, <1>20, <1>21, <1>22, <1>23, <1>24, RecorderMoves

(* What the commit of a transaction has to keep.                           *)
LEMMA CommitKeeps ==
    ASSUME Counting!AnalyticsAssumption, FiguresInv, NEW c \in Client,
           recorder' = [recorder EXCEPT ![c] = Counting!Idle], UNCHANGED <<date, recordsLeft>>,
           events' \subseteq Counting!Event, IsFiniteSet(events'), rollup' \in [Rollup -> {Null} \cup Counting!Tally],
           \A d \in Client \ {c} :
               recorder[d].phase = "recording" => Recording(recorder[d], events', rollup'),
           \A e \in events' : e.id[1] > recordsLeft /\ FirstDate <= e.born,
           Counting!RollupsHold'
    PROVE  FiguresInv'
<1>1. recorder'[c] = Counting!Idle /\ \A d \in Client \ {c} : recorder'[d] = recorder[d]
  BY DEF FiguresInv, FigureRows
<1>2. recorder' \in [Client -> RecorderTask]
  BY IdleTask DEF FiguresInv, FigureRows
<1>3. IsFiniteSet(Counting!Idle.stored)
  BY IdleTask, FS_EmptySet, FigureSizes
<1>4. FigureRows'
  BY <1>1, <1>2, <1>3, FigureSizes DEF FiguresInv, FigureRows
<1>5. TasksHold'
  <2> SUFFICES ASSUME NEW d \in Client
               PROVE  LET s == recorder'[d]
                      IN  /\ s.phase # "idle" => FirstDate <= s.began /\ s.began <= date'
                          /\ s.phase = "idle" => s = Counting!Idle
                          /\ s.phase = "recording" => Recording(s, events', rollup')
                          /\ s.phase \in {"pruning", "dropping"} => Pruning(s)
                          /\ \A e \in s.stored : FirstDate <= e.born
    BY DEF TasksHold
  <2>1. CASE d = c
    BY <1>1, <2>1, IdleTask
  <2>2. CASE d # c
    <3>1. recorder'[d] = recorder[d]
      BY <1>1, <2>2
    <3> QED BY <2>2, <3>1 DEF FiguresInv, TasksHold
  <2> QED BY <2>1, <2>2
<1>6. NumbersDiffer'
  BY <1>1, IdleTask DEF FiguresInv, NumbersDiffer
<1>7. LocksHold'
  <2>1. Counting!Holds(c)' = {}
    BY <1>1, IdleTask DEF Counting!Holds
  <2>2. \A d \in Client \ {c} : Counting!Holds(d)' = Counting!Holds(d)
    BY <1>1 DEF Counting!Holds
  <2> QED BY <2>1, <2>2 DEF FiguresInv, LocksHold
<1>8. EventsHold'
  BY DEF EventsHold
<1> QED BY <1>4, <1>5, <1>6, <1>7, <1>8 DEF FiguresInv

LEMMA CommitBatchStep ==
    ASSUME Counting!AnalyticsAssumption, FiguresInv, NEW c \in Client, Counting!CommitBatch(c) PROVE FiguresInv'
<1> DEFINE k == recorder[c]
<1>1. /\ k.phase = "recording" /\ recorder' = [recorder EXCEPT ![c] = Counting!Idle]
      /\ events' = events \cup k.stored /\ rollup' = Counting!Over(k.rows, rollup)
      /\ date' = date /\ recordsLeft' = recordsLeft
  BY DEF Counting!CommitBatch, Counting!End
<1>2. /\ k \in RecorderTask /\ IsFiniteSet(k.stored) /\ Recording(k, events, rollup)
      /\ k.number > recordsLeft /\ recordsLeft \in Nat
      /\ \A x \in k.stored : FirstDate <= x.born
      /\ \A d \in Client \ {c} : /\ Counting!Holds(c) \cap Counting!Holds(d) = {}
                                 /\ recorder[d].phase = "recording" => recorder[d].number # k.number
  BY <1>1, OneRecorder
<1>3. k.stored \subseteq Counting!Event /\ k.rows \in RollupSets /\ Counting!Holds(c) = DOMAIN k.rows \cup k.drops
  BY <1>2 DEF RecorderTask, Counting!Holds
<1> HIDE DEF k
<1>4. DOMAIN k.rows \subseteq Rollup /\ \A r \in DOMAIN k.rows : k.rows[r] \in Counting!Tally
  BY <1>3 DEF RollupSets
<1>5. rollup \in [Rollup -> {Null} \cup Counting!Tally] /\ events \subseteq Counting!Event /\ IsFiniteSet(events)
  BY DEF FiguresInv, FigureRows
<1>6. \A r \in Rollup : rollup'[r] = IF r \in DOMAIN k.rows THEN k.rows[r] ELSE rollup[r]
  BY <1>1, <1>4, <1>5 DEF Counting!Over
<1>7. rollup' \in [Rollup -> {Null} \cup Counting!Tally]
  <2>1. DOMAIN k.rows \cup DOMAIN rollup = Rollup
    BY <1>4, <1>5
  <2> QED BY <1>1, <1>4, <1>5, <2>1 DEF Counting!Over
<1>8. events' \subseteq Counting!Event /\ IsFiniteSet(events')
  BY <1>1, <1>2, <1>3, <1>5, FS_Union, FigureSizes
<1>9. \A e \in events' : e.id[1] > recordsLeft /\ FirstDate <= e.born
  BY <1>1, <1>2 DEF FiguresInv, EventsHold, Recording
<1>10. ASSUME NEW d \in Client \ {c}, recorder[d].phase = "recording"
       PROVE  Recording(recorder[d], events', rollup')
  <2>1. Recording(recorder[d], events, rollup) /\ recorder[d].number # k.number
    BY <1>2, <1>10, OneRecorder
  <2>2. \A e \in events' : e.id[1] # recorder[d].number
    BY <1>1, <1>2, <2>1 DEF Recording
  <2>3. \A r \in Rollup : r \in DOMAIN recorder[d].rows => rollup'[r] = rollup[r]
    BY <1>2, <1>3, <1>6 DEF Counting!Holds
  <2> QED BY <2>1, <2>2, <2>3 DEF Recording
<1>11. Counting!RollupsHold'
  <2> SUFFICES ASSUME NEW r \in Rollup, Counting!InEveryWindow(r)'
               PROVE  Counting!Covers(r)' /\ (Counting!NothingIsOld' => Counting!Exact(r)')
    BY DEF Counting!RollupsHold
  <2>1. Counting!InEveryWindow(r) /\ (Counting!NothingIsOld' => Counting!NothingIsOld)
    BY <1>1 DEF Counting!InEveryWindow, Counting!NothingIsOld
  <2>2. Counting!Covers(r) /\ (Counting!NothingIsOld => Counting!Exact(r))
    BY <2>1 DEF FiguresInv, Counting!RollupsHold
  <2> DEFINE E == OwnEvents(k, r)
  <2>3. Counting!Stored(r)' = Counting!Stored(r) \cup E
    BY <1>1 DEF Counting!Stored, OwnEvents
  <2>4. CASE r \in DOMAIN k.rows
    <3>1. E # {} /\ AddedUp(rollup[r], E, k.rows[r])
      BY <1>2, <2>4 DEF Recording
    <3>2. E \subseteq Counting!Event /\ IsFiniteSet(E)
      BY <1>2, <1>3, FS_Subset, FigureSizes DEF OwnEvents
    <3>3. E \cap events = {}
      BY <1>2 DEF Recording, OwnEvents
    <3>4. rollup'[r] = k.rows[r]
      BY <1>6, <2>4
    <3> HIDE DEF E
    <3>5. AddedUp(rollup[r], E, rollup'[r]) /\ FigureRows
      BY <3>1, <3>4 DEF FiguresInv
    <3>6. Counting!Covers(r)' /\ (Counting!Exact(r) => Counting!Exact(r)')
      BY <2>2, <2>3, <3>1, <3>2, <3>3, <3>5, AddsCover
    <3> QED BY <2>1, <2>2, <3>6
  <2>5. CASE r \notin DOMAIN k.rows
    <3>1. E = {}
      BY <1>2, <2>5 DEF Recording
    <3>2. Counting!Stored(r)' = Counting!Stored(r) /\ rollup'[r] = rollup[r]
      BY <1>6, <2>3, <2>5, <3>1
    <3> QED BY <2>1, <2>2, <3>2 DEF Counting!Covers, Counting!Exact
  <2> QED BY <2>4, <2>5
<1> QED BY <1>1, <1>7, <1>8, <1>9, <1>10, <1>11, CommitKeeps

LEMMA CommitPruneStep ==
    ASSUME Counting!AnalyticsAssumption, FiguresInv, NEW c \in Client, Counting!CommitPrune(c) PROVE FiguresInv'
<1> DEFINE k == recorder[c]
<1>1. /\ k.phase = "dropping" /\ recorder' = [recorder EXCEPT ![c] = Counting!Idle]
      /\ events' = events \ k.stored
      /\ rollup' = [r \in Rollup |-> IF r \in k.drops THEN Null ELSE rollup[r]]
      /\ date' = date /\ recordsLeft' = recordsLeft
  BY DEF Counting!CommitPrune, Counting!End
<1>2. /\ k \in RecorderTask /\ Pruning(k) /\ k.began <= date
      /\ \A x \in k.stored : FirstDate <= x.born
      /\ \A d \in Client \ {c} : Counting!Holds(c) \cap Counting!Holds(d) = {}
  BY <1>1, OneRecorder
<1>3. k.began \in Int /\ k.stored \subseteq Counting!Event /\ date \in Int
  BY <1>2, OneRecorder DEF RecorderTask
<1>4. rollup \in [Rollup -> {Null} \cup Counting!Tally] /\ events \subseteq Counting!Event /\ IsFiniteSet(events)
  BY DEF FiguresInv, FigureRows
<1>5. k.drops \subseteq Counting!Holds(c)
  BY DEF Counting!Holds
<1> HIDE DEF k
<1>6. rollup' \in [Rollup -> {Null} \cup Counting!Tally] /\ \A r \in Rollup : rollup'[r] = IF r \in k.drops THEN Null ELSE rollup[r]
  BY <1>1, <1>4
<1>7. events' \subseteq Counting!Event /\ IsFiniteSet(events')
  <2>1. events' \subseteq events
    BY <1>1
  <2> QED BY <1>4, <2>1, FS_Subset, FigureSizes
<1>8. \A e \in events' : e.id[1] > recordsLeft /\ FirstDate <= e.born
  BY <1>1 DEF FiguresInv, EventsHold
<1>9. ASSUME NEW d \in Client \ {c}, recorder[d].phase = "recording"
      PROVE  Recording(recorder[d], events', rollup')
  <2>1. Recording(recorder[d], events, rollup)
    BY <1>9, OneRecorder
  <2>2. \A r \in Rollup : r \in DOMAIN recorder[d].rows => rollup'[r] = rollup[r]
    BY <1>2, <1>5, <1>6 DEF Counting!Holds
  <2> QED BY <1>1, <2>1, <2>2 DEF Recording
<1>10. PICK p \in Policies : /\ \A e \in k.stored : e.born < k.began - p.raw
                             /\ \A r \in k.drops : RollupDays[r] < k.began - p.aggregate
  BY <1>2 DEF Pruning
<1>11. p.raw \in Nat /\ p.aggregate \in Nat /\ RollupDays \in [Rollup -> Int] /\ FirstDate \in Int
  BY DEF Counting!AnalyticsAssumption
(* What the prune drops lies before a window, and so does what it deletes. *)
<1>12. \A r \in Rollup : Counting!InEveryWindow(r) => r \notin k.drops
  <2> SUFFICES ASSUME NEW r \in Rollup, Counting!InEveryWindow(r), r \in k.drops PROVE FALSE
    OBVIOUS
  <2>1. date - RollupDays[r] <= p.aggregate /\ RollupDays[r] < k.began - p.aggregate /\ RollupDays[r] \in Int
    BY <1>10, <1>11 DEF Counting!InEveryWindow
  <2> QED BY <1>2, <1>3, <1>11, <2>1
<1>13. Counting!NothingIsOld => k.stored = {}
  <2> SUFFICES ASSUME Counting!NothingIsOld, NEW e \in k.stored PROVE FALSE
    OBVIOUS
  <2>1. date - FirstDate <= p.raw /\ e.born < k.began - p.raw /\ FirstDate <= e.born
    BY <1>2, <1>10 DEF Counting!NothingIsOld
  <2>2. e.born \in Int
    BY <1>3 DEF Counting!Event
  <2> QED BY <1>2, <1>3, <1>11, <2>1, <2>2
<1>14. Counting!RollupsHold'
  <2> SUFFICES ASSUME NEW r \in Rollup, Counting!InEveryWindow(r)'
               PROVE  Counting!Covers(r)' /\ (Counting!NothingIsOld' => Counting!Exact(r)')
    BY DEF Counting!RollupsHold
  <2>1. Counting!InEveryWindow(r) /\ (Counting!NothingIsOld' => Counting!NothingIsOld)
    BY <1>1 DEF Counting!InEveryWindow, Counting!NothingIsOld
  <2>2. Counting!Covers(r) /\ (Counting!NothingIsOld => Counting!Exact(r)) /\ rollup'[r] = rollup[r]
    BY <1>6, <1>12, <2>1 DEF FiguresInv, Counting!RollupsHold
  <2> DEFINE S == Counting!Stored(r)
             T == Counting!Stored(r)'
  <2>3. T = S \ k.stored /\ S \subseteq events
    BY <1>1 DEF Counting!Stored
  <2>4. S \subseteq Counting!Event /\ IsFiniteSet(S) /\ T \subseteq S /\ IsFiniteSet(T)
    <3>1. T \subseteq events /\ T \subseteq S
      BY <2>3
    <3> QED BY <1>4, <2>3, <3>1, FS_Subset, FigureSizes
  <2>5. rollup[r] # Null => rollup[r].count \in Nat /\ rollup[r].sum \in Nat
    BY <1>4 DEF Counting!Tally
  <2>6. Counting!Covers(r) <=> (S # {} =>
          /\ rollup[r] # Null
          /\ rollup[r].count >= Cardinality(S) /\ rollup[r].sum >= Counting!Total(S)
          /\ \A e \in S : rollup[r].min <= e.value /\ e.value <= rollup[r].max)
    BY FigureSizes DEF Counting!Covers
  <2>7. Counting!Covers(r)' <=> (T # {} =>
          /\ rollup'[r] # Null
          /\ rollup'[r].count >= Cardinality(T) /\ rollup'[r].sum >= Counting!Total(T)
          /\ \A e \in T : rollup'[r].min <= e.value /\ e.value <= rollup'[r].max)
    BY FigureSizes DEF Counting!Covers
  <2>8. Counting!NothingIsOld => T = S
    BY <1>13, <2>3
  <2>9. Counting!Exact(r)' <=> (rollup'[r] # Null =>
        /\ rollup'[r].count = Cardinality(T) /\ rollup'[r].sum = Counting!Total(T)
        /\ \E e \in T : e.value = rollup'[r].min
        /\ \E e \in T : e.value = rollup'[r].max)
    BY FigureSizes DEF Counting!Exact
  <2>10. Counting!Exact(r) <=> (rollup[r] # Null =>
        /\ rollup[r].count = Cardinality(S) /\ rollup[r].sum = Counting!Total(S)
        /\ \E e \in S : e.value = rollup[r].min
        /\ \E e \in S : e.value = rollup[r].max)
    BY FigureSizes DEF Counting!Exact
  <2> HIDE DEF S, T
  <2>11. /\ Counting!Total(T) <= Counting!Total(S) /\ Cardinality(T) <= Cardinality(S)
         /\ Counting!Total(T) \in Nat /\ Counting!Total(S) \in Nat /\ Cardinality(T) \in Nat /\ Cardinality(S) \in Nat
    BY <2>4, MoreTotal
  <2>12. Counting!Covers(r)'
    BY <2>2, <2>4, <2>5, <2>6, <2>7, <2>11
  <2>13. Counting!NothingIsOld' => Counting!Exact(r)'
    BY <2>1, <2>2, <2>8, <2>9, <2>10
  <2> QED BY <2>12, <2>13
<1> QED BY <1>1, <1>6, <1>7, <1>8, <1>9, <1>14, CommitKeeps

LEMMA TickFiguresStep == ASSUME Counting!AnalyticsAssumption, FiguresInv, Counting!Tick PROVE FiguresInv'
<1>1. date' = date + 1 /\ UNCHANGED <<events, rollup, recorder, recordsLeft>>
  BY DEF Counting!Tick
<1>2. /\ date \in Int /\ FirstDate <= date /\ FirstDate \in Int /\ RollupDays \in [Rollup -> Int]
      /\ \A p \in Policies : p.raw \in Nat /\ p.aggregate \in Nat
  BY DEF FiguresInv, FigureRows, Counting!AnalyticsAssumption
<1>3. date' \in Int /\ FirstDate <= date' /\ \A m \in Int : m <= date => m <= date'
  BY <1>1, <1>2
<1>4. FigureRows'
  BY <1>1, <1>3, FigureSizes DEF FiguresInv, FigureRows
<1>5. TasksHold'
  <2> SUFFICES ASSUME NEW d \in Client
               PROVE  LET s == recorder[d]
                      IN  /\ s.phase # "idle" => FirstDate <= s.began /\ s.began <= date'
                          /\ s.phase = "idle" => s = Counting!Idle
                          /\ s.phase = "recording" => Recording(s, events, rollup)
                          /\ s.phase \in {"pruning", "dropping"} => Pruning(s)
                          /\ \A e \in s.stored : FirstDate <= e.born
    BY <1>1 DEF TasksHold
  <2>1. recorder[d].began \in Int
    BY OneRecorder DEF RecorderTask
  <2> QED BY <1>3, <2>1 DEF FiguresInv, TasksHold
<1>6. NumbersDiffer' /\ LocksHold' /\ EventsHold'
  BY <1>1 DEF FiguresInv, NumbersDiffer, LocksHold, Counting!Holds, EventsHold
<1>7. Counting!RollupsHold'
  <2> SUFFICES ASSUME NEW r \in Rollup, Counting!InEveryWindow(r)'
               PROVE  Counting!Covers(r)' /\ (Counting!NothingIsOld' => Counting!Exact(r)')
    BY DEF Counting!RollupsHold
  <2>1. Counting!InEveryWindow(r)
    BY <1>1, <1>2 DEF Counting!InEveryWindow
  <2>2. Counting!NothingIsOld' => Counting!NothingIsOld
    BY <1>1, <1>2 DEF Counting!NothingIsOld
  <2> QED BY <1>1, <2>1, <2>2 DEF FiguresInv, Counting!RollupsHold, Counting!Covers, Counting!Exact, Counting!Stored
<1> QED BY <1>4, <1>5, <1>6, <1>7 DEF FiguresInv

LEMMA FiguresInvStep ==
    ASSUME Counting!AnalyticsAssumption, FiguresInv, [Counting!Next]_(Counting!vars) PROVE FiguresInv'
<1>1. CASE UNCHANGED Counting!vars
  <2>1. UNCHANGED <<events, rollup, recorder, date, recordsLeft>>
    BY <1>1 DEF Counting!vars
  <2>2. FigureRows'
    BY <2>1, FigureSizes DEF FiguresInv, FigureRows
  <2>3. TasksHold' /\ NumbersDiffer'
    BY <2>1 DEF FiguresInv, TasksHold, NumbersDiffer
  <2>4. LocksHold' /\ EventsHold'
    BY <2>1 DEF FiguresInv, LocksHold, Counting!Holds, EventsHold
  <2>5. Counting!RollupsHold'
    BY <2>1 DEF FiguresInv, Counting!RollupsHold, Counting!Covers, Counting!Exact, Counting!Stored, Counting!InEveryWindow, Counting!NothingIsOld
  <2> QED BY <2>2, <2>3, <2>4, <2>5 DEF FiguresInv
<1>2. CASE Counting!Next
  BY <1>2, BeginBatchStep, RecordEventStep, CommitBatchStep, PruneFiguresStep, ReadDailyStep,
     DropDailyStep, CommitPruneStep, AbortStep, TickFiguresStep DEF Counting!Next
<1> QED BY <1>1, <1>2

LEMMA FiguresMove ==
    ASSUME [SiteNext]_site, Is("figures") PROVE Is("figures")' /\ [Counting!Next]_(Counting!vars)
<1>1. part = "figures" /\ part' = part
  BY PartStays DEF Is
<1>2. CASE SiteNext
  <2>1. Counting!Next \/ UNCHANGED figures
    BY <1>1, <1>2 DEF SiteNext, Is, Others
  <2> QED BY <1>1, <2>1 DEF Is, figures, Counting!vars
<1>3. CASE UNCHANGED site
  BY <1>1, <1>3 DEF Is, site, figures, Counting!vars
<1> QED BY <1>2, <1>3

(* However batches of visitors, prunes and days follow each other, the     *)
(* roll-up of a day that no window has passed covers every event stored of *)
(* it, and is exact until the first of them may have been pruned.          *)
THEOREM RollupsAreExact == SiteSpec => []RollupsHold
<1> DEFINE I == Is("figures") => FiguresInv
<1>0. Counting!AnalyticsAssumption
  BY SiteAssumption
<1>1. SiteInit => I
  BY <1>0, FiguresInvInit DEF SiteInit, Is
<1>2. I /\ [SiteNext]_site => I'
  <2> SUFFICES ASSUME I, [SiteNext]_site, Is("figures") PROVE FiguresInv'
    BY PartStays DEF Is
  <2> QED BY <1>0, FiguresMove, FiguresInvStep
<1>3. I => RollupsHold
  BY DEF RollupsHold, FiguresInv
<1> HIDE DEF I
<1> QED BY <1>1, <1>2, <1>3, PTL DEF SiteSpec

-----------------------------------------------------------------------------
(* A credential that was created has a version to name: without it a type  *)
(* could not be kept, as an answer would tell of version zero.             *)
Numbered == \A i \in Credential : credential[i].state # "none" => credential[i].version > 0

(* Every variable has its type at first: a request between its read and    *)
(* its write works on a credential there is.                               *)
LEMMA CredentialsTypeInit == ASSUME Safe!CredentialsAssumption, Safe!Init PROVE Safe!TypeOK
<1>1. Safe!AnyId \in Credential /\ Safe!AnySecret \in Secret
  BY DEF Safe!CredentialsAssumption, Safe!AnyId, Safe!AnySecret
<1>2. (CHOOSE n \in Name : TRUE) \in Name
  BY DEF Safe!CredentialsAssumption
<1> QED BY <1>1, <1>2 DEF Safe!CredentialsAssumption, Safe!Init, Safe!TypeOK, Safe!Row, Safe!Task, Safe!NoTask

(* Every step keeps the types, where what was created is numbered.         *)
LEMMA CredentialsTypeStep == ASSUME Safe!CredentialsAssumption, Safe!TypeOK, Numbered, [Safe!Next]_(Safe!vars) PROVE Safe!TypeOK'
<1>0. Safe!NoTask \in Safe!Task
  BY DEF Safe!CredentialsAssumption, Safe!NoTask, Safe!AnyId, Safe!AnySecret, Safe!Task
<1> USE DEF Safe!TypeOK, Safe!Row, Safe!Task, Safe!Call, Safe!Active, Safe!Done, Safe!Told
<1>1. CASE \E i \in Credential, n \in Name, s \in Secret : Safe!Create(i, n, s)
  <2> PICK i \in Credential, n \in Name, s \in Secret : Safe!Create(i, n, s)
    BY <1>1
  <2>1. credential' \in [Credential -> Safe!Row] /\ callsLeft' \in 0 .. Calls /\ counter' \in [Client -> Safe!Task]
    BY DEF Safe!Create, Safe!CredentialsAssumption
  <2>2. answers' \subseteq [id : Credential, op : {"create", "rotate", "unseal"},
                           expected : Nat, version : Nat \ {0}, secret : Secret]
    BY DEF Safe!Create
  <2> QED BY <2>1, <2>2
<1>2. CASE \E c \in Client, i \in Credential, s \in Secret :
              \E expected \in 1 .. credential[i].version : Safe!ReadForRotate(c, i, s, expected)
  <2> PICK c \in Client, i \in Credential, s \in Secret :
             \E expected \in 1 .. credential[i].version : Safe!ReadForRotate(c, i, s, expected)
    BY <1>2
  <2> PICK expected \in 1 .. credential[i].version : Safe!ReadForRotate(c, i, s, expected)
    OBVIOUS
  <2> QED BY DEF Safe!ReadForRotate, Safe!CredentialsAssumption
<1>3. CASE \E c \in Client, i \in Credential : Safe!ReadForRevoke(c, i)
  <2> PICK c \in Client, i \in Credential : Safe!ReadForRevoke(c, i)
    BY <1>3
  <2>1. [Safe!NoTask EXCEPT !.op = "revoke", !.id = i] \in Safe!Task
    BY <1>0
  <2> QED BY <2>1 DEF Safe!ReadForRevoke, Safe!CredentialsAssumption
<1>4. ASSUME NEW c \in Client, Safe!Rotate(c) PROVE Safe!TypeOK'
  <2> DEFINE t == counter[c]
  <2>1. t.id \in Credential /\ t.secret \in Secret /\ t.expected \in Nat
    OBVIOUS
  <2>2. credential[t.id] \in Safe!Row /\ credential[t.id].version \in Nat
    BY <2>1
  <2> DEFINE r == [credential[t.id] EXCEPT !.version = @ + 1, !.payload = t.secret]
  <2>3. credential' \in [Credential -> Safe!Row]
    <3>1. r \in Safe!Row
      <4> DEFINE old == credential[t.id]
      <4>1. [old EXCEPT !.version = @ + 1] \in Safe!Row
        BY <2>2
      <4> QED BY <2>1, <4>1
    <3>2. credential' = [credential EXCEPT ![t.id] = r]
      BY <1>4, <2>1, <2>2 DEF Safe!Rotate
    <3> HIDE DEF r
    <3> QED BY <3>1, <3>2
  <2>4. answers' \subseteq [id : Credential, op : {"create", "rotate", "unseal"},
                           expected : Nat, version : Nat \ {0}, secret : Secret]
    BY <1>4, <2>1, <2>2 DEF Safe!Rotate
  <2>5. counter' \in [Client -> Safe!Task] /\ callsLeft' \in 0 .. Calls
    BY <1>0, <1>4 DEF Safe!Rotate
  <2> QED BY <2>3, <2>4, <2>5
<1>5. ASSUME NEW c \in Client, Safe!Revoke(c) PROVE Safe!TypeOK'
  <2> DEFINE i == counter[c].id
  <2>1. i \in Credential /\ credential[i] \in Safe!Row
    OBVIOUS
  <2>2. credential' \in [Credential -> Safe!Row]
    BY <1>5, <2>1 DEF Safe!Revoke
  <2>3. counter' \in [Client -> Safe!Task]
    BY <1>0, <1>5 DEF Safe!Revoke
  <2> QED BY <1>5, <2>2, <2>3 DEF Safe!Revoke
<1>6. ASSUME NEW c \in Client, Safe!Fail(c) PROVE Safe!TypeOK'
  BY <1>0, <1>6 DEF Safe!Fail
<1>7. CASE \E i \in Credential : Safe!Unseal(i)
  <2> PICK i \in Credential : Safe!Unseal(i)
    BY <1>7
  <2>1. credential[i] \in Safe!Row
    OBVIOUS
  <2>2. credential[i].version \in Nat \ {0}
    BY DEF Safe!Unseal, Numbered
  <2>3. answers' \subseteq [id : Credential, op : {"create", "rotate", "unseal"},
                           expected : Nat, version : Nat \ {0}, secret : Secret]
    BY <2>1, <2>2 DEF Safe!Unseal
  <2> QED BY <2>3 DEF Safe!Unseal, Safe!CredentialsAssumption
<1>8. CASE UNCHANGED Safe!vars
  BY <1>8 DEF Safe!vars
<1> QED BY <1>1, <1>2, <1>3, <1>4, <1>5, <1>6, <1>7, <1>8 DEF Safe!Next

(* A creation numbers its row one, and no other step lowers a number.      *)
LEMMA NumberedStep ==
    ASSUME Safe!CredentialsAssumption, Safe!TypeOK, Numbered, [Safe!Next]_(Safe!vars) PROVE Numbered'
<1>0. credential \in [Credential -> Safe!Row] /\ \A j \in Credential : credential[j].version \in Nat
  BY DEF Safe!TypeOK, Safe!Row
<1>1. CASE \E i \in Credential, n \in Name, s \in Secret : Safe!Create(i, n, s)
  <2> PICK i \in Credential, n \in Name, s \in Secret : Safe!Create(i, n, s)
    BY <1>1
  <2>1. /\ credential'[i].version = 1
        /\ \A j \in Credential : j # i => credential'[j] = credential[j]
    BY <1>0 DEF Safe!Create
  <2> QED BY <2>1 DEF Numbered
<1>2. ASSUME NEW c \in Client, Safe!Rotate(c) PROVE Numbered'
  <2> DEFINE i == counter[c].id
  <2>1. i \in Credential
    BY DEF Safe!TypeOK, Safe!Task
  <2>2. /\ credential'[i].version = credential[i].version + 1
        /\ \A j \in Credential : j # i => credential'[j] = credential[j]
    BY <1>0, <1>2, <2>1 DEF Safe!Rotate, Safe!Row
  <2> QED BY <1>0, <2>1, <2>2 DEF Numbered
<1>3. ASSUME NEW c \in Client, Safe!Revoke(c) PROVE Numbered'
  <2> DEFINE i == counter[c].id
  <2>1. i \in Credential
    BY DEF Safe!TypeOK, Safe!Task
  <2>2. CASE ~Safe!Active(i)
    BY <1>3, <2>2 DEF Safe!Revoke, Numbered
  <2>3. CASE Safe!Active(i)
    <3>1. /\ credential'[i].version = credential[i].version + 1
          /\ \A j \in Credential : j # i => credential'[j] = credential[j]
      BY <1>0, <1>3, <2>1, <2>3 DEF Safe!Revoke, Safe!Row
    <3> QED BY <1>0, <2>1, <3>1 DEF Numbered
  <2> QED BY <2>2, <2>3
<1>4. CASE credential' = credential
  BY <1>4 DEF Numbered
<1> QED BY <1>1, <1>2, <1>3, <1>4 DEF Safe!Next, Safe!vars, Safe!ReadForRotate, Safe!ReadForRevoke, Safe!Fail, Safe!Unseal

-----------------------------------------------------------------------------
(* What was answered follows the row: it was told of a version the row has *)
(* reached, and of the payload the row has while it is at that version.    *)
(* This is why a new version is never one that somebody has been told of.  *)
AnswersFollow ==
    \A a \in answers :
        /\ credential[a.id].state # "none"
        /\ a.version <= credential[a.id].version
        /\ a.version = credential[a.id].version => a.secret = credential[a.id].payload

CredentialsInv == Safe!TypeOK /\ Numbered /\ Safe!VersionsHold /\ AnswersFollow

(* An answer about the row as it is, given where AnswersFollow held of the *)
(* rest, agrees with every earlier one.                                    *)
LEMMA Answered ==
    ASSUME CredentialsInv, Safe!TypeOK', Numbered', NEW new, answers' = answers \cup {new},
           new.id \in Credential, new.version \in Nat,
           new.op = "rotate" => new.version = new.expected + 1,
           credential'[new.id].state # "none",
           credential'[new.id].version = new.version,
           credential'[new.id].payload = new.secret,
           \A j \in Credential : j # new.id => credential'[j] = credential[j],
           \A a \in answers : a.id = new.id =>
               a.version <= new.version /\ (a.version = new.version => a.secret = new.secret)
    PROVE  CredentialsInv'
<1>2. \A a \in answers : a.id \in Credential /\ a.version \in Nat
  BY DEF CredentialsInv, Safe!TypeOK
<1>4. Safe!VersionsHold'
  <2>1. \A a, b \in answers' : a.id = b.id /\ a.version = b.version => a.secret = b.secret
    BY DEF CredentialsInv, Safe!VersionsHold
  <2>2. \A a \in answers' : a.op = "rotate" => a.version = a.expected + 1
    BY DEF CredentialsInv, Safe!VersionsHold
  <2> QED BY <2>1, <2>2 DEF Safe!VersionsHold
<1>5. AnswersFollow'
  <2> SUFFICES ASSUME NEW a \in answers'
               PROVE  /\ credential'[a.id].state # "none"
                      /\ a.version <= credential'[a.id].version
                      /\ a.version = credential'[a.id].version
                             => a.secret = credential'[a.id].payload
    BY DEF AnswersFollow
  <2>1. CASE a = new
    BY <2>1
  <2>2. CASE a \in answers /\ a.id = new.id
    BY <2>2
  <2>3. CASE a \in answers /\ a.id # new.id
    BY <2>3, <1>2 DEF CredentialsInv, AnswersFollow
  <2> QED BY <2>1, <2>2, <2>3
<1> QED BY <1>4, <1>5 DEF CredentialsInv

LEMMA CredentialsInvInit == ASSUME Safe!CredentialsAssumption, Safe!Init PROVE CredentialsInv
BY CredentialsTypeInit DEF Safe!Init, CredentialsInv, Numbered, Safe!VersionsHold, AnswersFollow

(* A step that answers nobody and leaves the credentials as they are.      *)
LEMMA SilentOnCredentials ==
    ASSUME CredentialsInv, Safe!TypeOK', Numbered', UNCHANGED <<credential, answers>>
    PROVE  CredentialsInv' /\ Safe!RevokedStays
BY DEF CredentialsInv, Safe!VersionsHold, AnswersFollow, Safe!RevokedStays

LEMMA CredentialsInvStep ==
    ASSUME Safe!CredentialsAssumption, CredentialsInv, [Safe!Next]_(Safe!vars)
    PROVE  CredentialsInv' /\ Safe!RevokedStays
<1>0. Safe!TypeOK /\ Safe!TypeOK' /\ Numbered'
  BY CredentialsTypeStep, NumberedStep DEF CredentialsInv
<1>a. /\ credential \in [Credential -> Safe!Row]
      /\ \A j \in Credential : credential[j].version \in Nat
      /\ \A a \in answers : a.id \in Credential /\ a.version \in Nat
  BY <1>0 DEF Safe!TypeOK, Safe!Row
<1>1. CASE \E i \in Credential, n \in Name, s \in Secret : Safe!Create(i, n, s)
  <2> PICK i \in Credential, n \in Name, s \in Secret : Safe!Create(i, n, s)
    BY <1>1
  <2> DEFINE r == [state |-> "active", name |-> n, version |-> 1, payload |-> s]
  <2>1. credential' = [credential EXCEPT ![i] = r] /\ Safe!Told(i, "create", 0, 1, s)
    BY DEF Safe!Create
  <2>2. credential'[i] = r /\ \A j \in Credential : j # i => credential'[j] = credential[j]
    BY <2>1, <1>a
  <2>3. credential[i].state = "none"
    BY DEF Safe!Create
  <2>4. \A a \in answers : a.id # i
    BY <2>3 DEF CredentialsInv, AnswersFollow
  <2>5. CredentialsInv'
    <3> DEFINE new == [id |-> i, op |-> "create", expected |-> 0, version |-> 1, secret |-> s]
    <3>1. answers' = answers \cup {new}
      BY <2>1 DEF Safe!Told
    <3>2. /\ new.id = i /\ new.op # "rotate" /\ new.version = 1 /\ new.secret = s
          /\ r.state # "none" /\ r.version = 1 /\ r.payload = s
      OBVIOUS
    <3> HIDE DEF new, r
    <3> QED BY <1>0, <2>2, <2>4, <3>1, <3>2, Answered
  <2>6. Safe!RevokedStays
    BY <2>2, <2>3 DEF Safe!RevokedStays
  <2> QED BY <2>5, <2>6
<1>2. CASE \E c \in Client, i \in Credential, s \in Secret :
              \E expected \in 1 .. credential[i].version : Safe!ReadForRotate(c, i, s, expected)
  BY <1>0, <1>2, SilentOnCredentials DEF Safe!ReadForRotate
<1>3. CASE \E c \in Client, i \in Credential : Safe!ReadForRevoke(c, i)
  BY <1>0, <1>3, SilentOnCredentials DEF Safe!ReadForRevoke
<1>4. ASSUME NEW c \in Client, Safe!Rotate(c) PROVE CredentialsInv' /\ Safe!RevokedStays
  <2> DEFINE t == counter[c]
             i == t.id
             v == credential[i].version + 1
  <2>1. i \in Credential /\ t.expected \in Nat /\ v \in Nat
    BY <1>0, <1>a DEF Safe!TypeOK, Safe!Task
  <2>2. /\ credential[i].state = "active" /\ credential[i].version = t.expected
        /\ Safe!Told(i, "rotate", t.expected, v, t.secret)
    BY <1>4 DEF Safe!Rotate, Safe!Replaces, Safe!Active
  <2>3. /\ credential'[i].state = "active" /\ credential'[i].version = v
        /\ credential'[i].payload = t.secret
        /\ \A j \in Credential : j # i => credential'[j] = credential[j]
    BY <1>4, <1>a, <2>1, <2>2 DEF Safe!Rotate, Safe!Row
  <2>4. \A a \in answers : a.id = i => a.version < v
    BY <1>a, <2>1 DEF CredentialsInv, AnswersFollow
  <2> HIDE DEF i, v, t
  <2>5. CredentialsInv'
    <3>1. \A a \in answers : a.id = i => a.version <= v /\ (a.version = v => a.secret = t.secret)
      BY <1>a, <2>1, <2>4
    <3>2. v = t.expected + 1
      BY <2>2 DEF v
    <3> DEFINE new == [id |-> i, op |-> "rotate", expected |-> t.expected, version |-> v,
                       secret |-> t.secret]
    <3>3. answers' = answers \cup {new}
      BY <2>2 DEF Safe!Told
    <3>4. new.id = i /\ new.version = v /\ new.expected = t.expected /\ new.secret = t.secret
      OBVIOUS
    <3> HIDE DEF new
    <3> QED BY <1>0, <2>1, <2>3, <3>1, <3>2, <3>3, <3>4, Answered
  <2>6. Safe!RevokedStays
    BY <2>2, <2>3 DEF Safe!RevokedStays
  <2> QED BY <2>5, <2>6
<1>5. ASSUME NEW c \in Client, Safe!Revoke(c) PROVE CredentialsInv' /\ Safe!RevokedStays
  <2> DEFINE i == counter[c].id
  <2>1. i \in Credential /\ answers' = answers
    BY <1>0, <1>5 DEF Safe!Revoke, Safe!TypeOK, Safe!Task
  <2>2. CASE ~Safe!Active(i)
    BY <1>0, <1>5, <2>1, <2>2, SilentOnCredentials DEF Safe!Revoke
  <2>3. CASE Safe!Active(i)
    <3>1. /\ credential'[i].state = "revoked" /\ credential'[i].version = credential[i].version + 1
          /\ \A j \in Credential : j # i => credential'[j] = credential[j]
      BY <1>5, <1>a, <2>1, <2>3 DEF Safe!Revoke, Safe!Row
    <3> HIDE DEF i
    <3>2. Safe!VersionsHold'
      BY <2>1 DEF CredentialsInv, Safe!VersionsHold
    <3>3. AnswersFollow'
      <4> SUFFICES ASSUME NEW a \in answers
                   PROVE  /\ credential'[a.id].state # "none"
                          /\ a.version <= credential'[a.id].version
                          /\ a.version = credential'[a.id].version
                                 => a.secret = credential'[a.id].payload
        BY <2>1 DEF AnswersFollow
      <4>1. CASE a.id = i
        BY <1>a, <2>1, <3>1, <4>1 DEF CredentialsInv, AnswersFollow
      <4>2. CASE a.id # i
        BY <1>a, <3>1, <4>2 DEF CredentialsInv, AnswersFollow
      <4> QED BY <4>1, <4>2
    <3>4. Safe!RevokedStays
      BY <2>3, <3>1 DEF Safe!RevokedStays, Safe!Active
    <3> QED BY <1>0, <3>2, <3>3, <3>4 DEF CredentialsInv
  <2> QED BY <2>2, <2>3
<1>6. ASSUME NEW c \in Client, Safe!Fail(c) PROVE CredentialsInv' /\ Safe!RevokedStays
  BY <1>0, <1>6, SilentOnCredentials DEF Safe!Fail
<1>7. CASE \E i \in Credential : Safe!Unseal(i)
  <2> PICK i \in Credential : Safe!Unseal(i)
    BY <1>7
  <2>1. /\ credential' = credential /\ credential[i].state = "active"
        /\ Safe!Told(i, "unseal", 0, credential[i].version, credential[i].payload)
    BY DEF Safe!Unseal, Safe!Active
  <2>2. \A a \in answers : a.id = i =>
            /\ a.version <= credential[i].version
            /\ a.version = credential[i].version => a.secret = credential[i].payload
    BY DEF CredentialsInv, AnswersFollow
  <2>3. credential[i].version \in Nat
    BY <1>a
  <2>4. CredentialsInv'
    <3> DEFINE new == [id |-> i, op |-> "unseal", expected |-> 0,
                       version |-> credential[i].version, secret |-> credential[i].payload]
    <3>1. answers' = answers \cup {new}
      BY <2>1 DEF Safe!Told
    <3>2. /\ new.id = i /\ new.op # "rotate" /\ new.version = credential[i].version
          /\ new.secret = credential[i].payload
      OBVIOUS
    <3> HIDE DEF new
    <3> QED BY <1>0, <2>1, <2>2, <2>3, <3>1, <3>2, Answered
  <2> QED BY <2>1, <2>4 DEF Safe!RevokedStays
<1>8. CASE UNCHANGED Safe!vars
  BY <1>0, <1>8, SilentOnCredentials DEF Safe!vars
<1> QED BY <1>1, <1>2, <1>3, <1>4, <1>5, <1>6, <1>7, <1>8 DEF Safe!Next

LEMMA SealedMoves ==
    ASSUME [SiteNext]_site, Is("sealed") PROVE Is("sealed")' /\ [Safe!Next]_(Safe!vars)
<1>1. part = "sealed" /\ part' = part
  BY PartStays DEF Is
<1>2. CASE SiteNext
  <2>1. Safe!Next \/ UNCHANGED sealed
    BY <1>1, <1>2 DEF SiteNext, Is, Others
  <2> QED BY <1>1, <2>1 DEF Is, sealed, Safe!vars
<1>3. CASE UNCHANGED site
  BY <1>1, <1>3 DEF Is, site, sealed, Safe!vars
<1> QED BY <1>2, <1>3

(* Of rotations that overlap one replaces the version its client named, a  *)
(* version never has two payloads, and no step touches what is revoked.    *)
THEOREM CredentialsHold == SiteSpec => CredentialsStep
<1> DEFINE I == Is("sealed") => CredentialsInv
<1>0. Safe!CredentialsAssumption
  BY SiteAssumption
<1>1. SiteInit => I
  BY <1>0, CredentialsInvInit DEF SiteInit, Is
<1>2. I /\ [SiteNext]_site => I' /\ [Is("sealed") => Safe!CredentialsStep]_sealed
  <2> SUFFICES ASSUME I, [SiteNext]_site
               PROVE  I' /\ (Is("sealed") => Safe!CredentialsStep)
    OBVIOUS
  <2>1. CASE Is("sealed")
    <3>1. Is("sealed")' /\ [Safe!Next]_(Safe!vars)
      BY <2>1, SealedMoves
    <3>2. CredentialsInv' /\ Safe!RevokedStays
      BY <1>0, <2>1, <3>1, CredentialsInvStep
    <3> QED BY <3>1, <3>2 DEF CredentialsInv, Safe!CredentialsStep
  <2>2. CASE ~Is("sealed")
    BY <2>2, PartStays DEF Is
  <2> QED BY <2>1, <2>2
<1> HIDE DEF I
<1> QED BY <1>1, <1>2, PTL DEF SiteSpec, CredentialsStep

-----------------------------------------------------------------------------
ItemRow == [phase : {"none", "live", "trash"}, revision : Nat, status : {"draft", "scheduled"}]
NodeRow == [phase : {"none", "live", "trash"}, parent : Node \cup {Nowhere}]

(* What is known of a bundle while it is read.                             *)
IsBundle(b) ==
    /\ b \in [from : {b.from}, tongues : {b.tongues}, nodes : {b.nodes}, parent : {b.parent},
               items : {b.items}, revision : {b.revision}, status : {b.status},
               archive : {b.archive}, labels : {b.labels}, torn : {b.torn}]
    /\ b.nodes \subseteq Node /\ b.parent \in [Node -> Node \cup {Nowhere}]
    /\ b.items \subseteq Item /\ b.revision \in [Item -> Nat]
    /\ b.status \in [Item -> {"draft", "scheduled"}] /\ b.archive \in [Item -> SUBSET Nat]

(* The revisions of a bundle are none that its entry has yet to come to,   *)
(* but for entries that were edited while it was read.                     *)
Abreast(b) == \A i \in b.items \ b.torn : \A k \in b.archive[i] : k <= b.revision[i]

(* An export that has read the entries has their current numbers, but for  *)
(* what was edited since; when it has the revisions, they are abreast.     *)
ReadingFollows(s) ==
    /\ reading[s] \in [section : Copying!Section, got : {reading[s].got}]
    /\ IsBundle(reading[s].got)
    /\ reading[s].section = "revisions" =>
          \A i \in reading[s].got.items \ (torn[s] \cup behind[s]) :
             item[s][i].phase # "none" /\ reading[s].got.revision[i] = item[s][i].revision
    /\ reading[s].section \in {"assignments", "checks"} => Abreast(reading[s].got)

Archived(s) ==
    \A i \in Item :
        /\ item[s][i].phase = "none" => archive[s][i] = {}
        /\ item[s][i].phase # "none" =>
              /\ item[s][i].revision \in archive[s][i]
              /\ i \notin behind[s] => \A k \in archive[s][i] : k <= item[s][i].revision

Labelled(s) ==
    /\ label[s] \subseteq Item \X Node
    /\ \A l \in label[s] : item[s][l[1]].phase # "none" /\ tree[s][l[2]].phase = "live"

SiteRows(s) ==
    /\ item[s] \in [Item -> ItemRow] /\ archive[s] \in [Item -> SUBSET Nat]
    /\ tree[s] \in [Node -> NodeRow]

SiteHolds(s) == SiteRows(s) /\ Archived(s) /\ Labelled(s) /\ ReadingFollows(s)

BySite ==
    /\ item = [s \in Place |-> item[s]] /\ archive = [s \in Place |-> archive[s]]
    /\ tree = [s \in Place |-> tree[s]] /\ label = [s \in Place |-> label[s]]
    /\ reading = [s \in Place |-> reading[s]] /\ torn = [s \in Place |-> torn[s]]
    /\ behind = [s \in Place |-> behind[s]]

PortableInv ==
    /\ BySite /\ \A s \in Place : SiteHolds(s)
    /\ IsBundle(bundle) /\ Abreast(bundle)

LEMMA EmptyIsBundle == IsBundle(Copying!Empty) /\ Copying!Empty.items = {} /\ Copying!Empty.from = Nowhere
<1>1. /\ Copying!Empty \in [from : {Copying!Empty.from}, tongues : {Copying!Empty.tongues}, nodes : {Copying!Empty.nodes},
                    parent : {Copying!Empty.parent}, items : {Copying!Empty.items}, revision : {Copying!Empty.revision},
                    status : {Copying!Empty.status}, archive : {Copying!Empty.archive}, labels : {Copying!Empty.labels},
                    torn : {Copying!Empty.torn}]
      /\ Copying!Empty.nodes = {} /\ Copying!Empty.items = {} /\ Copying!Empty.from = Nowhere
      /\ Copying!Empty.parent = [n \in Node |-> Nowhere] /\ Copying!Empty.revision = [i \in Item |-> 0]
      /\ Copying!Empty.status = [i \in Item |-> "draft"] /\ Copying!Empty.archive = [i \in Item |-> {}]
  BY DEF Copying!Empty
<1> QED BY <1>1 DEF IsBundle

LEMMA IdleReads == Copying!Idle \in [section : Copying!Section, got : {Copying!Idle.got}] /\ Copying!Idle.section = "languages" /\ Copying!Idle.got = Copying!Empty
BY DEF Copying!Idle, Copying!Section

LEMMA PortableInvInit == ASSUME Copying!PortableAssumption, Copying!Init PROVE PortableInv
<1>1. BySite
  BY DEF Copying!Init, BySite, Copying!PortableAssumption
<1>2. ASSUME NEW s \in Place PROVE SiteHolds(s)
  <2>1. SiteRows(s)
    BY DEF Copying!Init, SiteRows, ItemRow, NodeRow
  <2>2. Archived(s) /\ Labelled(s)
    BY DEF Copying!Init, Archived, Labelled
  <2>3. reading[s] = Copying!Idle
    BY DEF Copying!Init
  <2>4. ReadingFollows(s)
    BY <2>3, IdleReads, EmptyIsBundle DEF ReadingFollows
  <2> QED BY <2>1, <2>2, <2>4 DEF SiteHolds
<1>3. IsBundle(bundle) /\ Abreast(bundle)
  BY EmptyIsBundle DEF Copying!Init, Abreast
<1> QED BY <1>1, <1>2, <1>3 DEF PortableInv

LEMMA PortableInvHolds == ASSUME PortableInv PROVE Copying!ImportsHold
<1> SUFFICES ASSUME NEW s \in Place
             PROVE  /\ \A i \in Copying!LiveItems(s) :
                         /\ item[s][i].revision \in archive[s][i]
                         /\ item[s][i].revision + 1 \in archive[s][i] => i \in behind[s]
                    /\ \A l \in label[s] : item[s][l[1]].phase # "none" /\ l[2] \in Copying!LiveNodes(s)
  BY DEF Copying!ImportsHold
<1>0. SiteRows(s) /\ Archived(s) /\ Labelled(s)
  BY DEF PortableInv, SiteHolds
<1>1. ASSUME NEW i \in Copying!LiveItems(s)
      PROVE  /\ item[s][i].revision \in archive[s][i]
             /\ item[s][i].revision + 1 \in archive[s][i] => i \in behind[s]
  <2>1. i \in Item /\ item[s][i].phase = "live" /\ item[s][i].revision \in Nat
    BY <1>0 DEF Copying!LiveItems, SiteRows, ItemRow
  <2>2. item[s][i].revision \in archive[s][i]
    BY <1>0, <2>1 DEF Archived
  <2>3. i \notin behind[s] => \A k \in archive[s][i] : k <= item[s][i].revision
    BY <1>0, <2>1 DEF Archived
  <2>4. ~(item[s][i].revision + 1 <= item[s][i].revision)
    BY <2>1
  <2> QED BY <2>2, <2>3, <2>4
<1>2. ASSUME NEW l \in label[s] PROVE item[s][l[1]].phase # "none" /\ l[2] \in Copying!LiveNodes(s)
  BY <1>0 DEF Labelled, Copying!LiveNodes
<1> QED BY <1>1, <1>2

(* One site moves, and the bundle that was handed out stays one.           *)
LEMMA OneSiteStep ==
    ASSUME PortableInv, BySite', NEW s \in Place, SiteHolds(s)',
           \A t \in Place : t # s =>
               /\ item'[t] = item[t] /\ archive'[t] = archive[t] /\ tree'[t] = tree[t]
               /\ label'[t] = label[t] /\ reading'[t] = reading[t] /\ torn'[t] = torn[t]
               /\ behind'[t] = behind[t],
           IsBundle(bundle'), Abreast(bundle')
    PROVE  PortableInv'
<1>1. ASSUME NEW t \in Place, t # s PROVE SiteHolds(t)'
  <2>1. SiteHolds(t)
    BY DEF PortableInv
  <2> QED BY <1>1, <2>1 DEF SiteHolds, SiteRows, Archived, Labelled, ReadingFollows
<1>2. \A t \in Place : SiteHolds(t)'
  BY <1>1
<1> QED BY <1>2 DEF PortableInv, IsBundle, Abreast

(* An export that is under way goes on being right.                        *)
LEMMA ReadingStays ==
    ASSUME NEW s \in Place, SiteHolds(s), reading'[s] = reading[s],
           torn[s] \subseteq torn'[s], behind[s] \subseteq behind'[s],
           reading[s].section = "revisions" =>
               \A i \in Item : i \notin torn'[s] /\ i \notin behind'[s] /\ item[s][i].phase # "none" =>
                   item'[s][i].phase # "none" /\ item'[s][i].revision = item[s][i].revision
    PROVE  ReadingFollows(s)'
<1>1. ReadingFollows(s)
  BY DEF SiteHolds
<1>2. reading'[s] \in [section : Copying!Section, got : {reading'[s].got}] /\ IsBundle(reading'[s].got)
  BY <1>1 DEF ReadingFollows
<1>3. reading'[s].section \in {"assignments", "checks"} => Abreast(reading'[s].got)
  BY <1>1 DEF ReadingFollows
<1>4. ASSUME reading[s].section = "revisions",
             NEW i \in reading[s].got.items, i \notin torn'[s], i \notin behind'[s]
      PROVE  item'[s][i].phase # "none" /\ reading[s].got.revision[i] = item'[s][i].revision
  <2>1. i \in Item
    BY <1>1 DEF ReadingFollows, IsBundle
  <2>2. item[s][i].phase # "none" /\ reading[s].got.revision[i] = item[s][i].revision
    BY <1>1, <1>4 DEF ReadingFollows
  <2> QED BY <1>4, <2>1, <2>2
<1> QED BY <1>2, <1>3, <1>4 DEF ReadingFollows, IsBundle, Abreast

(* Work on entries and categories, which leaves exports alone.             *)
LEMMA WorkStep ==
    ASSUME PortableInv, NEW s \in Place, UNCHANGED <<reading, bundle, behind>>, BySite',
           \A t \in Place : t # s =>
               /\ item'[t] = item[t] /\ archive'[t] = archive[t] /\ tree'[t] = tree[t]
               /\ label'[t] = label[t] /\ torn'[t] = torn[t],
           SiteRows(s)', Archived(s)', Labelled(s)', torn[s] \subseteq torn'[s],
           \A i \in Item : item[s][i].phase # "none" =>
               \/ reading[s].section = "revisions" /\ i \in torn'[s]
               \/ item'[s][i].phase # "none" /\ item'[s][i].revision = item[s][i].revision
               \/ reading[s].section # "revisions"
    PROVE  PortableInv'
<1>1. SiteHolds(s)
  BY DEF PortableInv
<1>2. ReadingFollows(s)'
  BY <1>1, ReadingStays
<1>3. SiteHolds(s)'
  BY <1>2 DEF SiteHolds
<1>4. IsBundle(bundle') /\ Abreast(bundle')
  BY DEF PortableInv
<1> QED BY <1>3, <1>4, OneSiteStep

LEMMA EntryEditStep ==
    ASSUME PortableInv, NEW s \in Place, NEW i \in Item, NEW status \in {"draft", "scheduled"}, Copying!Edit(s, i, status)
    PROVE  PortableInv'
<1> DEFINE next == item[s][i].revision + 1
           new  == [phase |-> "live", revision |-> next, status |-> status]
<1>0. SiteRows(s) /\ Archived(s) /\ Labelled(s) /\ BySite
  BY DEF PortableInv, SiteHolds
<1>1. /\ item' = [item EXCEPT ![s][i] = new] /\ archive' = [archive EXCEPT ![s][i] = @ \cup {next}]
      /\ torn' = [torn EXCEPT ![s] = IF reading[s].section = "revisions" THEN @ \cup {i} ELSE @]
      /\ UNCHANGED <<tree, label, reading, bundle, behind>>
  BY DEF Copying!Edit, Copying!Work
<1>2. next \in Nat /\ new \in ItemRow /\ new.phase = "live" /\ new.revision = next
      /\ item[s][i].revision \in Nat
  BY <1>0 DEF SiteRows, ItemRow
<1> HIDE DEF next, new
<1>3. item'[s] = [item[s] EXCEPT ![i] = new] /\ archive'[s] = [archive[s] EXCEPT ![i] = @ \cup {next}]
  BY <1>0, <1>1 DEF BySite
<1>4. \A t \in Place : t # s => /\ item'[t] = item[t] /\ archive'[t] = archive[t] /\ torn'[t] = torn[t]
  BY <1>0, <1>1 DEF BySite
<1>5. BySite'
  BY <1>0, <1>1 DEF BySite
<1>6. torn'[s] = IF reading[s].section = "revisions" THEN torn[s] \cup {i} ELSE torn[s]
  BY <1>0, <1>1 DEF BySite
<1>7. SiteRows(s)'
  BY <1>0, <1>1, <1>2, <1>3 DEF SiteRows
<1>8. \A j \in Item : j # i => item'[s][j] = item[s][j] /\ archive'[s][j] = archive[s][j]
  BY <1>0, <1>3 DEF SiteRows
<1>9. item'[s][i] = new /\ archive'[s][i] = archive[s][i] \cup {next}
  BY <1>0, <1>3 DEF SiteRows
<1>10. Archived(s)'
  <2>1. i \notin behind[s] => \A k \in archive[s][i] : k <= next
    <3>1. archive[s][i] \subseteq Nat
      BY <1>0 DEF SiteRows
    <3>2. i \notin behind[s] => \A k \in archive[s][i] : k <= item[s][i].revision
      BY <1>0 DEF Archived
    <3> QED BY <1>2, <3>1, <3>2 DEF next
  <2> QED BY <1>0, <1>1, <1>2, <1>8, <1>9, <2>1 DEF Archived
<1>11. Labelled(s)'
  BY <1>0, <1>1, <1>2, <1>8, <1>9 DEF Labelled
<1> QED BY <1>1, <1>4, <1>5, <1>6, <1>7, <1>8, <1>10, <1>11, WorkStep

(* An entry goes to the trash or comes back.                               *)
LEMMA ItemStep ==
    ASSUME PortableInv, NEW s \in Place, NEW i \in Item, Copying!TrashItem(s, i) \/ Copying!RestoreItem(s, i)
    PROVE  PortableInv'
<1>0. SiteRows(s) /\ Archived(s) /\ Labelled(s) /\ BySite
  BY DEF PortableInv, SiteHolds
<1>1. PICK phase \in {"live", "trash"} :
      /\ item' = [item EXCEPT ![s][i].phase = phase] /\ item[s][i].phase # "none"
      /\ UNCHANGED <<archive, tree, label, torn, reading, bundle, behind>>
  BY DEF Copying!TrashItem, Copying!RestoreItem, Copying!LiveItems, Copying!Work
<1> DEFINE mine == [item[s][i] EXCEPT !.phase = phase]
<1>2. mine \in ItemRow /\ mine.phase = phase /\ mine.revision = item[s][i].revision
  BY <1>0 DEF SiteRows, ItemRow
<1>3. item' = [item EXCEPT ![s] = [item[s] EXCEPT ![i] = mine]]
  BY <1>0, <1>1 DEF BySite
<1> HIDE DEF mine
<1>4. BySite' /\ \A t \in Place : t # s => item'[t] = item[t]
  BY <1>0, <1>1, <1>3 DEF BySite
<1>5. item'[s] = [item[s] EXCEPT ![i] = mine]
  BY <1>0, <1>3 DEF BySite
<1>6. SiteRows(s)'
  BY <1>0, <1>1, <1>2, <1>5 DEF SiteRows
<1>7. \A j \in Item : /\ item'[s][j].phase = "none" <=> item[s][j].phase = "none"
                      /\ item'[s][j].revision = item[s][j].revision
  BY <1>0, <1>1, <1>2, <1>5 DEF SiteRows
<1>8. Archived(s)' /\ Labelled(s)'
  BY <1>0, <1>1, <1>7 DEF Archived, Labelled
<1> QED BY <1>1, <1>4, <1>6, <1>7, <1>8, WorkStep

(* What a change of one category leaves.                                   *)
TreeMoved(s) ==
    /\ BySite'
    /\ tree'[s] \in [Node -> NodeRow]
    /\ \A t \in Place : t # s => tree'[t] = tree[t] /\ label'[t] = label[t]
    /\ label'[s] \subseteq label[s]
    /\ \A l \in label'[s] : tree'[s][l[2]].phase = "live"

(* A category comes, goes to the trash with what it was on, or comes back. *)
LEMMA NodeStep ==
    ASSUME PortableInv, NEW s \in Place, NEW n \in Node, NEW p \in Node \cup {Nowhere},
           Copying!TrashNode(s, n) \/ Copying!RestoreNode(s, n) \/ Copying!Plant(s, n, p)
    PROVE  PortableInv'
<1>0. SiteRows(s) /\ Archived(s) /\ Labelled(s) /\ BySite
  BY DEF PortableInv, SiteHolds
<1>1. UNCHANGED <<item, archive, torn, reading, bundle, behind>>
  BY DEF Copying!TrashNode, Copying!RestoreNode, Copying!Plant, Copying!Work
<1>2. TreeMoved(s)
  <2>1. CASE Copying!TrashNode(s, n)
    <3> DEFINE off(m) == [tree[s][m] EXCEPT !.phase = "trash"]
               up(m)  == [tree[s][m] EXCEPT !.parent = Nowhere]
               to     == [m \in Node |-> IF m = n THEN off(m)
                             ELSE IF tree[s][m].phase = "live" /\ tree[s][m].parent = n THEN up(m)
                             ELSE tree[s][m]]
    <3>1. tree' = [tree EXCEPT ![s] = to] /\ label' = [label EXCEPT ![s] = {l \in @ : l[2] # n}]
      BY <2>1 DEF Copying!TrashNode
    <3>2. ASSUME NEW m \in Node
          PROVE  off(m) \in NodeRow /\ up(m) \in NodeRow /\ up(m).phase = tree[s][m].phase
      BY <1>0 DEF SiteRows, NodeRow
    <3> HIDE DEF off, up
    <3>3. to \in [Node -> NodeRow]
      BY <1>0, <3>2 DEF SiteRows
    <3>4. \A m \in Node : m # n /\ tree[s][m].phase = "live" => to[m].phase = "live"
      BY <3>2
    <3> HIDE DEF to
    <3>5. BySite' /\ tree'[s] = to /\ label'[s] = {l \in label[s] : l[2] # n}
      BY <1>0, <1>1, <3>1 DEF BySite
    <3>6. \A t \in Place : t # s => tree'[t] = tree[t] /\ label'[t] = label[t]
      BY <1>0, <3>1 DEF BySite
    <3>7. \A l \in label'[s] : tree'[s][l[2]].phase = "live"
      BY <1>0, <3>4, <3>5 DEF Labelled
    <3> QED BY <3>3, <3>5, <3>6, <3>7 DEF TreeMoved
  <2>2. ASSUME NEW mine \in NodeRow, mine.phase = "live", tree' = [tree EXCEPT ![s] = [tree[s] EXCEPT ![n] = mine]],
               label' = label
        PROVE  TreeMoved(s)
    <3>1. BySite' /\ tree'[s] = [tree[s] EXCEPT ![n] = mine] /\ \A t \in Place : t # s => tree'[t] = tree[t]
      BY <1>0, <1>1, <2>2 DEF BySite
    <3>2. tree'[s] \in [Node -> NodeRow]
      BY <1>0, <3>1 DEF SiteRows
    <3>3. \A l \in label'[s] : tree'[s][l[2]].phase = "live"
      BY <1>0, <2>2, <3>1 DEF Labelled, SiteRows
    <3> QED BY <2>2, <3>1, <3>2, <3>3 DEF TreeMoved
  <2>3. CASE Copying!RestoreNode(s, n)
    <3> DEFINE mine == [tree[s][n] EXCEPT !.phase = "live"]
    <3>1. mine \in NodeRow /\ mine.phase = "live"
      BY <1>0 DEF SiteRows, NodeRow
    <3>2. tree' = [tree EXCEPT ![s] = [tree[s] EXCEPT ![n] = mine]] /\ label' = label
      BY <1>0, <2>3 DEF Copying!RestoreNode, BySite
    <3> HIDE DEF mine
    <3> QED BY <3>1, <3>2, <2>2
  <2>4. CASE Copying!Plant(s, n, p)
    <3> DEFINE mine == [phase |-> "live", parent |-> p]
    <3>1. mine \in NodeRow /\ mine.phase = "live"
      BY DEF NodeRow
    <3>2. tree' = [tree EXCEPT ![s] = [tree[s] EXCEPT ![n] = mine]] /\ label' = label
      BY <1>0, <2>4 DEF Copying!Plant, BySite
    <3> HIDE DEF mine
    <3> QED BY <3>1, <3>2, <2>2
  <2> QED BY <2>1, <2>3, <2>4
<1>3. SiteRows(s)' /\ Archived(s)'
  BY <1>0, <1>1, <1>2 DEF SiteRows, Archived, TreeMoved
<1>4. Labelled(s)'
  BY <1>0, <1>1, <1>2 DEF Labelled, TreeMoved
<1> QED BY <1>1, <1>2, <1>3, <1>4, WorkStep DEF TreeMoved

LEMMA AssignStep ==
    ASSUME PortableInv, NEW s \in Place, NEW i \in Item, NEW n \in Node, Copying!Assign(s, i, n)
    PROVE  PortableInv'
<1>0. SiteRows(s) /\ Archived(s) /\ Labelled(s) /\ BySite
  BY DEF PortableInv, SiteHolds
<1>1. /\ label' = [label EXCEPT ![s] = @ \cup {<<i, n>>}]
      /\ item[s][i].phase # "none" /\ tree[s][n].phase = "live"
      /\ UNCHANGED <<item, archive, tree, torn, reading, bundle, behind>>
  BY DEF Copying!Assign, Copying!Work, Copying!LiveItems, Copying!LiveNodes
<1>2. BySite' /\ label'[s] = label[s] \cup {<<i, n>>} /\ \A t \in Place : t # s => label'[t] = label[t]
  BY <1>0, <1>1 DEF BySite
<1>3. Labelled(s)'
  BY <1>0, <1>1, <1>2 DEF Labelled
<1>4. SiteRows(s)' /\ Archived(s)'
  BY <1>0, <1>1 DEF SiteRows, Archived
<1> QED BY <1>1, <1>2, <1>3, <1>4, WorkStep

(* An export that goes on to its next query.                               *)
LEMMA GotStep ==
    ASSUME PortableInv, NEW s \in Place, NEW to \in Copying!Section, NEW got,
           reading' = [reading EXCEPT ![s] = [section |-> to, got |-> got]],
           UNCHANGED <<item, archive, tree, label, bundle, behind>>,
           torn' = torn \/ torn' = [torn EXCEPT ![s] = {}],
           IsBundle(got),
           to = "revisions" =>
               /\ \A i \in got.items : item[s][i].phase # "none" /\ got.revision[i] = item[s][i].revision,
           to \in {"assignments", "checks"} => Abreast(got)
    PROVE  PortableInv'
<1>0. BySite /\ SiteHolds(s)
  BY DEF PortableInv
<1>1. /\ BySite' /\ reading'[s] = [section |-> to, got |-> got]
      /\ \A t \in Place : t # s => reading'[t] = reading[t] /\ torn'[t] = torn[t]
  BY <1>0 DEF BySite
<1>2. ReadingFollows(s)'
  BY <1>1 DEF ReadingFollows, IsBundle, Abreast
<1>3. SiteRows(s)' /\ Archived(s)' /\ Labelled(s)'
  BY <1>0 DEF SiteHolds, SiteRows, Archived, Labelled
<1>4. SiteHolds(s)'
  BY <1>2, <1>3 DEF SiteHolds
<1>5. IsBundle(bundle') /\ Abreast(bundle')
  BY DEF PortableInv
<1> QED BY <1>1, <1>4, <1>5, OneSiteStep

LEMMA Sections ==
    /\ Copying!Following["languages"] = "terms" /\ Copying!Following["terms"] = "entries"
    /\ Copying!Following["entries"] = "revisions" /\ Copying!Following["revisions"] = "assignments"
    /\ Copying!Following["assignments"] = "checks"
    /\ {"languages", "terms", "entries", "revisions", "assignments", "checks"} \subseteq Copying!Section
BY DEF Copying!Following, Copying!Section

LEMMA ReadStep ==
    ASSUME PortableInv, NEW s \in Place,
           \/ Copying!ReadLanguages(s) \/ Copying!ReadTerms(s) \/ Copying!ReadEntries(s) \/ Copying!ReadRevisions(s)
           \/ Copying!ReadAssignments(s)
    PROVE  PortableInv'
<1> DEFINE got == reading[s].got
<1>0. SiteRows(s) /\ Archived(s) /\ ReadingFollows(s) /\ IsBundle(got)
  BY DEF PortableInv, SiteHolds, ReadingFollows
<1>1. CASE Copying!ReadLanguages(s)
  <2> DEFINE b == Copying!WithLanguages(s, Copying!Empty)
  <2>1. IsBundle(b)
    BY EmptyIsBundle DEF Copying!WithLanguages, IsBundle
  <2>2. /\ reading' = [reading EXCEPT ![s] = [section |-> "terms", got |-> b]]
        /\ UNCHANGED <<item, archive, tree, label, bundle, behind, torn>>
    BY <1>1, Sections DEF Copying!ReadLanguages, Copying!Got, Copying!site
  <2> HIDE DEF b
  <2> QED BY <2>1, <2>2, Sections, GotStep
<1>2. CASE Copying!ReadTerms(s)
  <2> DEFINE b == Copying!WithTerms(s, got)
  <2>1. /\ Copying!LiveNodes(s) \subseteq Node
        /\ [n \in Node |-> IF n \in Copying!LiveNodes(s) THEN tree[s][n].parent ELSE Nowhere]
              \in [Node -> Node \cup {Nowhere}]
    BY <1>0 DEF SiteRows, NodeRow, Copying!LiveNodes
  <2>2. IsBundle(b)
    BY <1>0, <2>1 DEF Copying!WithTerms, IsBundle
  <2>3. /\ reading' = [reading EXCEPT ![s] = [section |-> "entries", got |-> b]]
        /\ UNCHANGED <<item, archive, tree, label, bundle, behind, torn>>
    BY <1>2, Sections DEF Copying!ReadTerms, Copying!Got, Copying!site
  <2> HIDE DEF b
  <2> QED BY <2>2, <2>3, Sections, GotStep
<1>3. CASE Copying!ReadEntries(s)
  <2> DEFINE b == Copying!WithEntries(s, got)
             numbers == [i \in Item |-> IF i \in Copying!LiveItems(s) THEN item[s][i].revision ELSE 0]
             states  == [i \in Item |-> IF i \in Copying!LiveItems(s) THEN item[s][i].status ELSE "draft"]
  <2>1. /\ Copying!LiveItems(s) \subseteq Item /\ numbers \in [Item -> Nat]
        /\ states \in [Item -> {"draft", "scheduled"}]
    BY <1>0 DEF SiteRows, ItemRow, Copying!LiveItems
  <2>2. b = [got EXCEPT !.items = Copying!LiveItems(s), !.revision = numbers, !.status = states]
    BY DEF Copying!WithEntries
  <2>3. \A i \in Copying!LiveItems(s) : item[s][i].phase # "none" /\ numbers[i] = item[s][i].revision
    BY DEF Copying!LiveItems
  <2> HIDE DEF numbers, states
  <2>4. IsBundle(b) /\ b.items = Copying!LiveItems(s) /\ b.revision = numbers
    BY <1>0, <2>1, <2>2 DEF IsBundle
  <2>5. /\ reading' = [reading EXCEPT ![s] = [section |-> "revisions", got |-> b]]
        /\ UNCHANGED <<item, archive, tree, label, bundle, behind>>
        /\ torn' = [torn EXCEPT ![s] = {}]
    BY <1>3, Sections DEF Copying!ReadEntries, Copying!Got, Copying!site
  <2> HIDE DEF b
  <2> QED BY <2>3, <2>4, <2>5, Sections, GotStep
<1>4. CASE Copying!ReadRevisions(s)
  <2> DEFINE b == Copying!WithRevisions(s, got)
             kept == [i \in Item |-> IF i \in Copying!LiveItems(s) THEN archive[s][i] ELSE {}]
  <2>1. kept \in [Item -> SUBSET Nat] /\ \A i \in Item : kept[i] \subseteq archive[s][i]
    BY <1>0 DEF SiteRows
  <2>2. b = [got EXCEPT !.archive = kept, !.torn = torn[s] \cup behind[s]]
    BY DEF Copying!WithRevisions
  <2> HIDE DEF kept
  <2>3. IsBundle(b) /\ b.items = got.items /\ b.revision = got.revision /\ b.archive = kept
        /\ b.torn = torn[s] \cup behind[s]
    BY <1>0, <2>1, <2>2 DEF IsBundle
  <2>4. reading[s].section = "revisions"
    BY <1>4 DEF Copying!ReadRevisions, Copying!Got
  <2>5. Abreast(b)
    <3> SUFFICES ASSUME NEW i \in got.items, i \notin torn[s], i \notin behind[s], NEW k \in kept[i]
                 PROVE  k <= got.revision[i]
      BY <2>3 DEF Abreast
    <3>1. i \in Item
      BY <1>0 DEF IsBundle
    <3>2. item[s][i].phase # "none" /\ got.revision[i] = item[s][i].revision
      BY <1>0, <2>4 DEF ReadingFollows
    <3>3. k \in archive[s][i]
      BY <2>1, <3>1
    <3> QED BY <1>0, <3>1, <3>2, <3>3 DEF Archived
  <2>6. /\ reading' = [reading EXCEPT ![s] = [section |-> "assignments", got |-> b]]
        /\ UNCHANGED <<item, archive, tree, label, bundle, behind, torn>>
    BY <1>4, Sections DEF Copying!ReadRevisions, Copying!Got, Copying!site
  <2> HIDE DEF b
  <2> QED BY <2>3, <2>5, <2>6, Sections, GotStep
<1>5. CASE Copying!ReadAssignments(s)
  <2> DEFINE b == Copying!WithAssignments(s, got)
  <2>1. /\ IsBundle(b) /\ b.items = got.items /\ b.revision = got.revision
        /\ b.archive = got.archive /\ b.torn = got.torn
    BY <1>0 DEF Copying!WithAssignments, IsBundle
  <2>2. Abreast(got)
    BY <1>0, <1>5 DEF Copying!ReadAssignments, Copying!Got, ReadingFollows
  <2>3. /\ reading' = [reading EXCEPT ![s] = [section |-> "checks", got |-> b]]
        /\ UNCHANGED <<item, archive, tree, label, bundle, behind, torn>>
    BY <1>5, Sections DEF Copying!ReadAssignments, Copying!Got, Copying!site
  <2> HIDE DEF b
  <2>4. Abreast(b)
    BY <2>1, <2>2 DEF Abreast
  <2> QED BY <2>1, <2>3, <2>4, Sections, GotStep
<1> QED BY <1>1, <1>2, <1>3, <1>4, <1>5

LEMMA HandOutStep == ASSUME PortableInv, NEW s \in Place, Copying!HandOut(s) PROVE PortableInv'
<1>0. BySite /\ SiteHolds(s) /\ IsBundle(reading[s].got) /\ ReadingFollows(s)
  BY DEF PortableInv, SiteHolds, ReadingFollows
<1>1. /\ reading' = [reading EXCEPT ![s] = Copying!Idle] /\ bundle' \in {reading[s].got, bundle}
      /\ UNCHANGED <<item, archive, tree, label, torn, behind>>
      /\ reading[s].section = "checks"
  BY DEF Copying!HandOut, Copying!site
<1>2. IsBundle(bundle') /\ Abreast(bundle')
  BY <1>0, <1>1 DEF PortableInv, ReadingFollows
<1>3. BySite' /\ reading'[s] = Copying!Idle /\ \A t \in Place : t # s => reading'[t] = reading[t]
  BY <1>0, <1>1 DEF BySite
<1>4. ReadingFollows(s)'
  BY <1>3, IdleReads, EmptyIsBundle DEF ReadingFollows, IsBundle, Abreast
<1>5. SiteRows(s)' /\ Archived(s)' /\ Labelled(s)'
  BY <1>0, <1>1 DEF SiteHolds, SiteRows, Archived, Labelled
<1>6. SiteHolds(s)'
  BY <1>4, <1>5 DEF SiteHolds
<1> QED BY <1>1, <1>2, <1>3, <1>6, OneSiteStep

LEMMA ImportStep ==
    ASSUME PortableInv, NEW s \in Place, NEW upsert \in BOOLEAN, Copying!Import(s, upsert)
    PROVE  PortableInv'
<1> DEFINE b == bundle
<1>0. /\ SiteRows(s) /\ Archived(s) /\ Labelled(s) /\ BySite /\ SiteHolds(s)
      /\ IsBundle(b) /\ Abreast(b)
  BY DEF PortableInv, SiteHolds
<1>1. /\ tree' = [tree EXCEPT ![s] = Copying!TermsOver(s, b)] /\ item' = [item EXCEPT ![s] = Copying!EntriesOver(s, b)]
      /\ archive' = [archive EXCEPT ![s] = Copying!RevisionsOver(s, b)]
      /\ label' = [label EXCEPT ![s] = Copying!AssignmentsOver(s, b)]
      /\ behind' = [behind EXCEPT ![s] = @ \cup {i \in b.items :
                        i \in b.torn \/ item[s][i].revision > b.revision[i]}]
      /\ torn' = [torn EXCEPT ![s] = IF reading[s].section = "revisions" THEN @ \cup b.items ELSE @]
      /\ UNCHANGED <<reading, bundle>>
  BY DEF Copying!Import
<1>2. /\ \A i \in Item : b.archive[i] # {} => i \in b.items
      /\ \A i \in b.items : b.revision[i] \in b.archive[i]
      /\ b.labels \subseteq b.items \X b.nodes
  BY DEF Copying!Import, Copying!Valid, Copying!ValidContent, Copying!CurrentRevisions, Copying!ValidAssignments
<1>3. BySite' /\ \A t \in Place : t # s =>
          /\ item'[t] = item[t] /\ archive'[t] = archive[t] /\ tree'[t] = tree[t]
          /\ label'[t] = label[t] /\ reading'[t] = reading[t] /\ torn'[t] = torn[t]
          /\ behind'[t] = behind[t]
  BY <1>0, <1>1 DEF BySite
<1>4. /\ tree'[s] = Copying!TermsOver(s, b) /\ item'[s] = Copying!EntriesOver(s, b) /\ archive'[s] = Copying!RevisionsOver(s, b)
      /\ label'[s] = label[s] \cup b.labels
      /\ behind'[s] = behind[s] \cup {i \in b.items : i \in b.torn \/ item[s][i].revision > b.revision[i]}
      /\ torn'[s] = IF reading[s].section = "revisions" THEN torn[s] \cup b.items ELSE torn[s]
  BY <1>0, <1>1 DEF BySite, Copying!AssignmentsOver
<1>5. \A i \in Item : /\ archive'[s][i] = archive[s][i] \cup b.archive[i]
                      /\ i \notin b.items => item'[s][i] = item[s][i]
  BY <1>4 DEF Copying!EntriesOver, Copying!RevisionsOver
<1>6. \A i \in b.items : /\ item'[s][i] \in ItemRow /\ item'[s][i].phase = "live"
                         /\ item'[s][i].revision = b.revision[i]
  BY <1>0, <1>4 DEF Copying!EntriesOver, IsBundle, ItemRow
<1>7. SiteRows(s)'
  <2>1. item'[s] \in [Item -> ItemRow]
    <3>1. item[s] \in [Item -> ItemRow] /\ item'[s] = Copying!EntriesOver(s, b)
      BY <1>0, <1>4 DEF SiteRows
    <3>2. \A i \in Item : item'[s][i] \in ItemRow
      BY <1>5, <1>6, <3>1
    <3> QED BY <3>1, <3>2 DEF Copying!EntriesOver
  <2>2. archive'[s] \in [Item -> SUBSET Nat]
    BY <1>0, <1>4 DEF SiteRows, Copying!RevisionsOver, IsBundle
  <2>3. tree'[s] \in [Node -> NodeRow]
    BY <1>0, <1>4 DEF SiteRows, Copying!TermsOver, IsBundle, NodeRow
  <2> QED BY <2>1, <2>2, <2>3 DEF SiteRows
<1>8. Archived(s)'
  <2>1. ASSUME NEW i \in Item, i \notin b.items
        PROVE  item'[s][i] = item[s][i] /\ archive'[s][i] = archive[s][i] /\ (i \in behind[s] => i \in behind'[s])
    BY <1>2, <1>4, <1>5, <2>1
  <2>2. ASSUME NEW i \in b.items, i \notin behind'[s], NEW k \in archive'[s][i]
        PROVE  k <= b.revision[i]
    <3>1. /\ i \in Item /\ i \notin behind[s] /\ i \notin b.torn
          /\ ~(item[s][i].revision > b.revision[i])
      BY <1>0, <1>4, <2>2 DEF IsBundle
    <3>2. CASE k \in b.archive[i]
      BY <1>0, <3>1, <3>2 DEF Abreast
    <3>3. CASE k \in archive[s][i]
      <4>1. k \in Nat /\ item[s][i].revision \in Nat /\ b.revision[i] \in Nat
        BY <1>0, <3>1, <3>3 DEF SiteRows, ItemRow, IsBundle
      <4>2. k <= item[s][i].revision
        BY <1>0, <3>1, <3>3 DEF Archived
      <4> QED BY <3>1, <4>1, <4>2
    <3> QED BY <1>5, <2>2, <3>1, <3>2, <3>3
  <2>3. ASSUME NEW i \in b.items
        PROVE  item'[s][i].phase # "none" /\ item'[s][i].revision \in archive'[s][i]
    BY <1>0, <1>2, <1>5, <1>6 DEF IsBundle
  <2> QED BY <1>0, <1>6, <2>1, <2>2, <2>3 DEF Archived
<1>9. Labelled(s)'
  <2>1. \A i \in Item : item[s][i].phase # "none" => item'[s][i].phase # "none"
    BY <1>5, <1>6
  <2>2. /\ \A n \in Node : tree[s][n].phase = "live" => tree'[s][n].phase = "live"
        /\ \A n \in b.nodes : tree'[s][n].phase = "live"
    BY <1>0, <1>4 DEF Copying!TermsOver, IsBundle
  <2>3. ASSUME NEW l \in b.labels
        PROVE  l \in Item \X Node /\ item'[s][l[1]].phase # "none" /\ tree'[s][l[2]].phase = "live"
    <3>1. l \in b.items \X b.nodes /\ l[1] \in b.items /\ l[2] \in b.nodes
      BY <1>2
    <3> QED BY <1>0, <1>6, <2>2, <3>1 DEF IsBundle
  <2> QED BY <1>0, <1>4, <2>1, <2>2, <2>3 DEF Labelled
<1>10. ReadingFollows(s)'
  <2>1. /\ torn[s] \subseteq torn'[s] /\ behind[s] \subseteq behind'[s]
        /\ reading'[s] = reading[s]
    BY <1>1, <1>4
  <2>2. reading[s].section = "revisions" =>
            \A i \in Item : i \notin torn'[s] /\ i \notin behind'[s] /\ item[s][i].phase # "none" =>
                item'[s][i].phase # "none" /\ item'[s][i].revision = item[s][i].revision
    BY <1>4, <1>5
  <2> QED BY <1>0, <2>1, <2>2, ReadingStays
<1>11. SiteHolds(s)'
  BY <1>7, <1>8, <1>9, <1>10 DEF SiteHolds
<1>12. IsBundle(bundle') /\ Abreast(bundle')
  BY <1>0, <1>1
<1> QED BY <1>3, <1>11, <1>12, OneSiteStep

LEMMA PortableInvStep == ASSUME PortableInv, [Copying!Next]_(Copying!vars) PROVE PortableInv'
<1>1. ASSUME NEW s \in Place, NEW t \in Tongue, Copying!DropTongue(s, t) PROVE PortableInv'
  <2>1. UNCHANGED <<item, archive, tree, label, reading, bundle, torn, behind>>
    BY <1>1 DEF Copying!DropTongue, Copying!Work
  <2> QED BY <2>1 DEF PortableInv, BySite, SiteHolds, SiteRows, Archived, Labelled, ReadingFollows
<1>2. CASE UNCHANGED Copying!vars
  <2>1. UNCHANGED <<item, archive, tree, label, reading, bundle, torn, behind>>
    BY <1>2 DEF Copying!vars
  <2> QED BY <2>1 DEF PortableInv, BySite, SiteHolds, SiteRows, Archived, Labelled, ReadingFollows
<1> QED BY <1>1, <1>2, EntryEditStep, ItemStep, NodeStep, AssignStep, ReadStep, HandOutStep, ImportStep
        DEF Copying!Next

LEMMA BundlesMove ==
    ASSUME [SiteNext]_site, Is("bundles") PROVE Is("bundles")' /\ [Copying!Next]_(Copying!vars)
<1>1. part = "bundles" /\ part' = part
  BY PartStays DEF Is
<1>2. CASE SiteNext
  <2>1. Copying!Next \/ UNCHANGED bundles
    BY <1>1, <1>2 DEF SiteNext, Is, Others
  <2> QED BY <1>1, <2>1 DEF Is, bundles, Copying!vars
<1>3. CASE UNCHANGED site
  BY <1>1, <1>3 DEF Is, site, bundles, Copying!vars
<1> QED BY <1>2, <1>3

(* What a bundle brought to a site refers to rows of that site, and an     *)
(* entry it brought has the revision it says it is at, whatever was edited *)
(* while the export that made the bundle was reading.                      *)
THEOREM ImportsAreWhole == SiteSpec => []ImportsHold
<1> DEFINE I == Is("bundles") => PortableInv
<1>0. Copying!PortableAssumption
  BY SiteAssumption
<1>1. SiteInit => I
  BY <1>0, PortableInvInit DEF SiteInit, Is
<1>2. I /\ [SiteNext]_site => I'
  <2> SUFFICES ASSUME I, [SiteNext]_site, Is("bundles") PROVE PortableInv'
    BY PartStays DEF Is
  <2> QED BY BundlesMove, PortableInvStep
<1>3. I => ImportsHold
  BY PortableInvHolds DEF ImportsHold
<1> HIDE DEF I
<1> QED BY <1>1, <1>2, <1>3, PTL DEF SiteSpec
=============================================================================
