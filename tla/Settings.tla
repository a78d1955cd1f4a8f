------------------------------- MODULE Settings -------------------------------
(***************************************************************************)
(* The site's settings row and its languages, one of them the default.     *)
(* Every writer of a language takes the settings row's lock first, so each *)
(* is one step, and so is a patch of the row, a single update; a visitor's *)
(* language is resolved from two reads.                                    *)
(***************************************************************************)
EXTENDS Naturals, FiniteSets

CONSTANTS Tag,
          English,         \* the language of setup
          Bases,           \* Bases[t]: what t falls back to, t itself when it has no region
          Visitor,
          Title, Url,      \* names of the site and canonical addresses that the parsers accept
          Senders,         \* mail senders that the parser accepts: [address, name]
          Null, Blank,     \* no address or name; a name of spaces
          MaxDays,         \* the longest retention
          Windows, Periods, \* retentions that a patch asks: [raw, aggregate] and days
          Standard,        \* the retention of a new row: [raw, aggregate, trash]
          Writes           \* bound on the requests of the panel

SettingsAssumption ==
    /\ English \in Tag
    /\ Bases \in [Tag -> Tag]
    /\ \A t \in Tag : Bases[Bases[t]] = Bases[t]
    /\ Title # {} /\ Null \notin Url /\ Null # Blank
    /\ \A s \in Senders : s.address # Null /\ s \in [address : {s.address}, name : {s.name}]
    /\ Windows \subseteq [raw : Nat, aggregate : Nat]
    /\ MaxDays \in Nat /\ Standard \in [raw : 1 .. MaxDays, aggregate : 1 .. MaxDays, trash : 1 .. MaxDays]

VARIABLES
    sites,     \* whether setup has made the settings row
    settings,  \* the columns of the row
    language,  \* site_languages: "none", "plain" or "default"
    lookup,    \* a visitor between the two reads
    shifted,   \* visitors in whose lookup the default changed after they read it
    writesLeft

vars == <<sites, settings, language, lookup, shifted, writesLeft>>

Asleep == [phase |-> "idle", candidates |-> {}]

TypeOK ==
    /\ sites \in {"none", "set"}
    /\ settings \in [title : Title, url : Url \cup {Null},
                     address : {s.address : s \in Senders} \cup {Null},
                     name : ({s.name : s \in Senders} \cup {Null}) \ {Blank},
                     raw : 1 .. MaxDays, aggregate : 1 .. MaxDays, trash : 1 .. MaxDays]
    /\ language \in [Tag -> {"none", "plain", "default"}]
    /\ lookup \in [Visitor -> [phase : {"idle", "reading", "answered"}, candidates : SUBSET Tag]]
    /\ shifted \subseteq Visitor
    /\ writesLeft \in 0 .. Writes

\* The columns that the migrations added, at their defaults.
Fresh(title) ==
    [title |-> title, url |-> Null, address |-> Null, name |-> Null,
     raw |-> Standard.raw, aggregate |-> Standard.aggregate, trash |-> Standard.trash]

NoSender == [address |-> Null, name |-> Null]

Init ==
    /\ sites = "none"
    /\ settings = Fresh(CHOOSE title \in Title : TRUE)
    /\ language = [t \in Tag |-> "none"]
    /\ lookup = [v \in Visitor |-> Asleep]
    /\ shifted = {}
    /\ writesLeft = Writes

----------------------------------------------------------------------------
Configured == {t \in Tag : language[t] # "none"}
Default    == {t \in Tag : language[t] = "default"}

\* initialize, inside setup's transaction; a second setup finds both rows.
Initialize ==
    /\ sites = "none"
    /\ sites' = "set"
    /\ language' = [language EXCEPT ![English] = "default"]
    /\ \E title \in Title : settings' = Fresh(title)
    /\ UNCHANGED <<lookup, shifted, writesLeft>>

----------------------------------------------------------------------------
(* The row.                                                                *)

\* What a patch may ask: an option is a set of one or none; the address and the sender are left,
\* cleared or set.
Patches ==
    [title : {{}} \cup {{t} : t \in Title},
     url : {{}} \cup {{u} : u \in Url \cup {Null}},
     sender : {{}} \cup {{s} : s \in Senders \cup {NoSender}},
     analytics : {{}} \cup {{w} : w \in Windows},
     trash : {{}} \cup {{d} : d \in Periods}]

\* MailSender::parse: a blank name is none.
MailSender(s) == [s EXCEPT !.name = IF @ = Blank THEN Null ELSE @]

\* AnalyticsRetentionPolicy::new, TrashRetentionPolicy::new
AnalyticsPolicy(w) == w.raw \in 1 .. MaxDays /\ w.aggregate \in 1 .. MaxDays
TrashPolicy(d)     == d \in 1 .. MaxDays

IsEmpty(p) == \A f \in DOMAIN p : p[f] = {}

Coalesce(option, old) == IF option = {} THEN old ELSE CHOOSE v \in option : TRUE

\* Mutant: a sender without a name keeps the name of the one before.
PatchedByColumn(p) ==
    LET sender == MailSender(Coalesce(p.sender, settings))
        window == Coalesce(p.analytics, settings)
    IN  [settings EXCEPT
            !.title = Coalesce(p.title, @), !.url = Coalesce(p.url, @),
            !.address = sender.address, !.name = Coalesce({sender.name} \ {Null}, @),
            !.raw = window.raw, !.aggregate = window.aggregate,
            !.trash = Coalesce(p.trash, @)]

\* update_settings_row: what is not asked keeps its value; the sender and the windows change as
\* a whole.
Patched(p) ==
    LET sender == MailSender(Coalesce(p.sender, settings))
        window == Coalesce(p.analytics, settings)
    IN  [settings EXCEPT
            !.title = Coalesce(p.title, @), !.url = Coalesce(p.url, @),
            !.address = sender.address, !.name = sender.name,
            !.raw = window.raw, !.aggregate = window.aggregate,
            !.trash = Coalesce(p.trash, @)]

UpdateSettings(p) ==
    /\ ~IsEmpty(p)
    /\ \A w \in p.analytics : AnalyticsPolicy(w)
    /\ \A d \in p.trash : TrashPolicy(d)
    /\ sites = "set"
    /\ writesLeft > 0 /\ writesLeft' = writesLeft - 1
    /\ settings' = Patched(p)
    /\ UNCHANGED <<sites, language, lookup, shifted>>

\* settings_from_row: a name without an address is an error.
SettingsFromRow ==
    {r \in {[sender |-> [address |-> settings.address, name |-> settings.name],
             window |-> [raw |-> settings.raw, aggregate |-> settings.aggregate],
             trash |-> settings.trash]} :
        r.sender.address = Null => r.sender.name = Null}

GetSettings == IF sites = "none" THEN {} ELSE SettingsFromRow

\* What a worker reads; of a site that has no row yet, the default.
Or(value, standard) == IF sites = "none" THEN standard ELSE value

AnalyticsRetention ==
    [raw |-> Or(settings.raw, Standard.raw), aggregate |-> Or(settings.aggregate, Standard.aggregate)]

TrashRetention == Or(settings.trash, Standard.trash)

----------------------------------------------------------------------------
(* The languages.                                                          *)

\* lock_settings, and what a change of the default does to lookups under way.
Write(rows) ==
    /\ sites = "set"
    /\ writesLeft > 0 /\ writesLeft' = writesLeft - 1
    /\ language' = rows
    /\ shifted' = shifted \cup {v \in Visitor :
                      /\ lookup[v].phase = "reading"
                      /\ \E t \in Default : rows[t] # "default"}
    /\ UNCHANGED <<sites, lookup>>

WriteLanguage(rows) == Write(rows) /\ UNCHANGED settings

\* clear_default
ClearDefault(rows) == [t \in Tag |-> IF rows[t] = "default" THEN "plain" ELSE rows[t]]

With(t, isDefault) ==
    IF isDefault THEN [ClearDefault(language) EXCEPT ![t] = "default"]
    ELSE [language EXCEPT ![t] = "plain"]

\* The first language is the default whatever was asked.
CreateLanguage(t, asked) ==
    /\ language[t] = "none"
    /\ WriteLanguage(With(t, asked \/ Configured = {}))

\* The default stays so until another language is made it.
UpdateLanguage(t, asked) ==
    /\ t \in Configured
    /\ t \in Default => asked
    /\ WriteLanguage(With(t, asked))

\* Mutant: any language but the last can be deleted.
SomeRemain(t) == Configured # {t}

\* delete_language refuses the default.
Deletable(t) == t \notin Default

DeleteLanguage(t) ==
    /\ t \in Configured
    /\ Deletable(t)
    /\ WriteLanguage([language EXCEPT ![t] = "none"])

\* import_validated: the name and the address of the row first, then no default, then the bundle's
\* languages over the site's; validate_languages wants one default among them.  create_only
\* refuses a tag there is.
Import(title, url, tags, d, upsert) ==
    /\ d \in tags
    /\ upsert \/ tags \cap Configured = {}
    /\ Write([t \in Tag |-> IF t = d THEN "default"
                            ELSE IF t \in tags THEN "plain"
                            ELSE ClearDefault(language)[t]])
    /\ settings' = [settings EXCEPT !.title = title, !.url = url]

----------------------------------------------------------------------------
(* public_language_candidates.                                             *)

\* The default is read; the candidates are the requested language, its base and the default.
ReadDefault(v, asked) ==
    /\ lookup[v].phase = "idle" /\ Default # {}
    /\ lookup' = [lookup EXCEPT ![v] =
                    [phase |-> "reading",
                     candidates |-> Default \cup UNION {{t, Bases[t]} : t \in asked}]]
    /\ shifted' = shifted \ {v}
    /\ UNCHANGED <<sites, settings, language, writesLeft>>

\* Only those that the site has are kept, by a second read.
ReadConfigured(v) ==
    /\ lookup[v].phase = "reading"
    /\ lookup' = [lookup EXCEPT ![v] = [phase |-> "answered", candidates |-> @.candidates \cap Configured]]
    /\ UNCHANGED <<sites, settings, language, shifted, writesLeft>>

Leave(v) ==
    /\ lookup[v].phase = "answered"
    /\ lookup' = [lookup EXCEPT ![v] = Asleep]
    /\ shifted' = shifted \ {v}
    /\ UNCHANGED <<sites, settings, language, writesLeft>>

Next ==
    \/ Initialize
    \/ \E p \in Patches : UpdateSettings(p)
    \/ \E t \in Tag, asked \in BOOLEAN : CreateLanguage(t, asked) \/ UpdateLanguage(t, asked)
    \/ \E t \in Tag : DeleteLanguage(t)
    \/ \E title \in Title, url \in Url \cup {Null}, tags \in SUBSET Tag, d \in Tag,
          upsert \in BOOLEAN : Import(title, url, tags, d, upsert)
    \/ \E v \in Visitor :
        \/ \E t \in Tag : ReadDefault(v, {t})
        \/ ReadDefault(v, {})
        \/ ReadConfigured(v)
        \/ Leave(v)

Spec == Init /\ [][Next]_vars

----------------------------------------------------------------------------
(* A site that is set up has one default language, through every order of  *)
(* creations, deletions, changes of the default and imports, and a visitor *)
(* is left without a language only if the default changed between the two  *)
(* reads of the lookup.                                                    *)
LanguagesHold ==
    /\ sites = "set" => Cardinality(Default) = 1
    /\ \A v \in Visitor :
        lookup[v].phase = "answered" /\ lookup[v].candidates = {} => v \in shifted

(* Whatever patches and imports follow each other, the settings of a site  *)
(* that is set up can be read (a name without an address cannot) and show  *)
(* a sender that was given as a whole, and the worker reads a pair of      *)
(* windows that was given as a whole, or the default: settings_from_row,   *)
(* analytics_retention and trash_retention against update_settings_row and *)
(* the import.                                                             *)
SettingsAreRead ==
    /\ sites = "set" =>
        \E r \in GetSettings : /\ r.sender \in {MailSender(s) : s \in Senders} \cup {NoSender}
                               /\ r.window = AnalyticsRetention
    /\ \/ AnalyticsRetention \in {w \in Windows : AnalyticsPolicy(w)}
       \/ AnalyticsRetention = [raw |-> Standard.raw, aggregate |-> Standard.aggregate]
    /\ TrashPolicy(TrashRetention)

(* "Unconfigured requested languages therefore never make the public       *)
(* resolver fail when the site has a default language": the comment of     *)
(* public_language_candidates.  TLC refutes it: the default that was read  *)
(* is replaced and deleted before the configured tags are read.            *)
ResolverFindsALanguage ==
    \A v \in Visitor : lookup[v].phase = "answered" => lookup[v].candidates # {}
=============================================================================
