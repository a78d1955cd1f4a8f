------------------------------- MODULE MCSite -------------------------------
(***************************************************************************)
(* A small instance of every part of Site, for TLC.                        *)
(***************************************************************************)
EXTENDS Site, TLC

(* Clients are alike, and so are entries.                                  *)
Names == Permutations(Client) \cup Permutations(Entry)

MCPlaces == [A |-> <<1, 2>>, B |-> <<3>>, C |-> <<>>]

MCDepends == [core |-> {}, a |-> {"core"}, b |-> {"core", "a"}]

MCSlugs == [t1 |-> "x", t2 |-> "y", t3 |-> "y"]

MCEmail == <<"a", "b", "a">>

Called == [key |-> "name", kind |-> "text", required |-> TRUE, options |-> {}]
Sized  == [key |-> "size", kind |-> "choice", required |-> FALSE, options |-> {"s", "l"}]

MCAsked ==
    {{Called}, {Sized, [Called EXCEPT !.required = FALSE]}, {Called, [Called EXCEPT !.kind = "number"]}}

MCAnswers ==
    {<<>>, [name |-> [type |-> "string", text |-> "x"]],
     [name |-> [type |-> "blank", text |-> " "], size |-> [type |-> "string", text |-> "s"]],
     [size |-> [type |-> "number", text |-> "7"]]}

MCGrants == {{"view"}}

MCBases == [en |-> "en", de |-> "de", at |-> "de"]

MCSenders == {[address |-> "x", name |-> "X"], [address |-> "y", name |-> " "]}

MCStandard == [raw |-> 1, aggregate |-> 2, trash |-> 1]

MCWindows ==
    {[raw |-> 2, aggregate |-> 1], [raw |-> 0, aggregate |-> 2], [raw |-> 1, aggregate |-> 3]}

MCSpoken == [home |-> {"en", "fr"}, away |-> {"tr"}]
MCSpeech == [i |-> "en"]

MCRollupDays == [yesterday |-> 1, today |-> 2]

MCBatches ==
    {<<[row |-> "yesterday", value |-> 1], [row |-> "today", value |-> 3]>>,
     <<[row |-> "today", value |-> 2], [row |-> "yesterday", value |-> 0]>>,
     <<[row |-> "today", value |-> 4]>>}

MCPolicies == {[raw |-> 1, aggregate |-> 1], [raw |-> 2, aggregate |-> 1]}
=============================================================================
