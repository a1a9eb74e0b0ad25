--------------------------- MODULE MCMaeveManager ----------------------------
(***************************************************************************)
(* The manager on small behaviours, each of which lets one or two of its   *)
(* clients act.                                                            *)
(***************************************************************************)
EXTENDS MaeveManager

\* What happens in a behaviour: how often the API asks for settings (of the
\* choices), certificates and triggers, how many calls the station makes and
\* which after its boot, and the restarts, faults and timeouts.
Case(v, ms, ask, n, acts, faults) ==
  [version |-> v, managers |-> ms, choices |-> {}, statuses |-> {}, settings |-> 0,
   certificates |-> ask[1], triggers |-> ask[2], maxCalls |-> n, calls |-> acts,
   restarts |-> faults[1], faults |-> faults[2], timeouts |-> faults[3]]

\* Two settings are asked for; the manager stores every status of a setting
\* alike but RebootRequired.  A station that boots again may do so at any time.
Settings(v, choices, statuses, n, faults) ==
  [Case(v, {"m1"}, <<0, 0>>, n, {<<"BootNotification", "">>}, faults) EXCEPT
     !.settings = 2, !.choices = choices, !.statuses = statuses]

\* Every action of the two routers, and what they refuse.
Calls16 == {<<a, "">> : a \in (DOMAIN CallRoutes16("")) \ {"StartTransaction", "StopTransaction"}}
             \cup {<<"DataTransfer", x>> : x \in {"UnknownVendorId", "malformed", "has2be",
                                                 "refused", "uncertified", "SignCertificate"}}
             \cup {<<"Heartbeat", "invalid">>, <<"Unknown", "">>}
Calls201 == {<<a, "">> : a \in (DOMAIN CallRoutes201("")) \ {"TransactionEvent"}}
              \cup {<<"Heartbeat", "invalid">>, <<"Unknown", "">>}

Transactions16  == {<<"StartTransaction", "known">>, <<"StartTransaction", "unknown">>,
                    <<"StopTransaction", "">>, <<"StopTransaction", "reading">>,
                    <<"StopTransaction", "signed">>}
Transactions201 == {<<"TransactionEvent", e>> : e \in {"Started", "Updated", "Ended", "EndedBare"}}

MCUses ==
  {Settings("1.6", {<<"a", "v">>, <<"a", "w">>}, {"RebootRequired"}, 2, <<0, 0, 0>>),
   Settings("1.6", {<<"a", "v">>, <<"b", "v">>}, {"RebootRequired"}, 1, <<0, 0, 0>>),
   Settings("2.0.1", {<<"a", "v">>, <<"b", "v">>}, {}, 1, <<1, 1, 0>>)}
    \cup {Case(v, {"m1"}, ask, 1, {}, <<1, 0, 0>>) :
            v \in {"1.6", "2.0.1"}, ask \in {<<1, 0>>, <<0, 2>>}}
    \cup {Case("1.6", {"m1"}, <<0, 0>>, 2, Calls16, <<1, 1, 1>>),
          Case("2.0.1", {"m1"}, <<0, 0>>, 2, Calls201, <<0, 2, 1>>),
          Case("1.6", {"m1", "m2"}, <<0, 0>>, 4, Transactions16, <<0, 0, 1>>),
          Case("2.0.1", {"m1", "m2"}, <<0, 0>>, 4, Transactions201, <<0, 1, 1>>)}
=============================================================================
