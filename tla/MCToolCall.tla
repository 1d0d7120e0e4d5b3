----------------------------- MODULE MCToolCall ------------------------------
(* One call at a time for the arguments: requests of two fields of any two   *)
(* kinds, the first with two spellings; up to two members, among them        *)
(* unknown names and both spellings of one field.                            *)
(* Two calls at once for the headers: none, one or two values, empty ones    *)
(* and ones that gRPC refuses among them, of a header that is configured     *)
(* once or twice, of one that gRPC reserves and of one that is not asked for;*)
(* and with and without a trace and baggage, the one configured, too, the    *)
(* other not.                                                                *)
(* One call for each template of up to two places and each reply.            *)
EXTENDS ToolCall, TLC

CONSTANTS stopNames, stop_names, note, unknown, authorization, user_agent, cookie,
          traceparent, baggage, alice, bob, utf8

MCNames == {stopNames, stop_names, note, unknown}
MCHeaders == {authorization, user_agent, cookie, traceparent, baggage}
MCReserved == {user_agent}
MCPropagated == {traceparent, baggage}
MCMinted == {traceparent}
MCHeaderValues == {Blank, alice, bob, utf8}
MCUnprintable == {utf8}

Entry(n, s) == [name |-> n, spelling |-> s]
MCConfigured ==
    {<<>>, <<Entry(authorization, 1), Entry(user_agent, 1), Entry(Blank, 1),
             Entry(authorization, 2), Entry(traceparent, 1)>>}

NoHeaders == [h \in MCHeaders |-> <<>>]
Asked(input, isObject, args) ==
    [input |-> input, isObject |-> isObject, args |-> args, http |-> NoHeaders,
     reply |-> <<>>, template |-> <<>>]
Plain == Asked(<<>>, TRUE, <<>>)

Inputs ==
    {<<[json |-> stopNames, name |-> stop_names, kind |-> k],
       [json |-> note, name |-> note, kind |-> l]>> : k, l \in Kinds}
Arguments == {<<>>} \cup {<<a>> : a \in Member} \cup {<<a, b>> : a, b \in Member}
ArgumentCalls ==
    {<<Asked(input, TRUE, args)>> : input \in Inputs, args \in Arguments}
    \cup {<<Asked(input, FALSE, <<>>)>> : input \in Inputs}

Carried ==
    {<<>>} \cup {<<v>> : v \in MCHeaderValues} \cup {<<alice, Blank, bob>>, <<bob, alice>>}
WithHeaders ==
    {[Plain EXCEPT !.http[authorization] = a, !.http[user_agent] = b, !.http[cookie] = <<bob>>] :
        a \in Carried, b \in {<<>>, <<bob>>, <<utf8>>}}
WithTrace ==
    {[Plain EXCEPT !.http[authorization] = a, !.http[traceparent] = t, !.http[baggage] = b] :
        a \in {<<>>, <<bob>>}, t \in {<<>>, <<alice>>, <<bob>>}, b \in {<<>>, <<alice>>}}
HeaderCalls == {<<a, b>> : a, b \in WithHeaders} \cup {<<a, b>> : a, b \in WithTrace}

\* A place of each form for the states of a field: the right ones for what
\* the field is, and the wrong ones.
Forms == {<<"text", "value">>, <<"empty", "value">>, <<"unset", "value">>, <<"unset", "nested">>,
          <<"null", "value">>, <<"null", "nested">>, <<"message", "value">>,
          <<"message", "nested">>, <<"empty message", "nested">>, <<"repeated", "range">>,
          <<"repeated", "value">>, <<"empty list", "range">>, <<"empty list", "value">>,
          <<"strings", "value">>, <<"unset", "range">>, <<"null", "range">>,
          <<"text", "nested">>, <<"empty", "nested">>, <<"repeated", "nested">>,
          <<"empty list", "nested">>, <<"text", "range">>, <<"message", "range">>,
          <<"strings", "range">>}
Rendered(forms) ==
    <<[Plain EXCEPT !.reply = [k \in DOMAIN forms |-> forms[k][1]],
                    !.template = [k \in DOMAIN forms |-> [field |-> k, how |-> forms[k][2]]]]>>
TemplateCalls == {Rendered(<<f>>) : f \in Forms} \cup {Rendered(<<f, g>>) : f, g \in Forms}

MCScenarios == ArgumentCalls \cup HeaderCalls \cup TemplateCalls
==============================================================================
