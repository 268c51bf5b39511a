----------------------------- MODULE MCGateway ------------------------------
EXTENDS Gateway

CONSTANTS Alice, Bob, Proxy

At(scheme, host, port) == [scheme |-> scheme, host |-> host, port |-> port]
App == At("https", <<"app", "example", "com">>, "")

\* The domain, a subdomain, and a pattern that does not split.
MCAllowedOrigins ==
    <<At("https", <<"example", "com">>, "443"), At("https", <<"*", "example", "com">>, "*"),
      At("*", <<"other", "com">>, "")>>

\* Alice comes by two ports, with a header of her own, and through the proxy.
From(client, peer, port, headers, method, ws) ==
    [client |-> client, peer |-> peer, port |-> port, headers |-> headers,
     origin |-> App, large |-> FALSE, method |-> method, ws |-> ws]

Plain == From(Alice, Alice, 1, <<"garbage">>, "eth_call", FALSE)

MCRequest ==
    {Plain,
     From(Alice, Proxy, 1, <<Alice, Bob>>, "eth_subscribe", TRUE),
     [From(Alice, Alice, 2, <<Bob>>, "eth_subscribe", FALSE) EXCEPT
         !.origin = At("https", <<"example", "com">>, "")],
     [Plain EXCEPT !.origin = At("https", <<"example", "com", "net">>, "")],
     [Plain EXCEPT !.origin = At("https", <<"a", "b", "example", "com">>, "")],
     [Plain EXCEPT !.origin = At("", <<"">>, "")],
     [Plain EXCEPT !.large = TRUE],
     [Plain EXCEPT !.method = "OPTIONS"],
     [Plain EXCEPT !.method = "_internal"]}

MCTotal == <<1, 1>>
=============================================================================
