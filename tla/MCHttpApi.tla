----------------------------- MODULE MCHttpApi ------------------------------
(* MCDatabase's events, asked for by one HTTP thread: every documented     *)
(* endpoint, URLs that match an expression in part or in the middle, and   *)
(* URLs that match two routes.                                             *)
EXTENDS MCDatabase, HttpApi

MCUrls ==
    {<<"health-check">>, <<"">>, <<"ip-addresses">>, <<"ip-addresses", "">>,
     <<"ip-addresses", ipA>>, <<"ip-addresses", ipC>>, <<"ip-addresses", ipA, "x">>,
     <<"x", "ip-addresses", ipA>>, <<"ip-addresses", "ip-addresses", ipA>>,
     <<"ip-addresses", "ipset">>, <<"numbers">>, <<"numbers", num>>,
     <<"numbers", user>>, <<"ip-addresses", "numbers", num>>,
     <<"numbers", num, "x">>, <<"countries">>, <<"nothing">>}

MCRequests ==
    {[method |-> "GET", url |-> url, upload |-> FALSE] : url \in MCUrls}
      \cup [method: {"other"}, url: {<<"ip-addresses">>}, upload: {FALSE}]
      \cup [method: {"GET"}, url: {<<"ip-addresses">>}, upload: {TRUE}]
=============================================================================
