---------------------------- MODULE MCListeners ----------------------------
EXTENDS Listeners

App(pub, play) == [publisher |-> pub, player |-> play, relays |-> <<>>]
Relayed(types) == [publisher |-> "feed", player |-> "live", relays |-> types]

(* A block with its three specs, listen port and apps.                     *)
ServerBlock(pub, srtla, play, listen, apps) ==
  [publisher |-> pub, srtla |-> srtla, player |-> play, listen |-> listen, apps |-> apps,
   domain_publisher |-> "up", domain_player |-> <<"play", "up">>, crypto_ok |-> TRUE]

MCApps ==
  {<<>>, <<App("feed", "live")>>, <<App("feed", "")>>, <<App("", "live")>>,
   <<App("feed", "feed")>>, <<Relayed(<<"pull", "push", "pull">>)>>, <<Relayed(<<"push", "other">>)>>,
   <<App("feed", "live"), App("cam", "live")>>, <<App("feed", "live"), App("cam", "view")>>,
   <<App("feed", "live"), App("feed", "view")>>, <<App("feed", "live"), App("feed", "live")>>}

MCFirst == {ServerBlock(<<<<1, 2>>, <<2, 2>>>>, <<<<2, 3>>>>, <<<<3, 4>>>>, 1, apps) : apps \in MCApps}
             \cup {ServerBlock(<<>>, <<>>, <<<<1, 1>>>>, listen, apps) : listen \in {0, 2}, apps \in MCApps}
             \cup {ServerBlock(<<>>, <<>>, <<>>, 0, apps) : apps \in MCApps}
             \cup {ServerBlock(<<<<1, 1>>>>, <<bad>>, <<>>, 0, apps) : bad \in {<<3, 2>>, <<9, 10>>}, apps \in MCApps}
MCPlain == ServerBlock(<<>>, <<<<4, 5>>>>, <<<<1, 1>>>>, 2, <<App("feed", "live")>>)

MCConfs == {<<b>> : b \in MCFirst} \cup {<<b, MCPlain>> : b \in MCFirst}
             \cup {<<[MCPlain EXCEPT !.crypto_ok = FALSE]>>, <<[MCPlain EXCEPT !.domain_player = <<>>]>>,
                  <<[MCPlain EXCEPT !.domain_publisher = ""]>>}
=============================================================================
