-------------------------- MODULE MCMonitorAndMail --------------------------
(* Two wallets, both paid by one transaction, or with a subscriber each.    *)
EXTENDS MonitorAndMail

CONSTANTS w1, w2, a, b, c, d, x, y

MCPreferences ==
  (w1 :> << [pocketeerId |-> a, email |-> x], [pocketeerId |-> b, email |-> x],
            [pocketeerId |-> d, email |-> y] >>) @@
  (w2 :> << [pocketeerId |-> c, email |-> x] >>)

MCOuts == << [walletId |-> w1, isChange |-> FALSE], [walletId |-> w2, isChange |-> FALSE],
             [walletId |-> w1, isChange |-> TRUE] >>

MCSubscriber == (w1 :> {b}) @@ (w2 :> {c})

MCMembers == (w1 :> <<a, b, d>>) @@ (w2 :> <<c>>)

MCQuorum == (w1 :> 2) @@ (w2 :> 1)

MCCoinUnit == (w1 :> Unset) @@ (w2 :> "bch")

MCInitialPreferences ==
  (a :> [language |-> "es", unit |-> "bit"]) @@ (b :> [language |-> Unset, unit |-> "bit"]) @@
  (c :> [language |-> "es", unit |-> "bit"]) @@ (d :> [language |-> "en", unit |-> Unset])

MCInitialDevices == {<<a, "t1">>, <<b, "t1">>, <<d, "t2">>, <<c, "t2">>}

Story(tx, block, subscribe, acting, statuses, service) ==
  [due |-> [tx |-> tx, block |-> block, subscribe |-> subscribe], docs |-> statuses,
   acts |-> acting, listening |-> service,
   clock |-> IF service = "none" THEN MaxClock ELSE 0]

\* Repeated events, and how they are told; then one event, and its mails or
\* pushes; what a pocketeer does, and its pushes; and a client that polls.
MCStories ==
  {Story(2, 0, 0, 0, << >>, "none"), Story(1, 0, 0, 0, <<"accepted">>, "none"),
   Story(0, 2, 3, 0, << >>, "none"),
   Story(1, 0, 0, 0, << >>, "mail"), Story(0, 1, 1, 0, << >>, "mail"),
   Story(0, 1, 1, 0, << >>, "push"), Story(0, 0, 0, 1, << >>, "push"),
   Story(0, 0, 0, 0, << >>, "poll")}

Symmetry == Permutations(Process) \cup Permutations(Event)

=============================================================================
