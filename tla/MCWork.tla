------------------------------- MODULE MCWork -------------------------------
(* Four callbacks in two slots; the kinds of their methods differ. *)
EXTENDS Work

K(decorator, form, indices) == [decorator |-> decorator, form |-> form, indices |-> indices]
MCKinds == {<<K("span", "async", TRUE), K("transaction", "sync", TRUE),
              K("log", "promise", FALSE), K("span", "sync", TRUE)>>,
            <<K("span", "promise", TRUE), K("log", "async", FALSE),
              K("transaction", "async", TRUE), K("span", "async", FALSE)>>,
            <<K("log", "sync", TRUE), K("span", "sync", TRUE),
              K("transaction", "promise", TRUE), K("span", "async", TRUE)>>}
=============================================================================
