------------------------- MODULE MCManagedResources -------------------------
(***************************************************************************)
(* Instances of ManagedResources for TLC.                                  *)
(***************************************************************************)
EXTENDS ManagedResources

Asks(class, usage, pool) ==
  [class |-> class, usage |-> usage, pool |-> pool, shared |-> FALSE,
   shape |-> TRUE]

\* The creations of the startup, and some the rules leave alone.
Texture == Asks("texture2d", {}, "managed")
Dynamic == Asks("texture2d", {"dynamic"}, "default")
VertexBuffer == Asks("vertex_buffer", {"writeonly"}, "managed")
SomeRequests == { Texture, Dynamic, VertexBuffer }
AllRequests ==
  SomeRequests \cup
  { Asks("cube_texture", {}, "managed"),
    Asks("index_buffer", {"writeonly"}, "managed"),
    Asks("volume_texture", {}, "managed"),
    Asks("texture2d", {"other"}, "managed"), [Texture EXCEPT !.shape = FALSE],
    [Texture EXCEPT !.shared = TRUE] }

Switches(ex, census, semantic, fallback, probe) ==
  [ex |-> ex, census |-> census, semantic |-> semantic,
   fallback |-> fallback, probe |-> probe]
Census == Switches(FALSE, TRUE, FALSE, FALSE, FALSE)
Adaptation == Switches(TRUE, FALSE, TRUE, TRUE, FALSE)
Probe == Switches(FALSE, TRUE, TRUE, FALSE, TRUE)

CONSTANTS t1, t2, a1, a2, s1

Game(switches, requests, crew, memory, objects, generations, refusals) ==
  [opt |-> switches, requests |-> requests, crew |-> crew, memory |-> memory,
   objects |-> objects, generations |-> generations, faults |-> refusals]

\* One thread under the adaptation, with room to reuse an address; a short one
\* under every combination of switches; the content probe over two Resets; two
\* threads that are traced, over a reused address and over two Resets.
AllGames ==
  { Game(Adaptation, SomeRequests, {t1}, {a1, a2, s1}, 2, 2, 0),
    Game(Probe, {Texture, Dynamic}, {t1}, {a1}, 2, 3, 0),
    Game(Census, {Texture}, {t1, t2}, {a1}, 2, 2, 1),
    Game(Census, {Texture}, {t1, t2}, {a1}, 1, 3, 0) }
  \cup { Game(s, AllRequests, {t1}, {a1}, 1, 2, 1) : s \in {x \in Setting : ~x.probe} }
=============================================================================
