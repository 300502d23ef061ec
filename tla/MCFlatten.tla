------------------------------ MODULE MCFlatten ------------------------------
(***************************************************************************)
(* Flatten and BundleProof on twelve bundles.  "shop": a crew, a pool and  *)
(* a queue, with event links that chain and close a ring, token links      *)
(* between places that hold tokens and are bounded, guards that every      *)
(* lowering can and cannot express, and links a port, a schema or a net    *)
(* type forbids.  "lone": one net with parallel arcs, as it is or linked   *)
(* to itself, and with an arc told to be no matter of rates that takes     *)
(* nothing.  "cells": data places and token places of which each two agree *)
(* and all three may not, and an observer.  "proved": two parts each, of   *)
(* which a record is asked with ample and with scant limits.               *)
(***************************************************************************)
EXTENDS BundleProof

E(s, n) == <<s, n>>
At(s, n) == [subnet |-> s, port |-> "", elem |-> n]
By(s, n) == [subnet |-> s, port |-> n, elem |-> ""]
Link(id, kind, x, y) == [id |-> <<"link", id>>, kind |-> kind, from |-> x, to |-> y, op |-> ">", n |-> 0, lowering |-> "auto"]
If(x, y, op, n, lowering) == [Link("", "guard", x, y) EXCEPT !.op = op, !.n = n, !.lowering = lowering]
Arc1(x, y, typ, weight) == [from |-> x, to |-> y, weight |-> weight, typ |-> typ, kinetic |-> TRUE]
Still(a) == [a EXCEPT !.kinetic = FALSE]
NoPorts == [n \in {} |-> 0]

\* A crew of two, idle, busy or away, and a log of at most one entry;
\* finishing is no matter of rates.
Crew ==
  [id |-> "w", type |-> "resource",
   places |-> <<Cell(E("w", "away"), 0, 0, TRUE), Cell(E("w", "busy"), 0, 0, TRUE), Cell(E("w", "idle"), 2, 2, TRUE),
                Cell(E("w", "log"), 0, 1, FALSE)>>,
   transitions |-> <<E("w", "finish"), E("w", "leave"), E("w", "start")>>,
   arcs |-> <<Moves1(E("w", "idle"), E("w", "start")), Moves1(E("w", "start"), E("w", "busy")),
              Still(Moves1(E("w", "busy"), E("w", "finish"))), Moves1(E("w", "finish"), E("w", "idle")),
              Arc1(E("w", "finish"), E("w", "log"), "normal", 0),
              Moves1(E("w", "idle"), E("w", "leave")), Moves1(E("w", "leave"), E("w", "away"))>>,
   laws |-> {Law({E("w", "away"), E("w", "idle"), E("w", "busy")}, 2)}, ports |-> NoPorts]

\* Two arcs of one weight in parallel, a read and an inhibitor.
Single ==
  [id |-> "x", type |-> "untyped",
   places |-> <<Cell(E("x", "a"), 1, 0, TRUE), Cell(E("x", "b"), 0, 2, TRUE)>>,
   transitions |-> <<E("x", "t"), E("x", "u")>>,
   arcs |-> <<Moves1(E("x", "a"), E("x", "t")), Moves1(E("x", "a"), E("x", "t")), Moves1(E("x", "t"), E("x", "b")),
              Arc1(E("x", "b"), E("x", "u"), "inhibitor", 2), Arc1(E("x", "b"), E("x", "u"), "inhibitor", 1),
              Moves1(E("x", "u"), E("x", "b")),
              Arc1(E("x", "a"), E("x", "u"), "read", 1)>>,
   laws |-> {}, ports |-> NoPorts]

Datum(id, typ, value) == [Cell(id, 0, 0, TRUE) EXCEPT !.token = FALSE, !.typ = typ, !.value = value]
Holder(s, typ, value, type) ==
  [id |-> s, type |-> type,
   places |-> <<Datum(E(s, "d"), typ, value), [Cell(E(s, "n"), 1, 0, TRUE) EXCEPT !.typ = typ]>>,
   transitions |-> <<E(s, "t")>>,
   arcs |-> <<Arc1(E(s, "n"), E(s, "t"), "read", 1), Arc1(E(s, "d"), E(s, "t"), "normal", 1)>>,
   laws |-> {}, ports |-> NoPorts]
Maker(h) == [h EXCEPT !.arcs = @ \o <<Arc1(E(h.id, "t"), E(h.id, "n"), "normal", 1)>>,
                      !.places = <<@[1], [@[2] EXCEPT !.capacity = 4]>>]

Shop(max, size, candidates) == [subnets |-> <<Pool("p", size), Queue("q", size, size), Crew>>, max_merge |-> max, candidates |-> candidates, asks |-> {}]

Starting == Link("", "event", At("w", "start"), By("p", "acquire"))
Finishing == Link("done", "event", At("w", "finish"), By("p", "release"))
Leaving == Link("", "event", At("w", "leave"), By("p", "acquire"))

\* Transitions fused in chains and a ring.
EventLinks ==
  {Starting, Finishing, Leaving,
   Link("done", "event", By("q", "enqueue"), At("w", "finish")),
   Link("more", "event", By("p", "release"), By("q", "enqueue")),
   Link("", "event", By("q", "dequeue"), At("w", "start"))}

\* Places joined, and guards on what is.
PlaceLinks ==
  {Starting, Finishing,
   Link("", "token", At("w", "idle"), By("p", "available")),
   Link("", "token", By("p", "in_use"), At("w", "busy")),
   If(At("w", "start"), At("q", "items"), ">=", 1, "structural"),
   If(By("p", "release"), At("q", "items"), "==", 0, "inhibitor"),
   If(By("q", "enqueue"), By("p", "in_use"), "!=", 0, "auto")}

BadLinks ==
  {Link("", "token", By("q", "out"), By("p", "available")),
   Link("", "token", By("q", "in"), At("w", "busy")),
   Link("", "token", At("w", "finish"), At("w", "busy")),
   Link("", "event", By("q", "enqueues"), At("w", "start")),
   Link("", "data", By("q", "depth"), At("w", "busy")),
   If(By("p", "release"), At("q", "items"), ">", 0, "inhibitor"),
   If(By("p", "release"), At("q", "items"), "!=", 1, "structural")}

LoneGuard == If(At("x", "t"), By("x", "b"), "<", 1, "auto")
LoneLinks == {Link("both", "event", At("x", "t"), At("x", "u")), LoneGuard}

\* An arc out of a transition, told to be no matter of rates: by itself the net
\* is taken as it is, linked it is refused.
Misplaced == [Single EXCEPT !.arcs[3] = Still(@)]

CellLinks ==
  {Link("", "token", At("h", "d"), By("i", "d")), Link("", "data", At("i", "d"), By("j", "d")),
   Link("", "data", At("h", "n"), By("i", "n")), Link("", "token", At("j", "n"), At("i", "n")),
   Link("", "token", At("h", "n"), At("h", "d")), Link("", "event", At("h", "t"), At("i", "t"))}

Ask(states, tokens, ablate) == [states |-> states, tokens |-> tokens, ablate |-> ablate]
Proved(a, b, candidates, asks) == [subnets |-> <<a, b>>, max_merge |-> FALSE, candidates |-> candidates, asks |-> asks]

\* What joins a pool and a queue, both of one.
GlueLinks ==
  {Link("", "event", By("p", "acquire"), By("q", "enqueue")), Link("", "event", By("p", "acquire"), By("q", "dequeue")),
   Link("", "event", By("q", "dequeue"), By("p", "release")), Link("", "token", At("q", "items"), At("p", "available")),
   If(By("q", "enqueue"), By("p", "in_use"), ">", 0, "structural")}

MCProved ==
  {Proved(Pool("p", 1), Queue("q", 1, 0), GlueLinks, {Ask(20, 4, TRUE), Ask(3, 4, TRUE), Ask(1, 4, FALSE)}),
   Proved(Pool("p", 1), Queue("q", 1, 1), {l \in GlueLinks : l.kind = "token"}, {Ask(20, 4, TRUE)}),
   Proved(Pool("p", 1), Queue("q", 0, 0), GlueLinks, {Ask(8, 2, TRUE)}),
   Proved(Pool("p", 1), Crew, {Starting, Finishing, Link("", "token", At("w", "idle"), By("p", "available")),
                               Link("", "event", At("w", "leave"), At("w", "finish"))}, {Ask(40, 4, TRUE)})}

MCBundles == MCProved \cup
  {Shop(FALSE, 1, EventLinks), Shop(FALSE, 1, PlaceLinks), Shop(TRUE, 2, {Starting, Finishing, Leaving}),
   Shop(FALSE, 1, BadLinks),
   [subnets |-> <<Single>>, max_merge |-> FALSE, candidates |-> LoneLinks, asks |-> {}],
   [subnets |-> <<Misplaced>>, max_merge |-> FALSE, candidates |-> {LoneGuard}, asks |-> {}],
   [subnets |-> <<Maker(Holder("h", "A", "", "game")), Holder("i", "", "", "workflow"), Holder("j", "B", "v", "untyped")>>,
    max_merge |-> FALSE, candidates |-> CellLinks, asks |-> {}],
   [subnets |-> <<Maker(Holder("h", "A", "u", "game")), Holder("i", "", "", "resource"), Holder("j", "A", "v", "computation")>>,
    max_merge |-> FALSE, candidates |-> CellLinks, asks |-> {}]}

\* All elements: those that count, those that hold data, those that fire; and in
\* the order of their names.
From(s, names) == {<<s, n>> : n \in names}
MCPlace ==
  From("p", {"available", "in_use"}) \cup From("q", {"items", "slots"}) \cup From("w", {"away", "busy", "idle", "log"})
  \cup From("x", {"a", "b"}) \cup From("h", {"n"}) \cup From("i", {"n"}) \cup From("j", {"n"})
MCDataPlace == From("h", {"d"}) \cup From("i", {"d"}) \cup From("j", {"d"})
MCTransition ==
  From("p", {"acquire", "release"}) \cup From("q", {"dequeue", "enqueue"}) \cup From("w", {"finish", "leave", "start"})
  \cup From("x", {"t", "u"}) \cup From("h", {"t"}) \cup From("i", {"t"}) \cup From("j", {"t"})
  \cup From("link", {"done", "more", "both"})

MCNames ==
  <<E("p", "acquire"), E("p", "available"), E("p", "in_use"), E("p", "release"),
    E("q", "dequeue"), E("q", "enqueue"), E("q", "items"), E("q", "slots"),
    E("w", "away"), E("w", "busy"), E("w", "finish"), E("w", "idle"), E("w", "leave"), E("w", "log"), E("w", "start"),
    E("x", "a"), E("x", "b"), E("x", "t"), E("x", "u"),
    E("h", "d"), E("h", "n"), E("h", "t"), E("i", "d"), E("i", "n"), E("i", "t"), E("j", "d"), E("j", "n"), E("j", "t")>>

=============================================================================
