---------------------------- MODULE MCWeakMemory ----------------------------
(***************************************************************************)
(* Programs for WeakMemory: the litmus tests of test/weakmem and families  *)
(* of all small programs.                                                  *)
(***************************************************************************)
EXTENDS WeakMemory

Store_(a, v) == [op |-> "store", addr |-> a, val |-> v]
ScStore(a, v) == [op |-> "scstore", addr |-> a, val |-> v]
Load_(a) == [op |-> "load", addr |-> a]
Swap(a, v) == [op |-> "swap", addr |-> a, val |-> v]
Cas(a, c, v) == [op |-> "cas", addr |-> a, cmp |-> c, val |-> v]
WeakCas(a, c, v) == [op |-> "weakcas", addr |-> a, cmp |-> c, val |-> v]
Fence_ == [op |-> "fence", addr |-> "x"]
Join == [op |-> "join", addr |-> "x"]

\* A program in which the other threads are idle.
Program(bound, code) ==
  [bound |-> bound, code |-> [t \in Threads |-> IF t \in DOMAIN code THEN code[t] ELSE <<>>]]

\* The tests of test/weakmem/x86-tso, and one with longer buffers.  Thread 1 is main; where a test asserts about the
\* final values, it joins the other threads and reads them.
Litmus ==
  LET x == "x" y == "y"
  IN {Program(0, c) : c \in {
      \* sb, amd5
      << <<Store_(y, 1), Load_(x), Load_(y)>>, <<Store_(x, 1), Load_(y), Load_(x)>> >>,
      << <<Store_(y, 1), Fence_, Load_(x), Load_(y)>>, <<Store_(x, 1), Fence_, Load_(y), Load_(x)>> >>,
      \* n4b, n5, n6
      << <<Load_(x), Store_(x, 1), Join, Load_(x)>>, <<Load_(x), Store_(x, 2), Fence_>> >>,
      << <<Store_(x, 1), Load_(x), Join, Load_(x)>>, <<Store_(x, 2), Load_(x), Fence_>> >>,
      << <<Store_(x, 1), Load_(x), Load_(y), Join, Load_(x)>>, <<Store_(y, 2), Store_(x, 2), Fence_>> >>,
      \* load-store-noreorder, store-store-noreorder
      << <<Load_(x), Store_(y, 1)>>, <<Load_(y), Store_(x, 1)>> >>,
      << <<Store_(x, 1), Store_(y, 1)>>, <<Load_(y), Load_(x)>> >>,
      \* load-xchg-noreorder, store-xchg-noreorder
      << <<Swap(x, 1), Load_(y)>>, <<Swap(y, 1), Load_(x)>> >>,
      << <<Swap(x, 1), Store_(y, 1)>>, <<Load_(y), Load_(x)>> >>,
      \* store-transitive
      << <<Store_(x, 1)>>, <<Load_(x), Store_(y, 1)>>, <<Load_(y), Load_(x)>> >>,
      \* iriw
      << <<Store_(x, 1)>>, <<Store_(y, 1)>>, <<Load_(x), Load_(y)>>, <<Load_(y), Load_(x)>> >>,
      \* flush-fence-a, store-grouping
      << <<Store_(x, 1), Store_(y, 1), Join, Load_(y), Load_(x)>>,
         <<Store_(x, 2), Store_(y, 2), Fence_>> >>,
      << <<Store_(x, 3), Store_(y, 3), Join, Load_(y), Load_(x)>>,
         <<Store_(x, 1), Store_(y, 1), Store_(y, 2), Fence_>> >>,
      \* the middle of a buffer is read
      << <<Store_(x, 1), Store_(y, 1), Store_(x, 2), Store_(y, 2)>>, <<Load_(y), Load_(x), Load_(y)>> >> }}

\* Two threads of two instructions each, with every kind of operation, and buffers with
\* place for one store, or of any size.
Small ==
  LET Instructions(v) ==
        UNION {{Store_(a, v), ScStore(a, v), Load_(a), Swap(a, v)} : a \in Addresses}
        \cup {Fence_, Cas("x", 0, v), WeakCas("x", 0, v)}
  IN  {Program(n, << <<i1, i2>>, <<j1, j2>> >>) :
         n \in {0, 1}, i1 \in Instructions(1), i2 \in Instructions(2),
         j1 \in Instructions(3), j2 \in Instructions(4)}

LitmusAndSmall == Litmus \cup Small

\* The same operations, one thread with four of them: a store that the other thread has
\* seen the successor of, and a later store to the same location.
Overtaken ==
  {Program(0, << <<Store_("y", 1), Store_("x", 1)>>,
                 <<Load_("x"), Store_("y", 2), Fence_, Load_("y")>> >>)}
=============================================================================
