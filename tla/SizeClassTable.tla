--------------------------- MODULE SizeClassTable ---------------------------
(***************************************************************************)
(* size_class_table: the sizes of the 36 classes and the binary search that *)
(* finds the class of a request; and the table of arena::get_initializer,   *)
(* which says for objects of what size each class is built.  Pure           *)
(* functions, on every request up to a bound.  Sizes here are far below the *)
(* width of size_t.                                                         *)
(***************************************************************************)
EXTENDS Naturals, Sequences

CONSTANT MaxRequest     \* the largest request looked at (bounds the model)

CLASS_COUNT == 36
ClassIds == 0 .. CLASS_COUNT - 1

RoundUp8(n) == ((n + 7) \div 8) * 8

\* From class 16 on a class is a quarter larger than the one before.
Grown(size) == RoundUp8((size * 5) \div 4)

\* generate_size_classes()
table[i \in ClassIds] ==
  IF i = 0 THEN 8
  ELSE IF i <= 16 THEN table[i - 1] + 8
  ELSE Grown(table[i - 1])

class_to_size(c) == IF c < CLASS_COUNT THEN table[c] ELSE table[CLASS_COUNT - 1]

\* Mutant: the search goes right of a class that fits exactly.
TooSmallOrEqual(c, size) == table[c] <= size

TooSmall(c, size) == table[c] < size

\* size_to_class(): the search keeps the answer within left .. right.
size_to_class(size) ==
  LET search[range \in (0 .. CLASS_COUNT) \X (0 .. CLASS_COUNT)] ==
        LET left  == range[1]
            right == range[2]
            mid   == (left + right) \div 2
        IN  IF left >= right THEN left
            ELSE IF TooSmall(mid, size) THEN search[<<mid + 1, right>>]
            ELSE search[<<left, mid>>]
  IN  IF size <= 8 THEN 0 ELSE search[<<0, CLASS_COUNT>>]

\* The object sizes in the jump table of get_initializer().
init_table ==
  <<8, 16, 24, 32, 40, 48, 56, 64, 72, 80, 88, 96, 104, 112, 120, 128, 136, 160,
    192, 224, 256, 296, 352, 416, 496, 592, 704, 840, 1000, 1192, 1424, 1704,
    2032, 2424, 2896, 3456>>

\* Mutant: the search for the initializer stops at the entry before.
ObjectSizeBefore(c) == init_table[IF c = 0 THEN 1 ELSE c]

\* get_initializer(class_to_size(c)): the first class of that size is c.
ObjectSize(c) == init_table[c + 1]

\* arena::allocate and arena::deallocate leave a large request to the extents.
IsLarge(size) == size > class_to_size(CLASS_COUNT - 1)

-----------------------------------------------------------------------------
(* One request after another. *)
VARIABLE request

RequestInit == request = 1
RequestNext == request < MaxRequest /\ request' = request + 1
RequestSpec == RequestInit /\ [][RequestNext]_request

\* A request gets the smallest class that holds it; and none just when it is large, so
\* that the places that tell large requests from small ones agree: allocate() and
\* deallocate() compare sizes, deallocate_batch() and the thread cache compare the class
\* with CLASS_COUNT.  They agree on 10320 bytes, where the table ends; the README and a
\* comment in the arena's test say 3456, which is where the arena's table of objects ends.
TightestClass ==
  LET c == size_to_class(request)
  IN  /\ c \in ClassIds => table[c] >= request
      /\ \A d \in ClassIds : d < c => table[d] < request
      /\ c = CLASS_COUNT <=> IsLarge(request)

\* Up to class 16, where the sizes are multiples of 8, the arena builds the classes for
\* objects of the size that size_class_table gives, so that a request gets an object that
\* holds it.  (From class 17 on the two tables differ: 161 bytes get an object of 160.)
SmallObjectsFit ==
  LET c == size_to_class(request)
  IN  c <= 16 => ObjectSize(c) >= request /\ ObjectSize(c) < request + 8
=============================================================================
