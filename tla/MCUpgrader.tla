----------------------------- MODULE MCUpgrader -----------------------------
(* Packages of one and two images, every byte of which is sent, and        *)
(* directories of one and two files.                                       *)
EXTENDS Upgrader, TLC

I(size, data) == [size |-> size, data |-> data]

MCPackages == { << I(40, 40) >>, << I(3, 3), I(37, 37) >>, << I(997, 997), I(3, 3) >> }

\* Files that end everywhere in a block, and behind a read.
Bytes(n) == [i \in 1 .. n |-> i]
Sizes == 0 .. 9
Line(n, s) == [kind |-> "file", file |-> n, sum |-> s]
Archive == [kind |-> "zip", file |-> 0, sum |-> << >>]

Sound == [check |-> TRUE, programmers |-> {<<"prog_firehose_", ".elf">>, <<"prog_", ".mbn">>},
          files |-> [n \in Sizes |-> Bytes(n)],
          list |-> << Archive >> \o [i \in 1 .. 10 |-> Line(i - 1, Sum(Bytes(i - 1)))]]
Damaged == [Sound EXCEPT !.files[3] = << 1, 2, 4 >>]
Incomplete == [Sound EXCEPT !.files = [n \in 0 .. 7 |-> Bytes(n)]]

MCDirectories == { Sound, Damaged, Incomplete, [Damaged EXCEPT !.check = FALSE],
                   [Damaged EXCEPT !.list = << >>], [Sound EXCEPT !.programmers = {}] }
=============================================================================
