------------------------------ MODULE MCFatDir ------------------------------
(***************************************************************************)
(* FatDir for TLC: good volumes with different layouts, some with several  *)
(* states of their two directories, and volumes that fat_mount refuses.    *)
(***************************************************************************)
EXTENDS FatDir

A == <<"a">>
BA == <<"b", ".", "a">>
BBBA == <<"b", "b", "b", ".", "a">>
D == <<"d">>
Up == <<".", ".">>
MCNames == {A, BBBA}

Path(parts) == [absolute |-> TRUE, parts |-> parts, slash |-> FALSE]
MCPaths ==
    {Path(<<>>), Path(<<BBBA>>), Path(<<D, A>>), Path(<<D, Up, D, BA>>), Path(<<BA, A>>),
     [Path(<<D, BBBA>>) EXCEPT !.slash = TRUE], [Path(<<A>>) EXCEPT !.absolute = FALSE]}

File(name, cluster, attrs) ==
    [name |-> to_fat_name(name), attrs |-> attrs, cluster |-> cluster, size |-> 1]
Dir(name, cluster) ==
    [name |-> to_fat_name(name), attrs |-> {"DIRECTORY"}, cluster |-> cluster, size |-> 0]
Deleted == [End EXCEPT !.name = DeletedName]
Long == [End EXCEPT !.name = <<"A", "x", "y">>, !.attrs = LongFilename]
Data == File(<<"x">>, 0, {})

\* The slots of the root directory and of the other one.
Sub(x, y) == <<Dir(<<".">>, 2), Dir(Up, 0), x, y>>
Trees ==
    {[root |-> <<Dir(D, 2), Deleted, File(A, 3, {}), End>>, sub |-> Sub(Deleted, End)],
     [root |-> <<Dir(D, 2), Long, Deleted, End>>, sub |-> Sub(Deleted, File(A, 0, {}))],
     [root |-> <<Deleted, Dir(D, 2), End, End>>, sub |-> Sub(File(BA, 3, {"HIDDEN"}), End)]}

Two(s, i) == [n \in 0 .. 1 |-> s[2 * i + n + 1]]

\* How a volume is formatted, with FATs of two sectors of four entries: hidden
\* sectors, FATs, blocks of a cluster, clusters, sectors left over behind them,
\* whether the large count of sectors is used, and the directory's clusters.
Format(hidden, fats, size, clusters, spare, large, chain, tree) ==
    LET fat0 == hidden + 1
        root == fat0 + 2 * fats
        data == root + 2
        last == data + size * clusters + spare - 1
        sectors == last + 1 - hidden
        bpb == [bytes_per_sector |-> 512, sectors_per_cluster |-> size,
                n_reserved_sectors |-> 1, n_fats |-> fats, n_dir_entries |-> 4,
                total_sectors |-> IF large THEN 0 ELSE sectors, sectors_per_fat |-> 2,
                n_hidden_sectors |-> hidden, large_sectors |-> IF large THEN sectors ELSE 0]
        place(c) == CHOOSE i \in DOMAIN chain : chain[i] = c
        link(c) == IF c \in Range(chain) /\ place(c) < Len(chain) THEN chain[place(c) + 1]
                   ELSE IF c \in {0, 1, 3} \cup Range(chain) THEN EOC ELSE 0
        content(c, k) == IF c \in Range(chain) THEN Two(tree.sub, (place(c) - 1) * size + k)
                         ELSE [n \in 0 .. 1 |-> IF c = 3 THEN Data ELSE End]
    IN  [blocks |-> [a \in 0 .. last |->
            CASE a < hidden -> [rel_sector |-> hidden]
              [] a = hidden -> bpb
              [] a \in fat0 .. root - 1 -> [k \in 0 .. 3 |-> link(4 * ((a - fat0) % 2) + k)]
              [] a \in root .. data - 1 -> Two(tree.root, a - root)
              [] a >= data -> content((a - data) \div size + 2, (a - data) % size)],
         dirs |-> (0 :> <<root, root + 1>>
                   @@ 2 :> [i \in 1 .. Len(chain) * size |->
                              data + (chain[((i - 1) \div size) + 1] - 2) * size + ((i - 1) % size)]),
         chains |-> (2 :> chain),
         layout |-> [fat0 |-> fat0, fats |-> fats, sectors |-> 2, root |-> root,
                     data |-> data, clusters |-> clusters, last |-> last]]

ATree == CHOOSE t \in Trees : TRUE

\* Two FATs, clusters of one block; the directory's are not neighbours and their
\* entries not in one sector.
Good(tree) == Format(1, 2, 1, 4, 0, FALSE, <<2, 4>>, tree)

\* One FAT, clusters of two blocks: of so many clusters.
OneFat(clusters) == Format(1, 1, 2, clusters, 1, TRUE, <<2>>, ATree)

\* A large offset of the volume; sectors of another size; three FATs.
Far == Format(20, 2, 1, 2, 0, FALSE, <<2>>,
              [ATree EXCEPT !.sub = SubSeq(@, 1, 2)])
OtherSectors == [Good(ATree) EXCEPT !.blocks[1].bytes_per_sector = 1024]
ThreeFats == Format(1, 3, 1, 4, 0, FALSE, <<2, 4>>, ATree)

MCImages ==
    {Good(t) : t \in Trees} \cup {OneFat(n) : n \in {2, 5, 6}}
        \cup {Far, OtherSectors, ThreeFats}
=============================================================================
