------------------------- MODULE MCPackageManifest -------------------------
(* Small folders and zips for PackageManifest. *)
EXTENDS PackageManifest, TLC

CONSTANTS c1, c2

plain  == <<"a">>
nested == <<"d", "\\", "b">>
deep   == <<"d", "\\", "e", "\\", "b">>
posix  == <<"d", "/", "b">>
store  == <<".DS_Store">>
storeN == <<"d", "\\", ".DS_Store">>
mac    == <<"__MACOSX", "/", "a">>
folder == <<"d", "/">>

Names == {plain, nested, deep, posix, store, storeN, mac, folder}
         \cup {slash(n) : n \in {deep, storeN}}

\* An empty folder; files to be passed over among others; the same two files
\* with other contents; names that differ in the separator; a name of two
\* backslashes.
SmallTrees ==
    {EmptyMap,
     (plain :> c1) @@ (nested :> c2) @@ (storeN :> c1),
     (plain :> c2) @@ (nested :> c2),
     (posix :> c1) @@ (store :> c2),
     (nested :> c1) @@ (posix :> c2),
     (plain :> c1) @@ (deep :> c2)}

E(n, c) == [name |-> n, content |-> c]

\* An empty zip; one by another tool; one with a name twice.
OtherZips ==
    {<<>>,
     <<E(mac, c1), E(folder, c1), E(posix, c2)>>,
     <<E(plain, c1), E(nested, c1), E(posix, c2)>>}
=============================================================================
