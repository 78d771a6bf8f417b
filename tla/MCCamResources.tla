--------------------------- MODULE MCCamResources ---------------------------
(* Every path of up to three parts as a base and as a reference, with a plain *)
(* name, one that starts with a dot and one that is escaped; every base 32    *)
(* text of up to six characters, every sequence of up to five bytes, from     *)
(* digits and bytes at the boundaries.                                        *)
EXTENDS CamResources

Texts(set, n) == UNION {[1..k -> set] : k \in 1..n}

RefSuffixes == {None, "query"}
Plain == {p \in Texts(Parts, 3) : p # <<"">> /\ ~ (Len(p) > 2 /\ p[1] = "" /\ p[2] = "")}
Rooted == {<<"">> \o p : p \in Texts(Parts, 2)} \cup {<<"">>}

Bases ==
  [form : {"hierarchical"}, path : Rooted, suffix : {None}] \cup
  [form : {"opaque"}, path : {<<"a">>}, suffix : {None}] \cup
  [form : {"plain"}, path : Plain, suffix : {None}]

Uris ==
  [form : {"scheme"}, scheme : {"http", "https", "ipfs", "ftp"}, credentials : BOOLEAN, raw : BOOLEAN,
   cid : BOOLEAN, path : {<<"a">>, <<"a", "..">>, <<"%5c">>}]

Refs ==
  [form : {"path"}, path : Plain, suffix : RefSuffixes] \cup
  [form : {"schemeRelative", "query", "fragment"}]

MCQuestions ==
  [op : {"resolve"}, base : Bases, ref : Refs] \cup
  [op : {"resolve"}, base : {[form |-> "hierarchical", path |-> <<"">>, suffix |-> None]}, ref : Uris] \cup
  [op : {"root"}, uri : Uris] \cup
  [op : {"base32"}, digits : Texts({0, 1, 16, 31}, 6)] \cup
  [op : {"base58"}, digits : Texts({0, 1, 57}, 5)] \cup
  [op : {"varint"}, bytes : Texts({0, 1, 127, 128, 129, 255}, 4)] \cup
  [op : {"cid"}, bytes : Texts({0, 1, 18, 85, 128, 129, 146}, 5)] \cup
  [op : {"integrity"}, integrity : [prefix : {"sha256", "sha512"}, spelling : {"lower", "upper", "short"}, digest : 1..2],
   actual : 1..2]
=============================================================================
