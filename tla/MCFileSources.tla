---------------------------- MODULE MCFileSources ----------------------------
(* Every way to put the rasters and palettes of up to two textures over a  *)
(* file of five bytes, three parts at most; every file of up to three      *)
(* segments of zero to two bytes, one of them the font.                    *)
EXTENDS FileSources

AllParts == {p \in [tex : 1 .. 2, type : {"raster", "palette"}, offset : 0 .. 4, size : 1 .. 3] :
               p.offset + p.size <= 5}
Possible(ps) ==
  /\ \A p, q \in ps : p # q => Apart(p, q) /\ <<p.tex, p.type>> # <<q.tex, q.type>>
  /\ \A p \in ps : \E q \in ps : q.tex = p.tex /\ q.type = "raster"
MCPatched == {ps \in {{p, q, r} : p, q, r \in AllParts} : Possible(ps)}

MCFonts == {ss \in UNION {[1 .. n -> [font : BOOLEAN, size : 0 .. 2]] : n \in 1 .. 3} :
              Cardinality({i \in DOMAIN ss : ss[i].font}) = 1}
=============================================================================
