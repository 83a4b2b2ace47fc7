---------------------------- MODULE MCFileReader ----------------------------
(* Small instances of FileReader: every ascending file of up to three keys, *)
(* the key 0 among them, and every key or nothing behind it.                *)
EXTENDS FileReader

SmallFiles ==
    {f \in UNION {[1 .. n -> Keys] : n \in 1 .. 3} :
        \A i, j \in DOMAIN f : i < j => f[i] < f[j]}

AnyPast == Keys \union {Unmapped}
=============================================================================
