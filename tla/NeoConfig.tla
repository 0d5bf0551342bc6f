------------------------------ MODULE NeoConfig ------------------------------
(***************************************************************************)
(* The configuration parser of neobuild.c over strix: settings "key = value"  *)
(* separated by semicolons.  str is what the file holds.  (Lack of memory      *)
(* makes it return NULL.)                                                    *)
(***************************************************************************)
EXTENDS Strix

\* What separates two settings.
Semicolon == ";"

\* NULL is neither a string nor an array of settings.
ASSUME ConfigAssumption ==
  LET chars == (UNION {{w[i] : i \in DOMAIN w} : w \in UNION WordSets}) \cup {Semicolon, "="}
  IN  NoStr \notin Seq(chars) /\ NoStr \notin Seq([key : Seq(chars), value : Seq(chars)])

Setting(key, value) == [key |-> key, value |-> value]

\* Mutant: white space is left in.
MutBare(s) == s

\* Without white space, wherever it stands.
Bare(s) == ElementsAt(s, {i \in DOMAIN s : s[i] \notin White})

\* A piece with a "=" in it, of which the first counts.
IsSetting(piece) == \E i \in DOMAIN piece : piece[i] = "="
SettingOf(piece) ==
  LET eq == CHOOSE i \in DOMAIN piece : piece[i] = "=" /\ \A h \in 1..(i - 1) : piece[h] # "="
  IN  Setting(Bare(SubSeq(piece, 1, eq - 1)), Bare(SubSeq(piece, eq + 1, Len(piece))))

\* neo_parse_config of a file that holds s; NoStr for the NULL pointer, which also an
\* empty file gives.
ParseConfig(s) ==
  LET pieces == SplitByDelim(s, Semicolon)
      settings == ElementsAt(pieces, {k \in DOMAIN pieces : IsSetting(pieces[k])})
  IN  IF Create(s) = NoStr \/ settings = <<>> THEN NoStr
      ELSE [k \in DOMAIN settings |-> SettingOf(settings[k])]

-----------------------------------------------------------------------------
Rendered(x) == x.key \o <<"=">> \o x.value

\* What was parsed can be written to a file and is parsed again: no separator and no
\* white space gets into a key, the value of a setting keeps its further "=", and the
\* settings stay in order.  NULL is returned exactly when there is no setting.
ConfigExact ==
  Readable =>
    LET settings == ParseConfig(str)
    IN  /\ settings = NoStr <=> \A i \in DOMAIN str : str[i] # "="
        /\ settings # NoStr =>
             /\ ParseConfig(Join([k \in DOMAIN settings |-> Rendered(settings[k])], <<Semicolon>>))
                  = settings
             /\ \A k \in DOMAIN settings, c \in White \cup {Semicolon} :
                  /\ \A i \in DOMAIN settings[k].key : settings[k].key[i] \notin {c, "="}
                  /\ \A i \in DOMAIN settings[k].value : settings[k].value[i] # c
=============================================================================
