------------------------------- MODULE Tokens -------------------------------
(***************************************************************************)
(* Command-line words, tokens, and how a token names a node.               *)
(*                                                                         *)
(* Text is a sequence of atoms: the two prefixes, the value separator, and *)
(* the pieces no operation of the parser splits (a name, a value, and in a *)
(* collapsed short-form word every grapheme cluster by itself).  So --all, *)
(* -ab and --num=7 are <<"--", "all">>, <<"-", "a", "b">> and              *)
(* <<"--", "num", "=", "7">>.  The two prefixes are different atoms, so    *)
(* config::short_prefix != config::long_prefix.                            *)
(*                                                                         *)
(* A name a node does not have is the empty text <<>>.                     *)
(***************************************************************************)
EXTENDS Integers, Sequences

LongPrefix  == "--"
ShortPrefix == "-"
Separator   == "="

\* token_type: a prefix and the text after it.  A word that nobody has looked
\* at yet is a token with no prefix and the whole word as its name.
Token(pre, name) == [pre |-> pre, name |-> name]

Raw(word) == Token("none", word)

StartsWith(word, prefix) == word # <<>> /\ Head(word) = prefix

\* get_token_type(token)
GetTokenType(word) ==
  CASE StartsWith(word, LongPrefix)  -> Token("long", Tail(word))
    [] StartsWith(word, ShortPrefix) -> Token("short", Tail(word))
    [] OTHER                         -> Raw(word)

HasLong(node)  == node.long # <<>>
HasShort(node) == node.short # <<>>
HasNone(node)  == node.none # <<>>

\* A node is named when it has a name that can be typed.
IsNamed(node) == HasLong(node) \/ HasShort(node) \/ HasNone(node)

\* get_token_type(node, token): only the prefixes of the names node has
GetTokenTypeFor(node, word) ==
  CASE HasLong(node) /\ StartsWith(word, LongPrefix)   -> Token("long", Tail(word))
    [] HasShort(node) /\ StartsWith(word, ShortPrefix) -> Token("short", Tail(word))
    [] OTHER                                           -> Raw(word)

\* A token without a prefix may be an unprocessed word; any other is kept.
AsLabelOf(node, tok) ==
  IF tok.pre = "none" THEN GetTokenTypeFor(node, tok.name) ELSE tok

\* parsing::match<Node>(token)
Match(node, tok) ==
  \/ HasLong(node)  /\ tok = Token("long", node.long)
  \/ HasShort(node) /\ tok = Token("short", node.short)
  \/ HasNone(node)  /\ tok = Token("none", node.none)
=============================================================================
