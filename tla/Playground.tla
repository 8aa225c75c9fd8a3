----------------------------- MODULE Playground -----------------------------
(***************************************************************************)
(* The embedding playground (services/embeddings.py, routers/              *)
(* embeddings.py): a picker that lists the providers from the settings     *)
(* alone, and two calls that refuse what cannot work and compare vectors.  *)
(***************************************************************************)
EXTENDS Integers, Sequences

CONSTANTS
  KeyValues,  \* what a key field of the settings may hold
  Upstream,   \* vectors a provider may return
  NoCall

\* The floats of a vector are integers here.
ASSUME PlayAssumption == Upstream \subseteq Seq(Int)

VARIABLES
  keys,  \* settings field -> its value, fixed while the process lives
  call   \* the last call with its answer, or NoCall

playVars == <<keys, call>>

Registered == {"deepseek", "gemini", "openrouter"}
Fields == {"deepseek_api_key", "gemini_api_key", "google_api_key", "openrouter_api_key"}
Placeholder == "sk-replace-me"

PlayInit ==
  /\ keys \in [Fields -> KeyValues]
  /\ call = NoCall

\* key_resolver; Gemini's key may be in either of two fields.
ResolvedKey(p) ==
  CASE p = "deepseek"   -> keys["deepseek_api_key"]
    [] p = "openrouter" -> keys["openrouter_api_key"]
    [] p = "gemini"     -> IF keys["gemini_api_key"] # "" THEN keys["gemini_api_key"]
                           ELSE keys["google_api_key"]

\* DeepSeek's embed only raises NotImplementedError.
CanEmbed(p) == p # "deepseek"

\* Mutant: the placeholder counts as a key.
ListedAnyKey(p) ==
  [supports_embed |-> CanEmbed(p), key_configured |-> ResolvedKey(p) # ""]
\* list_providers.
Listed(p) ==
  [supports_embed |-> CanEmbed(p), key_configured |-> ResolvedKey(p) \notin {"", Placeholder}]

\* An answer of the API: a status, and what goes with it.
Refused(code) == [status |-> 422, code |-> code]
Broken == [status |-> 500, code |-> "internal_error"]

-----------------------------------------------------------------------------
\* What a provider does with one text: an exception, no vector, or a vector.
Raises == [kind |-> "raises", vector |-> <<>>]
Nothing == [kind |-> "nothing", vector |-> <<>>]
Outcomes == {Raises, Nothing} \cup {[kind |-> "vector", vector |-> v] : v \in Upstream}

\* embed_text: the first thing that is wrong decides.
EmbedText(p, outcome) ==
  CASE p \notin Registered -> Refused("provider_unknown")
    [] p \in Registered /\ ResolvedKey(p) \in {"", Placeholder} -> Refused("provider_key_missing")
    [] OTHER ->
         IF ~CanEmbed(p) THEN Refused("provider_does_not_support_embedding")
         ELSE IF outcome = Raises THEN Broken
         ELSE IF outcome = Nothing THEN Refused("provider_does_not_support_embedding")
         ELSE [status |-> 200, code |-> "", vector |-> outcome.vector]

\* sum(...) of as many numbers.
Total(s) ==
  LET upto[i \in 0..Len(s)] == IF i = 0 THEN 0 ELSE upto[i - 1] + s[i] IN upto[Len(s)]

Dot(a, b) == Total([i \in DOMAIN a |-> a[i] * b[i]])

\* Mutant: the zero vector is not set apart.
CosineUnguarded(a, b) ==
  [sign |-> IF Dot(a, b) < 0 THEN -1 ELSE 1, num |-> Dot(a, b) * Dot(a, b), den |-> Dot(a, a) * Dot(b, b)]
\* cosine_similarity, as its sign and the fraction that is its square.
Cosine(a, b) ==
  IF Dot(a, a) = 0 \/ Dot(b, b) = 0 THEN [sign |-> 1, num |-> 0, den |-> 1]
  ELSE [sign |-> IF Dot(a, b) < 0 THEN -1 ELSE 1,
        num  |-> Dot(a, b) * Dot(a, b),
        den  |-> Dot(a, a) * Dot(b, b)]

\* euclidean, squared.
Distance(a, b) == Total([i \in DOMAIN a |-> (a[i] - b[i]) * (a[i] - b[i])])

\* similarity: the texts one after the other; the metrics refuse empty
\* vectors with a ValueError that nothing catches.
Compare(p, first, second) ==
  LET a == EmbedText(p, first)
      b == EmbedText(p, second) IN
  CASE a.status # 200 -> a
    [] a.status = 200 /\ b.status # 200 -> b
    [] OTHER -> IF Len(a.vector) # Len(b.vector) \/ a.vector = <<>> THEN Broken
                ELSE [status |-> 200, code |-> "", a |-> a.vector, b |-> b.vector,
                      cosine |-> Cosine(a.vector, b.vector),
                      dot    |-> Dot(a.vector, b.vector),
                      square |-> Distance(a.vector, b.vector)]

\* POST /embeddings/embed and /embeddings/similarity; the rate limiter may
\* refuse either.
RateLimited == [status |-> 429, code |-> "rate_limited"]
Embed ==
  \E p \in Registered \cup {"other"}, o \in Outcomes :
    \E answer \in {RateLimited, EmbedText(p, o)} :
      call' = [provider |-> p, upstream |-> {o.kind}, answer |-> answer]
Similarity ==
  \E p \in Registered \cup {"other"}, o1 \in Outcomes, o2 \in Outcomes :
    \E answer \in {RateLimited, Compare(p, o1, o2)} :
      call' = [provider |-> p, upstream |-> {o1.kind, o2.kind}, answer |-> answer]

PlayNext == (Embed \/ Similarity) /\ UNCHANGED keys

PlaySpec == PlayInit /\ [][PlayNext]_playVars

-----------------------------------------------------------------------------
\* The picker keeps its word: a provider it shows as usable is refused only
\* when it returned no vector, and one it shows as unusable is refused for
\* the reason shown, though the two are worked out apart.
PickerPredicts ==
  call # NoCall /\ call.answer.status # 429 =>
    IF call.provider \notin Registered
    THEN call.answer = Refused("provider_unknown")
    ELSE LET entry == Listed(call.provider) IN
         CASE ~entry.key_configured -> call.answer = Refused("provider_key_missing")
           [] entry.key_configured /\ ~entry.supports_embed ->
                call.answer = Refused("provider_does_not_support_embedding")
           [] OTHER -> call.answer.status = 422 => "nothing" \in call.upstream

\* The three metrics of a comparison agree with each other, and the cosine
\* is within [-1, 1] for every pair of vectors, zero vectors included.
MetricsAgree ==
  call # NoCall /\ "cosine" \in DOMAIN call.answer =>
    LET r == call.answer IN
    /\ r.cosine.den > 0
    /\ r.cosine.num <= r.cosine.den
    /\ r.square = Dot(r.a, r.a) + Dot(r.b, r.b) - 2 * r.dot
    /\ r.square = 0 => r.a = r.b

=============================================================================
