------------------------- MODULE MCSubjectAssertion -------------------------
(***************************************************************************)
(* Subject assertions for TLC: well-shaped ID tokens of several persons,   *)
(* variants in one part, and profiles that differ in what they require.    *)
(* The pairwise subjects of two persons are the public ones exchanged, the *)
(* ephemeral ones coincide, and a second issuer has the same ones for      *)
(* other persons; a subject and a tenant have quotes and commas that would *)
(* make them read as two texts, a tenant is spelled null, and the subjects *)
(* of one account are padded, too long or partly invisible.                *)
(***************************************************************************)
EXTENDS SubjectAssertion

CONSTANTS self, other, known, alice, bob, carol, odd

MCInvisible == {"zwsp"}

Split == <<Quote, Comma, Quote>>

MCSubjectOf(iss, type, person) ==
  CASE person = odd -> CASE type = "public" -> <<Blank, "x">>
                         [] type = "pairwise" -> <<"x", "x", "x", "x", "x", "x">>
                         [] OTHER -> <<"x", "zwsp", "y">>
    [] type = "ephemeral" -> <<"x">>
    [] person = carol -> <<"x">> \o Split \o <<"y">>
    [] (person = alice) = (iss = "keyverse" /\ type = "public") -> <<"x">>
    [] OTHER -> <<"y">>

Key(k, a) == [kid |-> k, alg |-> a, sound |-> TRUE]
EC == Key("k1", "ES256")
RSA == Key("k2", "RS256")

IdToken ==
  [wellFormed |-> TRUE, alg |-> "ES256", extraHeader |-> FALSE,
   mediaType |-> "JWT", kid |-> "k1", signature |-> EC, typ |-> "ID",
   iss |-> "keyverse", aud |-> <<self>>, azp |-> None, sub |-> None,
   iat |-> 0, exp |-> 0, nbf |-> None, nonce |-> None, tenant |-> <<"t">>,
   person |-> alice]

MCShapes ==
  {IdToken,
   [IdToken EXCEPT !.tenant = <<"n", "u", "l", "l">>, !.nbf = 0],
   [IdToken EXCEPT !.tenant = None],
   [IdToken EXCEPT !.person = bob],
   [IdToken EXCEPT !.person = bob, !.iss = "second"],
   [IdToken EXCEPT !.person = bob, !.tenant = <<"t">> \o Split \o <<"x">>],
   [IdToken EXCEPT !.person = carol],
   [IdToken EXCEPT !.typ = "Bearer"],
   [IdToken EXCEPT !.aud = <<self, known>>, !.azp = self],
   [IdToken EXCEPT !.aud = <<self, other>>, !.azp = self],
   [IdToken EXCEPT !.alg = "RS256", !.kid = "k2", !.signature = RSA],
   [IdToken EXCEPT !.exp = Bad],
   [IdToken EXCEPT !.nbf = Bad],
   [IdToken EXCEPT !.person = odd]}

MCAlterations(t) ==
  {[t EXCEPT !.wellFormed = FALSE],
   [t EXCEPT !.extraHeader = TRUE],
   [t EXCEPT !.mediaType = "other"],
   [t EXCEPT !.alg = "RS256", !.kid = "k2", !.signature = None],
   [t EXCEPT !.sub = <<"z">>, !.signature = None],
   [t EXCEPT !.exp = MaxTime + 9, !.signature = None]} \ {t}

BaseProfile ==
  [issuer |-> "keyverse", algorithms |-> {"ES256"}, extra |-> {known},
   subjectType |-> "public", tenantClaim |-> "org", leeway |-> 0,
   keys |-> <<EC>>]

MCProfiles ==
  {BaseProfile,
   [BaseProfile EXCEPT !.leeway = 1],
   [BaseProfile EXCEPT !.tenantClaim = None],
   [BaseProfile EXCEPT !.subjectType = "pairwise"],
   [BaseProfile EXCEPT !.subjectType = "ephemeral", !.tenantClaim = None],
   [BaseProfile EXCEPT !.issuer = "second"],
   [BaseProfile EXCEPT !.algorithms = Algorithms, !.keys = <<EC, RSA>>,
                       !.extra = {}],
   [BaseProfile EXCEPT !.leeway = 301],
   [BaseProfile EXCEPT !.extra = {self}],
   [BaseProfile EXCEPT !.keys = <<EC, EC>>],
   [BaseProfile EXCEPT !.keys = <<EC, RSA>>],
   [BaseProfile EXCEPT !.algorithms = {}]}
=============================================================================
