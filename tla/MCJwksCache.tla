---------------------------- MODULE MCJwksCache ----------------------------
(* Instances of JwksCache for TLC: moduli below 16 in two limbs of base 4. *)
EXTENDS JwksCache

(* The issuer google replaces its keys three times, one document having a  *)
(* malformed key between good ones, the last one a key it had before; a    *)
(* document of the other issuer cannot be parsed.                          *)
MCDocs ==
    [google |-> <<<<6>>, <<6, 9>>, <<9, Malformed, 6>>, <<9, 14>>>>,
     x509_google |-> <<<<7>>, <<7, None>>, <<11>>>>]

Input(provider, modulus) == [provider |-> provider, modulus |-> modulus]

(* The limbs of published keys, of one that is not, of one shifted, and no *)
(* modulus.                                                                *)
MCInputs ==
    {Input("google", <<1, 2>>), Input("google", <<1, 0>>), Input("google", None),
     Input("x509_google", <<3, 1>>), Input("x509_google", <<3, 2>>)}
=============================================================================
