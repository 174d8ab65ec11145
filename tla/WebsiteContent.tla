--------------------------- MODULE WebsiteContent ---------------------------
(***************************************************************************)
(* What the texts of the project website, each written twice, say about    *)
(* each other: the entries of the tables of contents, the ids their        *)
(* bodies carry, and the documents the indexes list.  Prose is left out.   *)
(***************************************************************************)
EXTENDS Sequences, TLC

RFC(toc, Body) == [toc |-> toc, Body |-> Body]

rfc0En == RFC(
  <<"s1-escopo", "s2-terminologia", "s3-arquitetura", "s4-invariantes",
    "s5-documentos", "s6-seguranca", "s7-referencias">>,
  <<"s1-escopo", "s2-terminologia", "s3-arquitetura", "s4-invariantes",
    "s5-documentos", "s6-seguranca", "s7-referencias">>)
rfc0PtBR == RFC(
  <<"s1-escopo", "s2-terminologia", "s3-arquitetura", "s4-invariantes",
    "s5-documentos", "s6-seguranca", "s7-referencias">>,
  <<"s1-escopo", "s2-terminologia", "s3-arquitetura", "s4-invariantes",
    "s5-documentos", "s6-seguranca", "s7-referencias">>)
rfc1En == RFC(
  <<"s1-escopo", "s2-terminologia", "s3-schema", "s4-tipos",
    "s5-canonicalizacao", "s6-versionamento", "s7-seguranca", "s8-referencias">>,
  <<"s1-escopo", "s2-terminologia", "s3-schema", "s4-tipos",
    "s5-canonicalizacao", "s6-versionamento", "s7-seguranca", "s8-referencias">>)
rfc1PtBR == RFC(
  <<"s1-escopo", "s2-terminologia", "s3-schema", "s4-tipos",
    "s5-canonicalizacao", "s6-versionamento", "s7-seguranca", "s8-referencias">>,
  <<"s1-escopo", "s2-terminologia", "s3-schema", "s4-tipos",
    "s5-canonicalizacao", "s6-versionamento", "s7-seguranca", "s8-referencias">>)
rfc2En == RFC(
  <<"s1-escopo", "s2-encoding", "s3-codecs", "s4-verificacao", "s5-retrieval",
    "s6-seguranca", "s7-referencias">>,
  <<"s1-escopo", "s2-encoding", "s3-codecs", "s4-verificacao", "s5-retrieval",
    "s6-seguranca", "s7-referencias">>)
rfc2PtBR == RFC(
  <<"s1-escopo", "s2-encoding", "s3-codecs", "s4-verificacao", "s5-retrieval",
    "s6-seguranca", "s7-referencias">>,
  <<"s1-escopo", "s2-encoding", "s3-codecs", "s4-verificacao", "s5-retrieval",
    "s6-seguranca", "s7-referencias">>)
rfc3En == RFC(
  <<"s1-escopo", "s2-chaves", "s3-dominio", "s4-typed-data", "s5-assinatura",
    "s6-verificacao", "s7-privy", "s8-seguranca", "s9-referencias">>,
  <<"s1-escopo", "s2-chaves", "s3-dominio", "s4-typed-data", "s5-assinatura",
    "s6-verificacao", "s7-privy", "s8-seguranca", "s9-referencias">>)
rfc3PtBR == RFC(
  <<"s1-escopo", "s2-chaves", "s3-dominio", "s4-typed-data", "s5-assinatura",
    "s6-verificacao", "s7-privy", "s8-seguranca", "s9-referencias">>,
  <<"s1-escopo", "s2-chaves", "s3-dominio", "s4-typed-data", "s5-assinatura",
    "s6-verificacao", "s7-privy", "s8-seguranca", "s9-referencias">>)
rfc4En == RFC(
  <<"s1-escopo", "s2-principio", "s3-exclusoes", "s4-thresholds",
    "s5-takedown", "s6-apelacao", "s7-seguranca", "s8-referencias">>,
  <<"s1-escopo", "s2-principio", "s3-exclusoes", "s4-thresholds",
    "s5-takedown", "s6-apelacao", "s7-seguranca", "s8-referencias">>)
rfc4PtBR == RFC(
  <<"s1-escopo", "s2-principio", "s3-exclusoes", "s4-thresholds",
    "s5-takedown", "s6-apelacao", "s7-seguranca", "s8-referencias">>,
  <<"s1-escopo", "s2-principio", "s3-exclusoes", "s4-thresholds",
    "s5-takedown", "s6-apelacao", "s7-seguranca", "s8-referencias">>)
rfc5En == RFC(
  <<"s1-escopo", "s2-contrato", "s3-challenge", "s4-formula",
    "s5-pesos-regiao", "s6-epochs", "s7-seguranca", "s8-referencias">>,
  <<"s1-escopo", "s2-contrato", "s3-challenge", "s4-formula",
    "s5-pesos-regiao", "s6-epochs", "s7-seguranca", "s8-referencias">>)
rfc5PtBR == RFC(
  <<"s1-escopo", "s2-contrato", "s3-challenge", "s4-formula",
    "s5-pesos-regiao", "s6-epochs", "s7-seguranca", "s8-referencias">>,
  <<"s1-escopo", "s2-contrato", "s3-challenge", "s4-formula",
    "s5-pesos-regiao", "s6-epochs", "s7-seguranca", "s8-referencias">>)
rfc6En == RFC(
  <<"s1-abstract", "s2-formula", "s3-thresholds", "s4-canonical">>,
  <<"s1-abstract", "s2-formula", "s3-thresholds", "s4-canonical">>)
rfc6PtBR == RFC(
  <<"s1-abstract", "s2-formula", "s3-thresholds", "s4-canonical">>,
  <<"s1-abstract", "s2-formula", "s3-thresholds", "s4-canonical">>)
rfc7En == RFC(
  <<"s1-abstract", "s2-composition", "s3-governance", "s4-trust-ledger",
    "s5-canonical">>,
  <<"s1-abstract", "s2-composition", "s3-governance", "s4-trust-ledger",
    "s5-canonical">>)
rfc7PtBR == RFC(
  <<"s1-abstract", "s2-composition", "s3-governance", "s4-trust-ledger",
    "s5-canonical">>,
  <<"s1-abstract", "s2-composition", "s3-governance", "s4-trust-ledger",
    "s5-canonical">>)
rfc8En == RFC(
  <<"s1-abstract", "s2-treasuries", "s3-boost", "s4-invariants",
    "s5-canonical">>,
  <<"s1-abstract", "s2-treasuries", "s3-boost", "s4-invariants",
    "s5-canonical">>)
rfc8PtBR == RFC(
  <<"s1-abstract", "s2-treasuries", "s3-boost", "s4-invariants",
    "s5-canonical">>,
  <<"s1-abstract", "s2-treasuries", "s3-boost", "s4-invariants",
    "s5-canonical">>)

getRFCContent ==
   "rfc-0" :> ("pt-BR" :> rfc0PtBR @@ "en" :> rfc0En) @@
   "rfc-1" :> ("pt-BR" :> rfc1PtBR @@ "en" :> rfc1En) @@
   "rfc-2" :> ("pt-BR" :> rfc2PtBR @@ "en" :> rfc2En) @@
   "rfc-3" :> ("pt-BR" :> rfc3PtBR @@ "en" :> rfc3En) @@
   "rfc-4" :> ("pt-BR" :> rfc4PtBR @@ "en" :> rfc4En) @@
   "rfc-5" :> ("pt-BR" :> rfc5PtBR @@ "en" :> rfc5En) @@
   "rfc-6" :> ("pt-BR" :> rfc6PtBR @@ "en" :> rfc6En) @@
   "rfc-7" :> ("pt-BR" :> rfc7PtBR @@ "en" :> rfc7En) @@
   "rfc-8" :> ("pt-BR" :> rfc8PtBR @@ "en" :> rfc8En)

whitepaperTocEn ==
  <<"abstract", "s1-introduction", "s2-content-addressing",
    "s3-signed-manifests", "s4-content-registry", "s5-persistence-pool",
    "s6-network-layer", "s7-inference-layer", "s8-risk-score", "s9-governance",
    "s10-privacy-model", "s11-adversarial-analysis",
    "s12-simplified-verification", "s13-economic-model", "s14-related-work",
    "s15-conclusion", "references">>
WhitepaperBodyEn ==
  <<"abstract", "s1-introduction", "s2-content-addressing",
    "s3-signed-manifests", "s4-content-registry", "s5-persistence-pool",
    "s6-network-layer", "s7-inference-layer", "s8-risk-score", "s9-governance",
    "s10-privacy-model", "s11-adversarial-analysis",
    "s12-simplified-verification", "s13-economic-model", "s14-related-work",
    "s15-conclusion", "references">>
faqSectionsEn == <<"developers", "creators", "operators", "investors">>
specCardsEn ==
  <<"rfc-0", "rfc-1", "rfc-2", "rfc-3", "rfc-4", "rfc-5", "rfc-6", "rfc-7",
    "rfc-8">>
portalsEn == <<<<"whitepaper">>, <<"spec">>, <<"manifesto">>>>
whitepaperTocPtBR ==
  <<"abstract", "s1-introduction", "s2-content-addressing",
    "s3-signed-manifests", "s4-content-registry", "s5-persistence-pool",
    "s6-network-layer", "s7-inference-layer", "s8-risk-score", "s9-governance",
    "s10-privacy-model", "s11-adversarial-analysis",
    "s12-simplified-verification", "s13-economic-model", "s14-related-work",
    "s15-conclusion", "references">>
WhitepaperBodyPtBR ==
  <<"abstract", "s1-introduction", "s2-content-addressing",
    "s3-signed-manifests", "s4-content-registry", "s5-persistence-pool",
    "s6-network-layer", "s7-inference-layer", "s8-risk-score", "s9-governance",
    "s10-privacy-model", "s11-adversarial-analysis",
    "s12-simplified-verification", "s13-economic-model", "s14-related-work",
    "s15-conclusion", "references">>
faqSectionsPtBR == <<"developers", "creators", "operators", "investors">>
specCardsPtBR ==
  <<"rfc-0", "rfc-1", "rfc-2", "rfc-3", "rfc-4", "rfc-5", "rfc-6", "rfc-7",
    "rfc-8">>
portalsPtBR == <<<<"whitepaper">>, <<"spec">>, <<"manifesto">>>>

WhitepaperBodyByLocale == "pt-BR" :> WhitepaperBodyPtBR @@ "en" :> WhitepaperBodyEn

\* what the pages read of a dictionary
getDictionary ==
  "pt-BR" :> [portals |-> portalsPtBR, cards |-> specCardsPtBR,
              faq |-> faqSectionsPtBR, toc |-> whitepaperTocPtBR] @@
  "en" :> [portals |-> portalsEn, cards |-> specCardsEn,
           faq |-> faqSectionsEn, toc |-> whitepaperTocEn]

=============================================================================
