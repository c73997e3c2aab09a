SPECIFICATION Spec
CONSTANTS
    link = link
    signer = signer
    odd = odd
    build1 = build1
    build2 = build2
    None = None
    Plugins = {link, signer, odd}
    Builds = {build1, build2}
    Chunks = 2
    Calls <- MCCalls
    Unescaped = {odd}
    MaxInstalls = 2
SYMMETRY MCSymmetry
INVARIANT TypeOK
INVARIANT MixtureHasCulprit
INVARIANT ServesWholeCall
INVARIANT VerifiesCleanly
