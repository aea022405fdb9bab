\* Is CURLOPT_CAINFO a path set_certificate_bundle_path stored when that
\* setter may run in another thread than set_url?
CONSTANTS
    Conns = {c1, c2, c3}
    HttpUrls = {uh}
    HttpsUrls = {us1, us2}
    Paths = {pa, pb}
    NoUrl = NoUrl
    NoWrite = NoWrite
    Garbage = Garbage
    ConcurrentSetter = TRUE
SYMMETRY Symmetry
SPECIFICATION Spec
INVARIANT CainfoFromSetter
